------------------------ MODULE ArchiveRuntimeProofs ------------------------
(***************************************************************************)
(* Type correctness of ArchiveRuntime, the exclusion of two workers with   *)
(* work on the archive, and the finality of refusals, for any number of    *)
(* tabs, requests and limits.                                              *)
(***************************************************************************)
EXTENDS ArchiveRuntime, SequenceTheorems, FiniteSetTheorems, TLAPS

(* Removing one element of a sequence leaves a sequence over the same set. *)
LEMMA RemoveAtType ==
  ASSUME NEW S, NEW s \in Seq(S), NEW i \in DOMAIN s
  PROVE  RemoveAt(s, i) \in Seq(S)
<1>1. i \in 1 .. Len(s) /\ Len(s) \in Nat
  OBVIOUS
<1>2. SubSeq(s, 1, i - 1) \in Seq(S)
  BY <1>1, SubSeqProperties
<1>3. SubSeq(s, i + 1, Len(s)) \in Seq(S)
  BY <1>1, SubSeqProperties
<1>. QED
  BY <1>2, <1>3, ConcatProperties DEF RemoveAt

(* Posting keeps boxes sequences of messages,                              *)
LEMMA PostType ==
  ASSUME NEW box \in [Tab -> Seq(Message)], NEW to, NEW msgs \in Seq(Message)
  PROVE  Post(box, to, msgs) \in [Tab -> Seq(Message)]
BY ConcatProperties DEF Post

(* and so does broadcasting.                                               *)
LEMMA BroadcastType ==
  ASSUME NEW box \in [Tab -> Seq(Message)], NEW from \in Tab,
         NEW type \in {"hello", "owner", "released"}
  PROVE  Broadcast(box, from, type) \in [Tab -> Seq(Message)]
<1>1. Msg(type, from, NoId, "idle") \in Message
  BY DEF Msg, Message
<1>. QED
  BY <1>1 DEF Broadcast

(* Settled answers are answers.                                            *)
LEMMA SettledType ==
  ASSUME NEW ans \in [Id -> Answer], NEW ids, NEW value \in Answer
  PROVE  Settled(ans, ids, value) \in [Id -> Answer]
BY DEF Settled

(* A call is a message,                                                    *)
LEMMA CallMsgType ==
  ASSUME NEW from \in Tab, NEW id \in Id
  PROVE  CallMsg(from, id) \in Message
BY DEF CallMsg, Msg, Message, Answer

(* held calls are sent as messages,                                        *)
LEMMA CallMsgsType ==
  ASSUME NEW from \in Tab, NEW reqs \in Seq(Req)
  PROVE  /\ CallMsgs(from, reqs) \in Seq(Message)
         /\ CancelMsgs(from, reqs) \in Seq(Message)
<1>1. \A i \in 1 .. Len(reqs) : reqs[i] \in Req
  OBVIOUS
<1>2. \A c \in Req : Request(c) \in Id /\ CancelOf(c) \in Id
  BY DEF Request, CancelOf, Id
<1>3. \A i \in 1 .. Len(reqs) : CallMsg(from, Request(reqs[i])) \in Message
                              /\ CallMsg(from, CancelOf(reqs[i])) \in Message
  BY <1>1, <1>2, CallMsgType
<1>. QED
  BY <1>3 DEF CallMsgs, CancelMsgs

(* and so are replies.                                                     *)
LEMMA ReplyMsgsType ==
  ASSUME NEW from \in Tab, NEW replies \in Seq(Reply)
  PROVE  ReplyMsgs(from, replies) \in Seq(Message)
<1>1. \A i \in 1 .. Len(replies) : replies[i] \in Reply
  OBVIOUS
<1>2. \A r \in Reply : Msg("reply", from, r.id, r.value) \in Message
  BY DEF Msg, Message, Reply
<1>3. \A i \in 1 .. Len(replies) :
        Msg("reply", from, replies[i].id, replies[i].value) \in Message
  BY <1>1, <1>2
<1>. QED
  BY <1>3 DEF ReplyMsgs

(* An order of a set of requests is a sequence of requests.                *)
LEMMA OrdersType ==
  ASSUME NEW S \in SUBSET Req, NEW s \in Orders(S)
  PROVE  s \in Seq(Req)
<1>1. IsFiniteSet(Req)
  BY CallsAssumption, FS_Interval DEF Req
<1>2. Cardinality(S) \in Nat
  BY <1>1, FS_Subset, FS_CardinalityType
<1>. QED
  BY <1>2 DEF Orders

(* What a cancellation reports is an answer.                               *)
LEMMA CancelOutcomeType ==
  ASSUME NEW w, NEW c
  PROVE  CancelOutcome(w, c) \in Answer
BY DEF CancelOutcome, Answer, CancelAnswer

(* What the owner's ingress makes of a call.                               *)
LEMMA IngressType ==
  ASSUME NEW w \in Tab, NEW id \in Id, TypeOK
  PROVE  /\ NewQueue(w, id) \in Seq(Req)
         /\ NewAborted(w, id) \in BOOLEAN
         /\ Replies(w, id) \in Seq(Reply)
<1>1. id.req \in Req /\ Request(id.req) \in Id
  BY DEF Id, Request
<1>2. queue[w] \in Seq(Req) /\ aborted[w] \in BOOLEAN
  BY DEF TypeOK
<1>3. NewQueue(w, id) \in Seq(Req)
  <2>1. CASE IsCancel(id) /\ Queued(w, id.req)
    <3>1. Position(w, id.req) \in DOMAIN queue[w]
      BY <2>1 DEF Queued, Position
    <3>. QED
      BY <2>1, <3>1, <1>2, RemoveAtType DEF NewQueue
  <2>2. CASE ~(IsCancel(id) /\ Queued(w, id.req))
    BY <2>2, <1>1, <1>2 DEF NewQueue
  <2>. QED
    BY <2>1, <2>2
<1>4. NewAborted(w, id) \in BOOLEAN
  BY DEF NewAborted
<1>5. Replies(w, id) \in Seq(Reply)
  <2>1. \A i \in Id, v \in Answer : Answered(i, v) \in Reply
    BY DEF Answered, Reply
  <2>2. {"OVERLOADED", "CANCELLED", "cancelled_before_commit"} \subseteq Answer
    BY DEF Answer, DefiniteFailure, CancelAnswer
  <2>3. Answered(id, "OVERLOADED") \in Reply /\ Answered(Request(id.req), "CANCELLED") \in Reply
        /\ Answered(id, "cancelled_before_commit") \in Reply
        /\ Answered(id, CancelOutcome(w, id.req)) \in Reply
    BY <1>1, <2>1, <2>2, CancelOutcomeType
  <2>. QED
    BY <2>3 DEF Replies
<1>. QED
  BY <1>3, <1>4, <1>5

(* What a call entering a worker can change, typed.                        *)
CallsTyped ==
  /\ answer \in [Id -> Answer]
  /\ held \in [Tab -> Seq(Req)]
  /\ heldCancels \in [Tab -> SUBSET Req]
  /\ sent \in [Id -> Tab \cup {None}]
  /\ queue \in [Tab -> Seq(Req)]
  /\ aborted \in [Tab -> BOOLEAN]
  /\ inbox \in [Tab -> Seq(Message)]

(* The values the client and its worker give themselves are answers.       *)
LEMMA AnswerValues ==
  {"idle", "pending", "OK", "UNKNOWN_OUTCOME", "CANCELLED", "CLOSED", "OVERLOADED", "FAILED",
   "not_dispatched", "cancelled_before_commit", "committed", "unknown_outcome"} \subseteq Answer
BY DEF Answer, DefiniteFailure, CancelAnswer

(* Identities and what they name.                                          *)
LEMMA IdParts ==
  /\ \A id \in Id : id.req \in Req
  /\ \A c \in Req : Request(c) \in Id /\ CancelOf(c) \in Id
BY DEF Id, Request, CancelOf

(* A call the client refuses keeps the types,                              *)
LEMMA RefusedType ==
  ASSUME NEW ans \in [Id -> Answer], NEW id \in Id, TypeOK, Refused(ans, id)
  PROVE  CallsTyped'
BY AnswerValues DEF Refused, waitingVars, CallsTyped, TypeOK

(* and so does one that enters its worker,                                 *)
LEMMA IngressStepType ==
  ASSUME NEW t \in Tab, NEW id \in Id, NEW ans \in [Id -> Answer], TypeOK,
         Ingress(t, id, ans)
  PROVE  CallsTyped'
<1>1. CASE IngressFull(t, id, ans)
  BY <1>1, AnswerValues DEF IngressFull, waitingVars, CallsTyped, TypeOK
<1>2. CASE IngressNotDispatched(t, id, ans)
  <2>1. HeldAt(t, id.req) \in DOMAIN held[t]
    BY <1>2 DEF IngressNotDispatched, IsHeld, HeldAt
  <2>2. RemoveAt(held[t], HeldAt(t, id.req)) \in Seq(Req)
    BY <2>1, RemoveAtType DEF TypeOK
  <2>3. answer' \in [Id -> Answer]
    BY <1>2, SettledType, AnswerValues DEF IngressNotDispatched
  <2>. QED
    BY <1>2, <2>2, <2>3 DEF IngressNotDispatched, CallsTyped, TypeOK
<1>3. CASE IngressHeld(t, id, ans)
  <2>1. id.req \in Req
    BY IdParts
  <2>2. \A s \in Seq(Req) : Append(s, id.req) \in Seq(Req)
    BY <2>1
  <2>3. CASE held' = [held EXCEPT ![t] = Append(@, id.req)] /\ UNCHANGED heldCancels
    BY <1>3, <2>2, <2>3 DEF IngressHeld, CallsTyped, TypeOK
  <2>4. CASE heldCancels' = [heldCancels EXCEPT ![t] = @ \cup {id.req}] /\ UNCHANGED held
    BY <1>3, <2>1, <2>4 DEF IngressHeld, CallsTyped, TypeOK
  <2>. QED
    BY <1>3, <2>3, <2>4 DEF IngressHeld
<1>4. CASE IngressForwarded(t, id, ans)
  <2>1. <<CallMsg(t, id)>> \in Seq(Message)
    BY CallMsgType
  <2>2. inbox' \in [Tab -> Seq(Message)]
    BY <1>4, <2>1, PostType DEF IngressForwarded, TypeOK
  <2>. QED
    BY <1>4, <2>2 DEF IngressForwarded, CallsTyped, TypeOK
<1>5. CASE IngressLocal(t, id, ans)
  <2>. DEFINE replies == ToSet(Replies(t, id))
  <2>1. replies \subseteq Reply
    BY IngressType DEF ToSet
  <2>2. \A r \in replies : r.value \in Answer
    BY <2>1 DEF Reply
  <2>3. answer' \in [Id -> Answer]
    BY <1>5, <2>2 DEF IngressLocal
  <2>4. sent' \in [Id -> Tab \cup {None}]
    BY <1>5 DEF IngressLocal, TypeOK
  <2>5. queue' \in [Tab -> Seq(Req)] /\ aborted' \in [Tab -> BOOLEAN]
    BY <1>5, IngressType DEF IngressLocal, TypeOK
  <2>. QED
    BY <1>5, <2>3, <2>4, <2>5 DEF IngressLocal, CallsTyped, TypeOK
<1>. QED
  BY <1>1, <1>2, <1>3, <1>4, <1>5 DEF Ingress

(* and a cancellation, whatever becomes of it.                             *)
LEMMA SendCancelType ==
  ASSUME NEW t \in Tab, NEW c \in Req, NEW ans \in [Id -> Answer], TypeOK,
         SendCancel(t, c, ans)
  PROVE  CallsTyped'
<1>1. [ans EXCEPT ![CancelOf(c)] = "pending"] \in [Id -> Answer]
  BY AnswerValues
<1>. QED
  BY <1>1, IdParts, RefusedType, IngressStepType DEF SendCancel

(* What is never disturbed by a call on its way.                           *)
RestTyped ==
  /\ caller \in [Req -> Tab \cup {None}]
  /\ phase \in [Tab -> Phase]
  /\ closing \in [Tab -> BOOLEAN]
  /\ known \in [Tab -> Tab \cup {None}]
  /\ active \in [Tab -> Req \cup {0}]
  /\ result \in [Tab -> {"running", "OK", "CANCELLED", "FAILED"}]
  /\ gateBroken \in [Tab -> BOOLEAN]
  /\ turn \in [Tab -> Turn]
  /\ lock \in Tab \cup {None}
  /\ committed \subseteq {TxnOf[c] : c \in Req}
  /\ effects \in Seq(Req)

(* The type invariant in two parts: what the ingress of a call may change, *)
(* and the rest.                                                           *)
LEMMA TypeParts == TypeOK <=> CallsTyped /\ RestTyped
BY DEF TypeOK, CallsTyped, RestTyped

(* The client's steps keep the types.                                      *)
LEMMA ClientType ==
  ASSUME TypeOK, NEW t \in Tab, Client(t)
  PROVE  TypeOK'
<1>1. ASSUME NEW c \in Req, Issue(t, c)
      PROVE  TypeOK'
  <2>1. [answer EXCEPT ![Request(c)] = "pending"] \in [Id -> Answer]
    BY AnswerValues DEF TypeOK
  <2>2. CallsTyped'
    BY <1>1, <2>1, IdParts, RefusedType, IngressStepType DEF Issue, TypeOK
  <2>3. RestTyped'
    BY <1>1 DEF Issue, durable, RestTyped, TypeOK
  <2>. QED
    BY <2>2, <2>3 DEF TypeOK, CallsTyped, RestTyped
<1>2. ASSUME NEW c \in Req, Cancel(t, c)
      PROVE  TypeOK'
  <2>1. CallsTyped'
    BY <1>2, SendCancelType DEF Cancel, TypeOK
  <2>2. RestTyped'
    BY <1>2 DEF Cancel, durable, RestTyped, TypeOK
  <2>. QED
    BY <2>1, <2>2 DEF TypeOK, CallsTyped, RestTyped
<1>3. ASSUME NEW id \in Id, Timeout(t, id)
      PROVE  TypeOK'
  <2>. DEFINE ans == [answer EXCEPT ![id] = "UNKNOWN_OUTCOME"]
  <2>1. ans \in [Id -> Answer]
    BY AnswerValues DEF TypeOK
  <2>2. CallsTyped'
    <3>1. CASE SendCancel(t, id.req, ans)
      BY <3>1, <2>1, IdParts, SendCancelType
    <3>2. CASE answer' = ans /\ UNCHANGED <<waitingVars, queue, aborted, inbox>>
      BY <3>2, <2>1 DEF waitingVars, CallsTyped, TypeOK
    <3>. QED
      BY <1>3, <3>1, <3>2 DEF Timeout
  <2>3. RestTyped'
    BY <1>3 DEF Timeout, durable, RestTyped, TypeOK
  <2>. QED
    BY <2>2, <2>3 DEF TypeOK, CallsTyped, RestTyped
<1>. QED
  BY <1>1, <1>2, <1>3 DEF Client

(* Election keeps the types.                                               *)
LEMMA ElectionType ==
  ASSUME TypeOK, NEW t \in Tab, Election(t)
  PROVE  TypeOK'
<1>. USE DEF clientVars, waitingVars, ownerVars, durable
<1>1. CASE Start(t)
  <2>1. inbox' \in [Tab -> Seq(Message)]
    BY <1>1, BroadcastType DEF Start, TypeOK
  <2>. QED
    BY <1>1, <2>1 DEF Start, TypeOK, Phase
<1>2. CASE Grant(t)
  BY <1>2 DEF Grant, TypeOK, Phase
<1>3. CASE OpenOk(t)
  <2>1. inbox' \in [Tab -> Seq(Message)]
    BY <1>3, BroadcastType DEF OpenOk, TypeOK
  <2>2. answer' \in [Id -> Answer]
    BY <1>3, AnswerValues, CancelOutcomeType DEF OpenOk, TypeOK
  <2>3. sent' \in [Id -> Tab \cup {None}]
    BY <1>3 DEF OpenOk, TypeOK
  <2>4. held' \in [Tab -> Seq(Req)] /\ queue' \in [Tab -> Seq(Req)]
        /\ heldCancels' \in [Tab -> SUBSET Req]
    BY <1>3 DEF OpenOk, TypeOK
  <2>. QED
    BY <1>3, <2>1, <2>2, <2>3, <2>4 DEF OpenOk, TypeOK, Phase
<1>4. CASE OpenFails(t)
  <2>1. inbox' \in [Tab -> Seq(Message)]
    <3>1. Broadcast(inbox, t, "released") \in [Tab -> Seq(Message)]
      BY BroadcastType DEF TypeOK
    <3>2. <<>> \in Seq(Message)
      OBVIOUS
    <3>. QED
      BY <1>4, <3>1, <3>2 DEF OpenFails
  <2>2. answer' \in [Id -> Answer]
    BY <1>4, AnswerValues, SettledType DEF OpenFails, TypeOK
  <2>3. sent' \in [Id -> Tab \cup {None}]
    BY <1>4 DEF OpenFails, NothingWaits, Unsent, TypeOK
  <2>4. held' \in [Tab -> Seq(Req)] /\ heldCancels' \in [Tab -> SUBSET Req]
    BY <1>4 DEF OpenFails, NothingWaits, TypeOK
  <2>. QED
    BY <1>4, <2>1, <2>2, <2>3, <2>4 DEF OpenFails, TypeOK, Phase
<1>. QED
  BY <1>1, <1>2, <1>3, <1>4 DEF Election

(* Finding an owner keeps the types,                                       *)
LEMMA OwnerFoundType ==
  ASSUME TypeOK, NEW t \in Tab, NEW next \in Tab, NEW box \in [Tab -> Seq(Message)],
         OwnerFound(t, next, box)
  PROVE  /\ known' \in [Tab -> Tab \cup {None}]
         /\ answer' \in [Id -> Answer]
         /\ held' \in [Tab -> Seq(Req)]
         /\ heldCancels' \in [Tab -> SUBSET Req]
         /\ sent' \in [Id -> Tab \cup {None}]
         /\ inbox' \in [Tab -> Seq(Message)]
<1>1. answer' \in [Id -> Answer]
  BY SettledType, AnswerValues DEF OwnerFound, TypeOK
<1>2. inbox' \in [Tab -> Seq(Message)]
  <2>1. PICK cancels \in Orders(heldCancels[t]) :
          inbox' = Post(box, next, CallMsgs(t, held[t]) \o CancelMsgs(t, cancels))
    BY DEF OwnerFound
  <2>2. cancels \in Seq(Req)
    BY <2>1, OrdersType DEF TypeOK
  <2>3. CallMsgs(t, held[t]) \in Seq(Message) /\ CancelMsgs(t, cancels) \in Seq(Message)
    BY <2>2, CallMsgsType DEF TypeOK
  <2>4. CallMsgs(t, held[t]) \o CancelMsgs(t, cancels) \in Seq(Message)
    BY <2>3, ConcatProperties
  <2>. QED
    BY <2>1, <2>4, PostType
<1>3. sent' \in [Id -> Tab \cup {None}]
  BY DEF OwnerFound, TypeOK
<1>4. held' \in [Tab -> Seq(Req)]
  BY DEF OwnerFound, TypeOK
<1>5. known' \in [Tab -> Tab \cup {None}] /\ heldCancels' \in [Tab -> SUBSET Req]
  BY DEF OwnerFound, TypeOK
<1>. QED
  BY <1>1, <1>2, <1>3, <1>4, <1>5

(* and so does losing it.                                                  *)
LEMMA OwnerLostType ==
  ASSUME TypeOK, NEW t \in Tab, NEW box \in [Tab -> Seq(Message)], OwnerLost(t, box)
  PROVE  /\ known' \in [Tab -> Tab \cup {None}]
         /\ answer' \in [Id -> Answer]
         /\ sent' \in [Id -> Tab \cup {None}]
         /\ inbox' \in [Tab -> Seq(Message)]
         /\ UNCHANGED <<held, heldCancels>>
<1>1. answer' \in [Id -> Answer]
  BY SettledType, AnswerValues DEF OwnerLost, TypeOK
<1>. QED
  BY <1>1 DEF OwnerLost, Unsent, TypeOK

(* The parts of a message.                                                 *)
LEMMA MessageParts ==
  \A m \in Message : /\ m.from \in Tab
                     /\ m.value \in Answer
                     /\ m.type \in {"call", "reply"} => m.id \in Id
BY AnswerValues DEF Message

(* Handling a message keeps the types.                                     *)
LEMMA ReceiveType ==
  ASSUME TypeOK, NEW r \in Tab, Receive(r)
  PROVE  TypeOK'
<1>. USE DEF waitingVars, durable
<1>1. PICK i \in Deliverable(r) :
        LET m == inbox[r][i]
            box == [inbox EXCEPT ![r] = RemoveAt(@, i)]
        IN \/ ReceiveHello(r, m, box) \/ ReceiveOwner(r, m, box)
           \/ ReceiveReleased(r, m, box) \/ ReceiveCall(r, m, box)
           \/ ReceiveReply(r, m, box)
  BY DEF Receive
<1>. DEFINE m == inbox[r][i]
            box == [inbox EXCEPT ![r] = RemoveAt(@, i)]
<1>2. i \in DOMAIN inbox[r]
  BY DEF Deliverable
<1>3. m \in Message
  BY <1>2 DEF TypeOK
<1>4. box \in [Tab -> Seq(Message)]
  BY <1>2, RemoveAtType DEF TypeOK
<1>5. UNCHANGED <<caller, phase, closing, active, result, gateBroken, turn, lock, committed, effects>>
  BY DEF Receive
<1>. HIDE DEF m, box
<1>6. CASE ReceiveHello(r, m, box)
  <2>1. inbox' \in [Tab -> Seq(Message)]
    BY <1>4, <1>6, BroadcastType DEF ReceiveHello
  <2>. QED
    BY <1>5, <1>6, <2>1 DEF ReceiveHello, TypeOK
<1>7. CASE ReceiveOwner(r, m, box)
  <2>1. CASE known[r] # m.from
    BY <1>3, <1>4, <1>5, <1>7, <2>1, MessageParts, OwnerFoundType DEF ReceiveOwner, TypeOK
  <2>2. CASE known[r] = m.from
    BY <1>4, <1>5, <1>7, <2>2 DEF ReceiveOwner, TypeOK
  <2>. QED
    BY <2>1, <2>2
<1>8. CASE ReceiveReleased(r, m, box)
  <2>1. CASE known[r] = m.from
    BY <1>3, <1>4, <1>5, <1>8, <2>1, OwnerLostType DEF ReceiveReleased, TypeOK
  <2>2. CASE known[r] # m.from
    BY <1>4, <1>5, <1>8, <2>2 DEF ReceiveReleased, TypeOK
  <2>. QED
    BY <2>1, <2>2
<1>9. CASE ReceiveCall(r, m, box)
  <2>1. CASE known[r] = r
    <3>1. m.id \in Id
      BY <1>3, <1>9, MessageParts DEF ReceiveCall
    <3>2. ReplyMsgs(r, Replies(r, m.id)) \in Seq(Message)
      BY <3>1, IngressType, ReplyMsgsType
    <3>3. inbox' \in [Tab -> Seq(Message)]
      <4>1. inbox' = Post(box, m.from, ReplyMsgs(r, Replies(r, m.id)))
        BY <1>9, <2>1 DEF ReceiveCall
      <4>. QED
        BY <1>4, <3>2, <4>1, PostType
    <3>4. queue' \in [Tab -> Seq(Req)] /\ aborted' \in [Tab -> BOOLEAN]
      <4>1. /\ queue' = [queue EXCEPT ![r] = NewQueue(r, m.id)]
            /\ aborted' = [aborted EXCEPT ![r] = NewAborted(r, m.id)]
        BY <1>9, <2>1 DEF ReceiveCall
      <4>2. NewQueue(r, m.id) \in Seq(Req) /\ NewAborted(r, m.id) \in BOOLEAN
        BY <3>1, IngressType
      <4>. QED
        BY <4>1, <4>2 DEF TypeOK
    <3>. QED
      BY <1>5, <1>9, <3>3, <3>4 DEF ReceiveCall, TypeOK
  <2>2. CASE known[r] # r
    BY <1>4, <1>5, <1>9, <2>2 DEF ReceiveCall, TypeOK
  <2>. QED
    BY <2>1, <2>2
<1>10. CASE ReceiveReply(r, m, box)
  <2>1. answer' \in [Id -> Answer]
    BY <1>3, <1>10, MessageParts, SettledType DEF ReceiveReply, TypeOK
  <2>2. sent' \in [Id -> Tab \cup {None}]
    BY <1>10 DEF ReceiveReply, Unsent, TypeOK
  <2>. QED
    BY <1>4, <1>5, <1>10, <2>1, <2>2 DEF ReceiveReply, TypeOK
<1>. QED
  BY <1>1, <1>6, <1>7, <1>8, <1>9, <1>10 DEF m, box

(* The owner's drain keeps the types.                                      *)
LEMMA DrainType ==
  ASSUME TypeOK, NEW w \in Tab, Drain(w)
  PROVE  TypeOK'
<1>. USE DEF clientVars, waitingVars, durable
<1>1. CASE Begin(w)
  <2>1. NextWork(w) \in DOMAIN queue[w]
    BY <1>1 DEF Begin, NextWork, TypeOK
  <2>2. queue[w][NextWork(w)] \in Req /\ RemoveAt(queue[w], NextWork(w)) \in Seq(Req)
    BY <2>1, RemoveAtType DEF TypeOK
  <2>3. active' \in [Tab -> Req \cup {0}] /\ queue' \in [Tab -> Seq(Req)]
    BY <1>1, <2>2 DEF Begin, TypeOK
  <2>. QED
    BY <1>1, <2>3 DEF Begin, TypeOK
<1>2. CASE Execute(w)
  <2>1. active[w] \in Req
    BY <1>2 DEF Execute, Proceeds, Running, TypeOK
  <2>2. effects' \in Seq(Req)
    BY <1>2, <2>1 DEF Execute, TypeOK
  <2>3. committed' \subseteq {TxnOf[c] : c \in Req}
    BY <1>2, <2>1 DEF Execute, TypeOK
  <2>. QED
    BY <1>2, <2>2, <2>3 DEF Execute, TypeOK
<1>3. CASE Refuse(w)
  BY <1>3 DEF Refuse, TypeOK
<1>4. CASE GateCloseFails(w)
  BY <1>4 DEF GateCloseFails, TypeOK
<1>5. CASE Finish(w)
  <2>. DEFINE id == Request(active[w])
  <2>1. id \in Id /\ result[w] \in Answer
    BY <1>5, IdParts, AnswerValues DEF Finish, TypeOK
  <2>2. <<Msg("reply", w, id, result[w])>> \in Seq(Message)
    BY <2>1 DEF Msg, Message
  <2>5. turn' \in [Tab -> Turn]
    BY <1>5 DEF Finish, Turn, TypeOK
  <2>3. CASE caller[active[w]] = w
    <3>1. /\ answer' = Settled(answer, {id}, result[w])
          /\ sent' = Unsent({id})
          /\ UNCHANGED inbox
      BY <1>5, <2>3 DEF Finish
    <3>2. answer' \in [Id -> Answer]
      BY <2>1, <3>1, SettledType DEF TypeOK
    <3>. QED
      BY <1>5, <2>5, <3>1, <3>2 DEF Finish, Unsent, TypeOK
  <2>4. CASE caller[active[w]] # w
    <3>1. /\ inbox' = Post(inbox, caller[active[w]], <<Msg("reply", w, id, result[w])>>)
          /\ UNCHANGED <<answer, sent>>
      BY <1>5, <2>4 DEF Finish
    <3>2. inbox' \in [Tab -> Seq(Message)]
      BY <2>2, <3>1, PostType DEF TypeOK
    <3>. QED
      BY <1>5, <2>5, <3>1, <3>2 DEF Finish, TypeOK
  <2>. QED
    BY <2>3, <2>4
<1>6. CASE Maintain(w) \/ Maintained(w)
  BY <1>6 DEF Maintain, Maintained, TypeOK, Turn
<1>. QED
  BY <1>1, <1>2, <1>3, <1>4, <1>5, <1>6 DEF Drain

(* What a worker that is gone leaves behind keeps the types.               *)
LEMMA GoneType ==
  ASSUME TypeOK, NEW t \in Tab, NEW ans \in [Id -> Answer],
         NEW box \in [Tab -> Seq(Message)], Gone(t, ans, box)
  PROVE  /\ phase' \in [Tab -> Phase]
         /\ known' \in [Tab -> Tab \cup {None}]
         /\ lock' \in Tab \cup {None}
         /\ answer' \in [Id -> Answer]
         /\ held' \in [Tab -> Seq(Req)]
         /\ heldCancels' \in [Tab -> SUBSET Req]
         /\ sent' \in [Id -> Tab \cup {None}]
         /\ inbox' \in [Tab -> Seq(Message)]
<1>1. phase' \in [Tab -> Phase] /\ known' \in [Tab -> Tab \cup {None}]
      /\ lock' \in Tab \cup {None} /\ answer' \in [Id -> Answer]
  BY DEF Gone, Phase, TypeOK
<1>2. held' \in [Tab -> Seq(Req)] /\ heldCancels' \in [Tab -> SUBSET Req]
      /\ sent' \in [Id -> Tab \cup {None}]
  BY DEF Gone, NothingWaits, Unsent, TypeOK
<1>3. <<>> \in Seq(Message)
  OBVIOUS
<1>4. inbox' \in [Tab -> Seq(Message)]
  BY <1>3 DEF Gone
<1>. QED
  BY <1>1, <1>2, <1>4

(* Closing, releasing and crashing keep the types.                         *)
LEMMA LeaveType ==
  ASSUME TypeOK, NEW t \in Tab, Close(t) \/ Release(t) \/ Crash(t)
  PROVE  TypeOK'
<1>. USE DEF waitingVars, ownerVars, durable
<1>1. FinalAnswers(t) \in [Id -> Answer]
      /\ Settled(answer, Own(t), "UNKNOWN_OUTCOME") \in [Id -> Answer]
  BY SettledType, AnswerValues DEF FinalAnswers, TypeOK
<1>2. <<>> \in Seq(Message) /\ <<>> \in Seq(Req)
  OBVIOUS
<1>3. CASE Close(t)
  <2>1. CASE Holds(t)
    BY <1>2, <1>3, <2>1 DEF Close, TypeOK
  <2>2. CASE ~Holds(t)
    BY <1>1, <1>3, <2>2, GoneType DEF Close, TypeOK
  <2>. QED
    BY <2>1, <2>2
<1>4. CASE Release(t)
  <2>1. Broadcast(inbox, t, "released") \in [Tab -> Seq(Message)]
    BY BroadcastType DEF TypeOK
  <2>2. Gone(t, FinalAnswers(t), Broadcast(inbox, t, "released"))
    BY <1>4 DEF Release
  <2>. QED
    BY <1>1, <1>4, <2>1, <2>2, GoneType DEF Release, TypeOK
<1>5. CASE Crash(t)
  <2>1. Gone(t, Settled(answer, Own(t), "UNKNOWN_OUTCOME"), inbox) /\ inbox \in [Tab -> Seq(Message)]
    BY <1>5 DEF Crash, TypeOK
  <2>2. queue' \in [Tab -> Seq(Req)] /\ active' \in [Tab -> Req \cup {0}]
    BY <1>2, <1>5 DEF Crash, TypeOK
  <2>3. turn' \in [Tab -> Turn]
    BY <1>5 DEF Crash, Turn, TypeOK
  <2>. QED
    BY <1>1, <1>5, <2>1, <2>2, <2>3, GoneType DEF Crash, TypeOK
<1>. QED
  BY <1>3, <1>4, <1>5

(* The type invariant holds initially,                                     *)
LEMMA TypeInit == Init => TypeOK
<1>1. <<>> \in Seq(Req) /\ <<>> \in Seq(Message)
  OBVIOUS
<1>. QED
  BY <1>1, AnswerValues DEF Init, TypeOK, Phase, Turn

(* and every step keeps it.                                                *)
LEMMA TypeStep == TypeOK /\ [Next]_vars => TypeOK'
<1>. SUFFICES ASSUME TypeOK, [Next]_vars
              PROVE  TypeOK'
  OBVIOUS
<1>1. CASE UNCHANGED vars
  BY <1>1 DEF vars, clientVars, waitingVars, ownerVars, durable, TypeOK
<1>2. ASSUME NEW t \in Tab,
             \/ Client(t) \/ Election(t) \/ Receive(t) \/ Drain(t)
             \/ Close(t) \/ Release(t) \/ Crash(t)
      PROVE  TypeOK'
  BY <1>2, ClientType, ElectionType, ReceiveType, DrainType, LeaveType
<1>. QED
  BY <1>1, <1>2 DEF Next

(* Every state of the workers, the bus and the clients has its type, for   *)
(* any number of tabs and requests.                                        *)
THEOREM Typing == Spec => []TypeOK
BY TypeInit, TypeStep, PTL DEF Spec

-----------------------------------------------------------------------------
(* Exclusion.  What makes WorkUnderLock inductive: whoever holds the       *)
(* archive has the lock; only the worker with the open database takes      *)
(* itself for the owner, so only it lets calls into its queue; and nobody  *)
(* hears of its own ownership from the bus.                                *)
Heard(r) == {m \in Message : m.type = "owner" => m.from # r}

LeftBehind(t) == phase[t] = "closed" /\ turn[t] = "abandoned"

ExclusionInv ==
  /\ \A t \in Tab : Holds(t) => lock = t
  /\ \A t \in Tab : known[t] = t => DatabaseOpen(t)
  /\ \A t \in Tab : queue[t] # <<>> \/ active[t] # 0 => DatabaseOpen(t) \/ LeftBehind(t)
  /\ \A r \in Tab : inbox[r] \in Seq(Heard(r))

(* Calls and replies are posted without announcing anybody.                *)
LEMMA PostHeard ==
  ASSUME NEW box, \A r \in Tab : box[r] \in Seq(Heard(r)), box \in [Tab -> Seq(Message)],
         NEW to, NEW msgs \in Seq({m \in Message : m.type # "owner"})
  PROVE  \A r \in Tab : Post(box, to, msgs)[r] \in Seq(Heard(r))
<1>1. \A r \in Tab : msgs \in Seq(Heard(r))
  BY DEF Heard
<1>2. \A r \in Tab : box[r] \o msgs \in Seq(Heard(r))
  BY <1>1, ConcatProperties
<1>. QED
  BY <1>2 DEF Post

(* A broadcast announces its sender to the others only.                    *)
LEMMA BroadcastHeard ==
  ASSUME NEW box, \A r \in Tab : box[r] \in Seq(Heard(r)),
         NEW from \in Tab, NEW type \in {"hello", "owner", "released"}
  PROVE  \A r \in Tab : Broadcast(box, from, type)[r] \in Seq(Heard(r))
<1>1. \A r \in Tab \ {from} : Msg(type, from, NoId, "idle") \in Heard(r)
  BY DEF Msg, Message, Heard
<1>. QED
  BY <1>1 DEF Broadcast

Direct == {m \in Message : m.type # "owner"}

(* Calls and replies are no announcements.                                 *)
LEMMA DirectMsgs ==
  ASSUME NEW from \in Tab
  PROVE  /\ \A id \in Id : <<CallMsg(from, id)>> \in Seq(Direct)
         /\ \A id \in Id, v \in Answer : <<Msg("reply", from, id, v)>> \in Seq(Direct)
         /\ \A reqs \in Seq(Req) : CallMsgs(from, reqs) \in Seq(Direct)
                                /\ CancelMsgs(from, reqs) \in Seq(Direct)
         /\ \A replies \in Seq(Reply) : ReplyMsgs(from, replies) \in Seq(Direct)
<1>1. \A id \in Id : CallMsg(from, id) \in Direct
  BY CallMsgType DEF CallMsg, Msg, Direct
<1>2. \A id \in Id, v \in Answer : Msg("reply", from, id, v) \in Direct
  BY DEF Msg, Message, Direct
<1>3. ASSUME NEW reqs \in Seq(Req)
      PROVE  CallMsgs(from, reqs) \in Seq(Direct) /\ CancelMsgs(from, reqs) \in Seq(Direct)
  <2>1. \A i \in 1 .. Len(reqs) : Request(reqs[i]) \in Id /\ CancelOf(reqs[i]) \in Id
    BY <1>3, IdParts
  <2>2. \A i \in 1 .. Len(reqs) : CallMsg(from, Request(reqs[i])) \in Direct
                                /\ CallMsg(from, CancelOf(reqs[i])) \in Direct
    BY <1>1, <2>1
  <2>. QED
    BY <2>2 DEF CallMsgs, CancelMsgs
<1>4. ASSUME NEW replies \in Seq(Reply)
      PROVE  ReplyMsgs(from, replies) \in Seq(Direct)
  <2>1. \A r \in Reply : r.id \in Id /\ r.value \in Answer
    BY DEF Reply
  <2>2. \A i \in 1 .. Len(replies) :
          Msg("reply", from, replies[i].id, replies[i].value) \in Direct
    BY <1>2, <1>4, <2>1
  <2>. QED
    BY <2>2 DEF ReplyMsgs
<1>. QED
  BY <1>1, <1>2, <1>3, <1>4

(* A call entering a worker touches the queue only of a self-known owner.  *)
LEMMA IngressExclusion ==
  ASSUME TypeOK, ExclusionInv, NEW t \in Tab, NEW id \in Id, NEW ans,
         Ingress(t, id, ans) \/ Refused(ans, id)
  PROVE  /\ \A u \in Tab : queue'[u] = queue[u] \/ DatabaseOpen(u)
         /\ \A r \in Tab : inbox'[r] \in Seq(Heard(r))
<1>. USE DEF waitingVars
<1>1. CASE IngressForwarded(t, id, ans)
  <2>1. \A r \in Tab : Post(inbox, known[t], <<CallMsg(t, id)>>)[r] \in Seq(Heard(r))
    BY DirectMsgs, PostHeard DEF Direct, ExclusionInv, TypeOK
  <2>. QED
    BY <1>1, <2>1 DEF IngressForwarded
<1>2. CASE IngressLocal(t, id, ans)
  <2>1. DatabaseOpen(t)
    BY <1>2 DEF IngressLocal, ExclusionInv
  <2>. QED
    BY <1>2, <2>1 DEF IngressLocal, ExclusionInv, TypeOK
<1>3. CASE UNCHANGED <<queue, inbox>>
  BY <1>3 DEF ExclusionInv
<1>4. Refused(ans, id) \/ IngressFull(t, id, ans) \/ IngressNotDispatched(t, id, ans)
        \/ IngressHeld(t, id, ans) => UNCHANGED <<queue, inbox>>
  BY DEF Refused, IngressFull, IngressNotDispatched, IngressHeld
<1>. QED
  BY <1>1, <1>2, <1>3, <1>4 DEF Ingress

(* The client's steps touch neither the lock nor whoever holds it.         *)
LEMMA ClientExclusion ==
  ASSUME TypeOK, ExclusionInv, NEW t \in Tab, Client(t)
  PROVE  ExclusionInv'
<1>1. /\ UNCHANGED <<phase, known, lock, active, turn>>
      /\ \A u \in Tab : queue'[u] = queue[u] \/ DatabaseOpen(u)
      /\ \A r \in Tab : inbox'[r] \in Seq(Heard(r))
  <2>1. ASSUME NEW c \in Req, Issue(t, c)
        PROVE  <1>1!1 /\ <1>1!2 /\ <1>1!3
    BY <2>1, IdParts, IngressExclusion DEF Issue
  <2>2. ASSUME NEW c \in Req, NEW ans, SendCancel(t, c, ans)
        PROVE  <1>1!2 /\ <1>1!3
    BY <2>2, IdParts, IngressExclusion DEF SendCancel
  <2>3. ASSUME NEW c \in Req, Cancel(t, c)
        PROVE  <1>1!1 /\ <1>1!2 /\ <1>1!3
    BY <2>2, <2>3 DEF Cancel
  <2>4. ASSUME NEW id \in Id, Timeout(t, id)
        PROVE  <1>1!1 /\ <1>1!2 /\ <1>1!3
    <3>1. CASE UNCHANGED <<queue, inbox>>
      BY <2>4, <3>1 DEF Timeout, ExclusionInv
    <3>2. CASE \E ans : SendCancel(t, id.req, ans)
      BY <2>2, <2>4, <3>2, IdParts DEF Timeout
    <3>. QED
      BY <2>4, <3>1, <3>2 DEF Timeout
  <2>. QED
    BY <2>1, <2>3, <2>4 DEF Client
<1>. QED
  BY <1>1 DEF ExclusionInv, Holds, DatabaseOpen, LeftBehind, Heard

(* An archive is opened only under the lock.                               *)
LEMMA ElectionExclusion ==
  ASSUME TypeOK, ExclusionInv, NEW t \in Tab, Election(t)
  PROVE  ExclusionInv'
<1>. USE DEF clientVars, waitingVars, ownerVars, durable, Holds, DatabaseOpen, LeftBehind, ExclusionInv
<1>1. CASE Start(t)
  <2>1. \A r \in Tab : inbox'[r] \in Seq(Heard(r))
    BY <1>1, BroadcastHeard DEF Start
  <2>. QED
    BY <1>1, <2>1 DEF Start, TypeOK, Heard
<1>2. CASE Grant(t)
  BY <1>2, NoneAssumption DEF Grant, LockFree, TypeOK, Heard
<1>3. CASE OpenOk(t)
  <2>1. \A r \in Tab : inbox'[r] \in Seq(Heard(r))
    BY <1>3, BroadcastHeard DEF OpenOk
  <2>. QED
    BY <1>3, <2>1 DEF OpenOk, TypeOK, Heard
<1>4. CASE OpenFails(t)
  <2>1. \A r \in Tab : Broadcast(inbox, t, "released")[r] \in Seq(Heard(r))
    BY BroadcastHeard
  <2>2. DOMAIN Broadcast(inbox, t, "released") = Tab
    BY DEF Broadcast
  <2>3. \A r \in Tab : inbox'[r] \in Seq(Heard(r))
    BY <1>4, <2>1, <2>2 DEF OpenFails
  <2>. QED
    BY <1>4, <2>3, NoneAssumption DEF OpenFails, TypeOK, Heard
<1>. QED
  BY <1>1, <1>2, <1>3, <1>4 DEF Election

(* Handling a message gives nobody the lock; only the owner queues work.   *)
LEMMA ReceiveExclusion ==
  ASSUME TypeOK, ExclusionInv, NEW r \in Tab, Receive(r)
  PROVE  ExclusionInv'
<1>. USE DEF waitingVars, durable
<1>1. PICK i \in Deliverable(r) :
        LET m == inbox[r][i]
            box == [inbox EXCEPT ![r] = RemoveAt(@, i)]
        IN \/ ReceiveHello(r, m, box) \/ ReceiveOwner(r, m, box)
           \/ ReceiveReleased(r, m, box) \/ ReceiveCall(r, m, box)
           \/ ReceiveReply(r, m, box)
  BY DEF Receive
<1>. DEFINE m == inbox[r][i]
            box == [inbox EXCEPT ![r] = RemoveAt(@, i)]
<1>2. i \in DOMAIN inbox[r]
  BY DEF Deliverable
<1>3. m \in Message /\ m \in Heard(r)
  BY <1>2 DEF TypeOK, ExclusionInv
<1>4. box \in [Tab -> Seq(Message)] /\ \A q \in Tab : box[q] \in Seq(Heard(q))
  BY <1>2, RemoveAtType DEF TypeOK, ExclusionInv
<1>5. UNCHANGED <<phase, active, turn, lock>>
  BY DEF Receive
<1>. HIDE DEF m, box
<1>6. SUFFICES /\ \A t \in Tab : known'[t] = t => DatabaseOpen(t)
               /\ \A t \in Tab : queue'[t] = queue[t] \/ DatabaseOpen(t)
               /\ \A q \in Tab : inbox'[q] \in Seq(Heard(q))
  BY <1>5 DEF ExclusionInv, Holds, DatabaseOpen, LeftBehind, Heard
<1>7. CASE ReceiveHello(r, m, box)
  BY <1>4, <1>7, BroadcastHeard DEF ReceiveHello, ExclusionInv
<1>8. CASE ReceiveOwner(r, m, box)
  <2>1. CASE OwnerFound(r, m.from, box)
    <3>1. m.from \in Tab /\ m.from # r
      BY <1>3, <1>8, MessageParts DEF ReceiveOwner, Heard
    <3>2. \A t \in Tab : known'[t] = t => DatabaseOpen(t)
      BY <2>1, <3>1 DEF OwnerFound, ExclusionInv, TypeOK
    <3>3. PICK cancels \in Orders(heldCancels[r]) :
            inbox' = Post(box, m.from, CallMsgs(r, held[r]) \o CancelMsgs(r, cancels))
      BY <2>1 DEF OwnerFound
    <3>4. cancels \in Seq(Req)
      BY <3>3, OrdersType DEF TypeOK
    <3>5. CallMsgs(r, held[r]) \o CancelMsgs(r, cancels) \in Seq(Direct)
      <4>1. CallMsgs(r, held[r]) \in Seq(Direct) /\ CancelMsgs(r, cancels) \in Seq(Direct)
        BY <3>4, DirectMsgs DEF TypeOK
      <4>. QED
        BY <4>1, ConcatProperties
    <3>6. \A q \in Tab : inbox'[q] \in Seq(Heard(q))
      BY <1>4, <3>3, <3>5, PostHeard DEF Direct
    <3>. QED
      BY <1>8, <3>2, <3>6 DEF ReceiveOwner
  <2>2. CASE inbox' = box /\ UNCHANGED known
    BY <1>4, <1>8, <2>2 DEF ReceiveOwner, ExclusionInv
  <2>. QED
    BY <1>8, <2>1, <2>2 DEF ReceiveOwner
<1>9. CASE ReceiveReleased(r, m, box)
  BY <1>4, <1>9, NoneAssumption DEF ReceiveReleased, OwnerLost, ExclusionInv, TypeOK
<1>10. CASE ReceiveCall(r, m, box)
  <2>1. CASE known[r] = r
    <3>1. DatabaseOpen(r)
      BY <2>1 DEF ExclusionInv
    <3>2. m.id \in Id
      BY <1>3, <1>10, MessageParts DEF ReceiveCall
    <3>3. ReplyMsgs(r, Replies(r, m.id)) \in Seq(Direct)
      BY <3>2, IngressType, DirectMsgs
    <3>4. inbox' = Post(box, m.from, ReplyMsgs(r, Replies(r, m.id)))
      BY <1>10, <2>1 DEF ReceiveCall
    <3>5. \A q \in Tab : inbox'[q] \in Seq(Heard(q))
      BY <1>4, <3>3, <3>4, PostHeard DEF Direct
    <3>. QED
      BY <1>10, <3>1, <3>5 DEF ReceiveCall, ExclusionInv, TypeOK
  <2>2. CASE known[r] # r
    BY <1>4, <1>10, <2>2 DEF ReceiveCall, ExclusionInv
  <2>. QED
    BY <2>1, <2>2
<1>11. CASE ReceiveReply(r, m, box)
  BY <1>4, <1>11 DEF ReceiveReply, ExclusionInv
<1>. QED
  BY <1>1, <1>7, <1>8, <1>9, <1>10, <1>11 DEF m, box

(* The owner's drain works under the lock.                                 *)
LEMMA DrainExclusion ==
  ASSUME TypeOK, ExclusionInv, NEW w \in Tab, Drain(w)
  PROVE  ExclusionInv'
<1>. USE DEF clientVars, waitingVars, durable, Holds, DatabaseOpen, LeftBehind, ExclusionInv
<1>1. CASE Begin(w)
  BY <1>1 DEF Begin, TypeOK, Heard
<1>2. CASE Execute(w) \/ Refuse(w) \/ GateCloseFails(w)
  BY <1>2 DEF Execute, Refuse, GateCloseFails, Heard
<1>3. CASE Finish(w)
  <2>. DEFINE id == Request(active[w])
  <2>1. id \in Id /\ result[w] \in Answer
    BY <1>3, IdParts, AnswerValues DEF Finish, TypeOK
  <2>2. <<Msg("reply", w, id, result[w])>> \in Seq(Direct)
    BY <2>1, DirectMsgs
  <2>3. \A q \in Tab : Post(inbox, caller[active[w]], <<Msg("reply", w, id, result[w])>>)[q]
                         \in Seq(Heard(q))
    BY <2>2, PostHeard DEF Direct, TypeOK
  <2>4. \A q \in Tab : inbox'[q] \in Seq(Heard(q))
    BY <1>3, <2>3 DEF Finish
  <2>. QED
    BY <1>3, <2>4 DEF Finish, TypeOK, Heard
<1>4. CASE Maintain(w) \/ Maintained(w)
  BY <1>4 DEF Maintain, Maintained, TypeOK, Heard
<1>. QED
  BY <1>1, <1>2, <1>3, <1>4 DEF Drain

(* A worker leaves the archive with its work done, gives up what is left,  *)
(* or loses it with the lock.                                              *)
LEMMA LeaveExclusion ==
  ASSUME TypeOK, ExclusionInv, NEW t \in Tab, Close(t) \/ Release(t) \/ Crash(t)
  PROVE  ExclusionInv'
<1>. USE DEF waitingVars, ownerVars, durable
<1>1. ASSUME NEW ans, NEW box, Gone(t, ans, box), box \in [Tab -> Seq(Message)],
             \A r \in Tab : box[r] \in Seq(Heard(r)),
             (queue'[t] = <<>> /\ active'[t] = 0) \/ turn'[t] = "abandoned",
             \A u \in Tab \ {t} : queue'[u] = queue[u] /\ active'[u] = active[u] /\ turn'[u] = turn[u]
      PROVE  ExclusionInv'
  <2>1. \A r \in Tab : inbox'[r] \in Seq(Heard(r))
    BY <1>1 DEF Gone
  <2>2. \A u \in Tab : phase'[u] = IF u = t THEN "closed" ELSE phase[u]
    BY <1>1 DEF Gone, TypeOK
  <2>3. \A u \in Tab : queue'[u] # <<>> \/ active'[u] # 0 => DatabaseOpen(u)' \/ LeftBehind(u)'
    BY <1>1, <2>2 DEF ExclusionInv, DatabaseOpen, LeftBehind
  <2>4. /\ \A u \in Tab : Holds(u)' => lock' = u
        /\ \A u \in Tab : known'[u] = u => DatabaseOpen(u)'
    BY <1>1, <2>2, NoneAssumption DEF Gone, ExclusionInv, Holds, DatabaseOpen, TypeOK
  <2>. QED
    BY <2>1, <2>3, <2>4 DEF ExclusionInv, Heard
<1>2. CASE Close(t)
  <2>1. CASE Holds(t)
    <3>1. \A r \in Tab : inbox'[r] \in Seq(Heard(r))
      <4>1. \A r \in Tab : <<>> \in Seq(Heard(r))
        OBVIOUS
      <4>2. inbox' = [inbox EXCEPT ![t] = <<>>]
        BY <1>2, <2>1 DEF Close
      <4>. QED
        BY <4>1, <4>2 DEF ExclusionInv, TypeOK
    <3>. QED
      BY <1>2, <2>1, <3>1 DEF Close, ExclusionInv, Holds, DatabaseOpen, LeftBehind, Heard
  <2>2. CASE ~Holds(t)
    <3>1. queue[t] = <<>> /\ active[t] = 0
      BY <1>2, <2>2 DEF Close, Live, ExclusionInv, Holds, DatabaseOpen, LeftBehind
    <3>. QED
      BY <1>1, <1>2, <2>2, <3>1 DEF Close, ExclusionInv, TypeOK
  <2>. QED
    BY <2>1, <2>2
<1>3. CASE Release(t)
  <2>1. \A r \in Tab : Broadcast(inbox, t, "released")[r] \in Seq(Heard(r))
    BY BroadcastHeard DEF ExclusionInv
  <2>2. Broadcast(inbox, t, "released") \in [Tab -> Seq(Message)]
    BY BroadcastType DEF TypeOK
  <2>. QED
    BY <1>1, <1>3, <2>1, <2>2 DEF Release, Drained
<1>4. CASE Crash(t)
  BY <1>1, <1>4 DEF Crash, ExclusionInv, TypeOK
<1>. QED
  BY <1>2, <1>3, <1>4

(* The exclusion invariant holds initially,                                *)
LEMMA ExclusionInit == Init => ExclusionInv
<1>1. \A r \in Tab : <<>> \in Seq(Heard(r))
  OBVIOUS
<1>. QED
  BY <1>1, NoneAssumption DEF Init, ExclusionInv, Holds, DatabaseOpen, LeftBehind

(* and every step keeps it.                                                *)
LEMMA ExclusionStep == TypeOK /\ ExclusionInv /\ [Next]_vars => ExclusionInv'
<1>. SUFFICES ASSUME TypeOK, ExclusionInv, [Next]_vars
              PROVE  ExclusionInv'
  OBVIOUS
<1>1. CASE UNCHANGED vars
  BY <1>1 DEF vars, ownerVars, ExclusionInv, Holds, DatabaseOpen, LeftBehind, Heard
<1>2. ASSUME NEW t \in Tab,
             \/ Client(t) \/ Election(t) \/ Receive(t) \/ Drain(t)
             \/ Close(t) \/ Release(t) \/ Crash(t)
      PROVE  ExclusionInv'
  BY <1>2, ClientExclusion, ElectionExclusion, ReceiveExclusion, DrainExclusion, LeaveExclusion
<1>. QED
  BY <1>1, <1>2 DEF Next

(* However tabs start, close and die, the database is open only in the     *)
(* worker that holds the owner lock, and requests are queued or running    *)
(* only there or among those that a closed owner gave up.                  *)
THEOREM Exclusion == Spec => []WorkUnderLock
<1>1. ExclusionInv => WorkUnderLock
  BY DEF ExclusionInv, WorkUnderLock, Drained, Holds, DatabaseOpen, LeftBehind
<1>. QED
  BY <1>1, Typing, ExclusionInit, ExclusionStep, PTL DEF Spec

(* What is durable changes only by the running request of the worker that  *)
(* holds the owner lock: what a closed owner gave up has no effect, nor    *)
(* has anything beside the owner.                                          *)
EffectsUnderLock ==
  durable' # durable =>
    \E w \in Tab : /\ lock = w /\ DatabaseOpen(w) /\ Running(w)
                   /\ committed' = committed \cup {TxnOf[active[w]]}
                   /\ effects' \in {effects, Append(effects, active[w])}

LEMMA EffectsStep == WorkUnderLock /\ [Next]_vars => EffectsUnderLock
<1>. SUFFICES ASSUME WorkUnderLock, [Next]_vars, durable' # durable
              PROVE  \E w \in Tab : Execute(w)
  BY DEF EffectsUnderLock, WorkUnderLock, Execute, Proceeds
<1>1. ~UNCHANGED vars
  BY DEF vars
<1>2. ASSUME NEW t \in Tab, \/ Client(t) \/ Election(t) \/ Receive(t)
                            \/ Close(t) \/ Release(t) \/ Crash(t)
      PROVE  FALSE
  BY <1>2 DEF Client, Issue, Cancel, Timeout, Election, Start, Grant, OpenOk, OpenFails,
              Receive, Close, Release, Crash
<1>3. ASSUME NEW t \in Tab, Drain(t)
      PROVE  Execute(t)
  BY <1>3 DEF Drain, Begin, Refuse, GateCloseFails, Finish, Maintain, Maintained
<1>. QED
  BY <1>1, <1>2, <1>3 DEF Next

THEOREM EffectsByOwner == Spec => [][EffectsUnderLock]_vars
BY Exclusion, EffectsStep, PTL DEF Spec

-----------------------------------------------------------------------------
(* Refusals are final: a request whose caller was told that it was         *)
(* cancelled, closed, refused or never sent has not taken effect and never *)
(* does.                                                                   *)

(* A request is in one place at a time: held by its caller's worker, on    *)
(* its way to an owner, queued, or being executed.                         *)
Place == {"held", "bus", "queue", "active"}
IsRequestCall(m, c) == m.type = "call" /\ m.id = Request(c)
InBox(box) == {c \in Req : \E i \in DOMAIN box : IsRequestCall(box[i], c)}
At(k, t) ==
  CASE k = "held"   -> ToSet(held[t])
    [] k = "bus"    -> InBox(inbox[t])
    [] k = "queue"  -> ToSet(queue[t])
    [] k = "active" -> {active[t]} \ {0}

OnePlace ==
  \A c \in Req, k, l \in Place, t, u \in Tab :
    c \in At(k, t) /\ c \in At(l, u) => k = l /\ t = u

Single(s) == \A i, j \in DOMAIN s : s[i] = s[j] => i = j
SingleCalls(box) ==
  \A c \in Req : \A i, j \in DOMAIN box :
    IsRequestCall(box[i], c) /\ IsRequestCall(box[j], c) => i = j
OneTime == \A t \in Tab : Single(held[t]) /\ Single(queue[t]) /\ SingleCalls(inbox[t])

(* Callers were told, or a reply on its way tells them, that a request     *)
(* never takes effect.                                                     *)
Refusal(id, value) ==
  value \in (IF IsCancel(id) THEN {"not_dispatched", "cancelled_before_commit"}
                             ELSE {"CANCELLED", "CLOSED", "OVERLOADED"})
Told(c) == \E id \in Id : id.req = c /\ Refusal(id, answer[id])
IsRefusal(m, c) == m.type = "reply" /\ m.id.req = c /\ Refusal(m.id, m.value)
Refusing(box) == {c \in Req : \E i \in DOMAIN box : IsRefusal(box[i], c)}
Rejected(c) == Told(c) \/ \E t \in Tab : c \in Refusing(inbox[t])

Waits(c) == \E k \in Place \ {"active"}, t \in Tab : c \in At(k, t)

(* A request that was refused waits nowhere; if it is being executed, that *)
(* is over or its abort signal stops it before it commits.                 *)
RefusedInv ==
  \A c \in Req : Rejected(c) =>
    /\ c \notin Done /\ ~Waits(c)
    /\ \A t \in Tab : active[t] = c =>
         result[t] # "running" \/ (aborted[t] = TRUE /\ c \in CommitReq)

(* A request that took effect waits nowhere, and has its receipt.          *)
DoneInv ==
  \A c \in Req : c \in Done =>
    /\ HasReceipt(c) /\ ~Waits(c)
    /\ \A t \in Tab : active[t] = c => result[t] \in {"OK", "FAILED"}

(* Nothing is known of a request before it is issued.                      *)
Issued == {c \in Req : caller[c] # None}
Named(box) == {box[i].id.req : i \in DOMAIN box}
FreshInv ==
  /\ Done \subseteq Issued
  /\ \A k \in Place, t \in Tab : At(k, t) \subseteq Issued
  /\ \A t \in Tab : heldCancels[t] \subseteq Issued /\ Named(inbox[t]) \subseteq Issued \cup {0}
  /\ \A id \in Id : answer[id] # "idle" => id.req \in Issued

RefusalInv == OnePlace /\ OneTime /\ RefusedInv /\ DoneInv /\ FreshInv

-----------------------------------------------------------------------------
(* What removing an element leaves of a sequence.                          *)
LEMMA RemoveAtElems ==
  ASSUME NEW S, NEW s \in Seq(S), NEW i \in DOMAIN s
  PROVE  /\ Len(RemoveAt(s, i)) = Len(s) - 1
         /\ \A k \in 1 .. Len(s) - 1 : RemoveAt(s, i)[k] = s[IF k < i THEN k ELSE k + 1]
         /\ DOMAIN RemoveAt(s, i) = 1 .. Len(s) - 1
<1>1. i \in 1 .. Len(s) /\ Len(s) \in Nat
  OBVIOUS
<1>. DEFINE a == SubSeq(s, 1, i - 1)
            b == SubSeq(s, i + 1, Len(s))
<1>2. a \in Seq(S) /\ Len(a) = i - 1 /\ \A k \in 1 .. i - 1 : a[k] = s[k]
  BY <1>1, SubSeqProperties
<1>3. b \in Seq(S) /\ Len(b) = Len(s) - i /\ \A k \in 1 .. Len(s) - i : b[k] = s[i + k]
  BY <1>1, SubSeqProperties
<1>. HIDE DEF a, b
<1>4. RemoveAt(s, i) = a \o b
  BY DEF RemoveAt, a, b
<1>5. Len(a \o b) = Len(s) - 1
  BY <1>1, <1>2, <1>3, ConcatProperties
<1>6. ASSUME NEW k \in 1 .. Len(s) - 1
      PROVE  (a \o b)[k] = s[IF k < i THEN k ELSE k + 1]
  <2>1. CASE k < i
    BY <1>1, <1>2, <1>3, <1>6, <2>1, ConcatProperties
  <2>2. CASE ~(k < i)
    <3>1. k - (i - 1) \in 1 .. Len(s) - i /\ i + (k - (i - 1)) = k + 1
      BY <1>1, <1>6, <2>2
    <3>2. (a \o b)[k] = b[k - (i - 1)]
      <4>1. k \in 1 .. Len(a) + Len(b) /\ ~(k <= Len(a)) /\ Len(a) = i - 1
        BY <1>1, <1>2, <1>3, <1>6, <2>2
      <4>2. (a \o b)[k] = b[k - Len(a)]
        BY <1>2, <1>3, <4>1, ConcatProperties
      <4>. QED
        BY <4>1, <4>2
    <3>. QED
      BY <1>3, <2>2, <3>1, <3>2
  <2>. QED
    BY <2>1, <2>2
<1>7. a \o b \in Seq(S)
  BY <1>2, <1>3, ConcatProperties
<1>. QED
  BY <1>1, <1>4, <1>5, <1>6, <1>7

(* Each element left was there, another one than the one removed.          *)
LEMMA RemoveAtSingle ==
  ASSUME NEW S, NEW s \in Seq(S), NEW i \in DOMAIN s, Single(s)
  PROVE  Single(RemoveAt(s, i)) /\ ToSet(RemoveAt(s, i)) = ToSet(s) \ {s[i]}
<1>. DEFINE r == RemoveAt(s, i)
            f(k) == IF k < i THEN k ELSE k + 1
<1>1. i \in 1 .. Len(s) /\ Len(s) \in Nat /\ DOMAIN s = 1 .. Len(s)
  OBVIOUS
<1>2. DOMAIN r = 1 .. Len(s) - 1 /\ \A k \in DOMAIN r : r[k] = s[f(k)]
  BY RemoveAtElems
<1>. HIDE DEF r
<1>3. \A k \in DOMAIN r : f(k) \in DOMAIN s \ {i} /\ k \in Int
  BY <1>1, <1>2
<1>4. \A k, l \in DOMAIN r : f(k) = f(l) => k = l
  BY <1>1, <1>2, <1>3
<1>5. Single(r)
  BY <1>2, <1>3, <1>4 DEF Single
<1>6. \A k \in DOMAIN s : k # i => \E l \in DOMAIN r : f(l) = k
  <2>1. ASSUME NEW k \in DOMAIN s, k # i PROVE \E l \in DOMAIN r : f(l) = k
    <3>1. CASE k < i
      BY <1>1, <1>2, <3>1
    <3>2. CASE k > i
      <4>1. k - 1 \in DOMAIN r /\ f(k - 1) = k
        BY <1>1, <1>2, <3>2
      <4>. QED
        BY <4>1
    <3>. QED
      BY <1>1, <2>1, <3>1, <3>2
  <2>. QED
    BY <2>1
<1>7. ToSet(r) = ToSet(s) \ {s[i]}
  <2>1. ASSUME NEW x \in ToSet(r) PROVE x \in ToSet(s) \ {s[i]}
    <3>1. PICK k \in DOMAIN r : x = r[k]
      BY <2>1 DEF ToSet
    <3>. QED
      BY <1>2, <1>3, <3>1 DEF ToSet, Single
  <2>2. ASSUME NEW x \in ToSet(s), x # s[i] PROVE x \in ToSet(r)
    <3>1. PICK k \in DOMAIN s : x = s[k]
      BY <2>2 DEF ToSet
    <3>2. PICK l \in DOMAIN r : f(l) = k
      BY <1>6, <2>2, <3>1
    <3>. QED
      BY <1>2, <3>1, <3>2 DEF ToSet
  <2>. QED
    BY <2>1, <2>2
<1>. QED
  BY <1>5, <1>7 DEF r

(* Appending adds the one element.                                         *)
LEMMA AppendElems ==
  ASSUME NEW S, NEW s \in Seq(S), NEW x \in S
  PROVE  ToSet(Append(s, x)) = ToSet(s) \cup {x}
<1>. DEFINE r == Append(s, x)
<1>1. Len(s) \in Nat /\ DOMAIN s = 1 .. Len(s)
  OBVIOUS
<1>2. /\ DOMAIN r = 1 .. Len(s) + 1 /\ r[Len(s) + 1] = x
      /\ \A k \in DOMAIN s : r[k] = s[k]
  OBVIOUS
<1>. HIDE DEF r
<1>3. \A k \in DOMAIN r : k \in DOMAIN s \/ k = Len(s) + 1
  BY <1>1, <1>2
<1>4. \A k \in DOMAIN s : k \in DOMAIN r
  BY <1>1, <1>2
<1>5. Len(s) + 1 \in DOMAIN r
  BY <1>1, <1>2
<1>6. ToSet(r) = ToSet(s) \cup {x}
  BY <1>2, <1>3, <1>4, <1>5 DEF ToSet
<1>. QED
  BY <1>6 DEF r

(* A sequence stays without repetition when something new is appended.     *)
LEMMA SingleAppend ==
  ASSUME NEW S, NEW s \in Seq(S), NEW x \in S, Single(s), x \notin ToSet(s)
  PROVE  Single(Append(s, x)) /\ ToSet(Append(s, x)) = ToSet(s) \cup {x}
<1>. DEFINE r == Append(s, x)
<1>1. Len(s) \in Nat /\ DOMAIN s = 1 .. Len(s)
  OBVIOUS
<1>2. /\ DOMAIN r = 1 .. Len(s) + 1 /\ r[Len(s) + 1] = x
      /\ \A k \in DOMAIN s : r[k] = s[k]
  OBVIOUS
<1>. HIDE DEF r
<1>3. \A k \in DOMAIN r : k \in DOMAIN s \/ k = Len(s) + 1
  BY <1>1, <1>2
<1>4. \A k \in DOMAIN s : k \in DOMAIN r /\ k # Len(s) + 1
  BY <1>1, <1>2
<1>5. Single(r)
  BY <1>2, <1>3 DEF Single, ToSet
<1>6. ToSet(r) = ToSet(s) \cup {x}
  BY <1>1, <1>2, <1>3, <1>4 DEF ToSet
<1>. QED
  BY <1>5, <1>6 DEF r

(* The same of the messages in a box.                                      *)
LEMMA RemoveAtBox ==
  ASSUME NEW box \in Seq(Message), NEW i \in DOMAIN box, SingleCalls(box)
  PROVE  /\ SingleCalls(RemoveAt(box, i))
         /\ InBox(RemoveAt(box, i)) \subseteq InBox(box)
         /\ \A c \in Req : IsRequestCall(box[i], c) => c \notin InBox(RemoveAt(box, i))
         /\ Refusing(RemoveAt(box, i)) \subseteq Refusing(box)
         /\ Named(RemoveAt(box, i)) \subseteq Named(box)
<1>. DEFINE r == RemoveAt(box, i)
            f(k) == IF k < i THEN k ELSE k + 1
<1>1. i \in 1 .. Len(box) /\ Len(box) \in Nat /\ DOMAIN box = 1 .. Len(box)
  OBVIOUS
<1>2. DOMAIN r = 1 .. Len(box) - 1 /\ \A k \in DOMAIN r : r[k] = box[f(k)]
  BY RemoveAtElems
<1>. HIDE DEF r
<1>3. \A k \in DOMAIN r : f(k) \in DOMAIN box \ {i} /\ k \in Int
  BY <1>1, <1>2
<1>4. \A k, l \in DOMAIN r : f(k) = f(l) => k = l
  BY <1>1, <1>2, <1>3
<1>. HIDE DEF f
<1>5. SingleCalls(r)
  BY <1>2, <1>3, <1>4 DEF SingleCalls
<1>6. InBox(r) \subseteq InBox(box) /\ Refusing(r) \subseteq Refusing(box)
  BY <1>2, <1>3 DEF InBox, Refusing
<1>7. \A c \in Req : IsRequestCall(box[i], c) => c \notin InBox(r)
  BY <1>2, <1>3 DEF InBox, SingleCalls
<1>8. Named(r) \subseteq Named(box)
  BY <1>2, <1>3 DEF Named
<1>. QED
  BY <1>5, <1>6, <1>7, <1>8 DEF r

(* What posting messages adds to a box.                                    *)
LEMMA ConcatBox ==
  ASSUME NEW box \in Seq(Message), NEW msgs \in Seq(Message)
  PROVE  /\ InBox(box \o msgs) = InBox(box) \cup InBox(msgs)
         /\ Refusing(box \o msgs) = Refusing(box) \cup Refusing(msgs)
         /\ Named(box \o msgs) = Named(box) \cup Named(msgs)
         /\ SingleCalls(box) /\ SingleCalls(msgs) /\ InBox(box) \cap InBox(msgs) = {}
              => SingleCalls(box \o msgs)
<1>. DEFINE r == box \o msgs
<1>1. /\ Len(box) \in Nat /\ DOMAIN box = 1 .. Len(box)
      /\ Len(msgs) \in Nat /\ DOMAIN msgs = 1 .. Len(msgs)
  OBVIOUS
<1>2. /\ DOMAIN r = 1 .. Len(box) + Len(msgs)
      /\ \A k \in DOMAIN r : r[k] = IF k <= Len(box) THEN box[k] ELSE msgs[k - Len(box)]
  BY ConcatProperties
<1>. HIDE DEF r
<1>3. \A k \in DOMAIN r : \/ k \in DOMAIN box /\ r[k] = box[k]
                          \/ k - Len(box) \in DOMAIN msgs /\ r[k] = msgs[k - Len(box)]
  BY <1>1, <1>2
<1>4. \A k \in DOMAIN box : k \in DOMAIN r /\ r[k] = box[k]
  BY <1>1, <1>2
<1>5. \A k \in DOMAIN msgs : k + Len(box) \in DOMAIN r /\ r[k + Len(box)] = msgs[k]
  BY <1>1, <1>2
<1>6. InBox(r) = InBox(box) \cup InBox(msgs)
  BY <1>3, <1>4, <1>5 DEF InBox
<1>7. Refusing(r) = Refusing(box) \cup Refusing(msgs)
  BY <1>3, <1>4, <1>5 DEF Refusing
<1>8. Named(r) = Named(box) \cup Named(msgs)
  BY <1>3, <1>4, <1>5 DEF Named
<1>9. ASSUME SingleCalls(box), SingleCalls(msgs), InBox(box) \cap InBox(msgs) = {},
             NEW c \in Req, NEW i \in DOMAIN r, NEW j \in DOMAIN r,
             IsRequestCall(r[i], c), IsRequestCall(r[j], c)
      PROVE  i = j
  <2>1. CASE i \in DOMAIN box /\ j \in DOMAIN box
    BY <1>4, <1>9, <2>1 DEF SingleCalls
  <2>2. CASE i \notin DOMAIN box /\ j \notin DOMAIN box
    <3>1. i - Len(box) = j - Len(box)
      BY <1>3, <1>9, <2>2 DEF SingleCalls
    <3>. QED
      BY <1>1, <1>2, <3>1
  <2>3. ASSUME NEW k \in DOMAIN r, NEW l \in DOMAIN r, k \in DOMAIN box, l \notin DOMAIN box,
               IsRequestCall(r[k], c), IsRequestCall(r[l], c)
        PROVE  FALSE
    BY <1>3, <1>4, <1>9, <2>3 DEF InBox
  <2>. QED
    BY <1>9, <2>1, <2>2, <2>3
<1>. QED
  BY <1>6, <1>7, <1>8, <1>9 DEF SingleCalls, r

(* Notices of the election name no request; calls refuse none.             *)
LEMMA BroadcastBox ==
  ASSUME NEW box \in [Tab -> Seq(Message)], NEW from \in Tab,
         NEW type \in {"hello", "owner", "released"}, NEW r \in Tab
  PROVE  /\ InBox(Broadcast(box, from, type)[r]) = InBox(box[r])
         /\ Refusing(Broadcast(box, from, type)[r]) = Refusing(box[r])
         /\ Named(Broadcast(box, from, type)[r]) \subseteq Named(box[r]) \cup {0}
         /\ SingleCalls(box[r]) => SingleCalls(Broadcast(box, from, type)[r])
<1>. DEFINE m == Msg(type, from, NoId, "idle")
<1>1. m \in Message /\ m.type = type /\ m.id.req = 0
  BY DEF Msg, NoId, Message
<1>. HIDE DEF m
<1>2. <<m>> \in Seq(Message) /\ DOMAIN <<m>> = {1} /\ <<m>>[1] = m
  BY <1>1
<1>3. InBox(<<m>>) = {} /\ Refusing(<<m>>) = {} /\ Named(<<m>>) = {0} /\ SingleCalls(<<m>>)
  BY <1>1, <1>2 DEF InBox, Refusing, Named, SingleCalls, IsRequestCall, IsRefusal
<1>4. box[r] \in Seq(Message) /\ Append(box[r], m) = box[r] \o <<m>>
  BY <1>1, AppendIsConcat
<1>5. Broadcast(box, from, type)[r] \in {box[r], box[r] \o <<m>>}
  BY <1>4 DEF Broadcast, m
<1>6. /\ InBox(box[r] \o <<m>>) = InBox(box[r])
      /\ Refusing(box[r] \o <<m>>) = Refusing(box[r])
      /\ Named(box[r] \o <<m>>) = Named(box[r]) \cup {0}
      /\ SingleCalls(box[r]) => SingleCalls(box[r] \o <<m>>)
  <2>1. /\ InBox(box[r] \o <<m>>) = InBox(box[r]) \cup InBox(<<m>>)
        /\ Refusing(box[r] \o <<m>>) = Refusing(box[r]) \cup Refusing(<<m>>)
        /\ Named(box[r] \o <<m>>) = Named(box[r]) \cup Named(<<m>>)
    BY <1>2, <1>4, ConcatBox
  <2>2. SingleCalls(box[r]) => SingleCalls(box[r] \o <<m>>)
    BY <1>2, <1>3, <1>4, ConcatBox
  <2>. QED
    BY <1>3, <2>1, <2>2
<1>. QED
  BY <1>5, <1>6

(* A post adds its messages to one box, if anybody listens there.          *)
LEMMA PostBox ==
  ASSUME NEW box \in [Tab -> Seq(Message)], NEW to, NEW msgs \in Seq(Message), NEW r \in Tab
  PROVE  /\ InBox(Post(box, to, msgs)[r]) \subseteq
              InBox(box[r]) \cup (IF r = to THEN InBox(msgs) ELSE {})
         /\ Refusing(Post(box, to, msgs)[r]) \subseteq Refusing(box[r]) \cup Refusing(msgs)
         /\ Named(Post(box, to, msgs)[r]) \subseteq Named(box[r]) \cup Named(msgs)
         /\ SingleCalls(box[r]) /\ SingleCalls(msgs) /\ InBox(box[r]) \cap InBox(msgs) = {}
              => SingleCalls(Post(box, to, msgs)[r])
<1>1. box[r] \in Seq(Message)
  OBVIOUS
<1>2. \/ Post(box, to, msgs)[r] = box[r]
      \/ r = to /\ Post(box, to, msgs)[r] = box[r] \o msgs
  BY DEF Post
<1>. QED
  BY ZenonT(60), <1>1, <1>2, ConcatBox

(* Only an answer that says so is a refusal.                               *)
LEMMA Harmless ==
  \A id : \A v \in {"idle", "pending", "OK", "UNKNOWN_OUTCOME", "FAILED", "committed",
                    "unknown_outcome"} : ~Refusal(id, v)
BY DEF Refusal

(* An identity is that of a request or of the cancellation of one.         *)
LEMMA KindsOfId ==
  /\ \A id \in Id : IF IsCancel(id) THEN id = CancelOf(id.req) ELSE id = Request(id.req)
  /\ \A c : Request(c).req = c /\ CancelOf(c).req = c
  /\ \A c : ~IsCancel(Request(c)) /\ IsCancel(CancelOf(c))
  /\ \A c, d : Request(c) # CancelOf(d) /\ (Request(c) = Request(d) => c = d)
BY DEF Id, Request, CancelOf, IsCancel

(* A call carries its request, and refuses nothing.                        *)
LEMMA CallBox ==
  ASSUME NEW from \in Tab, NEW id \in Id
  PROVE  /\ <<CallMsg(from, id)>> \in Seq(Message)
         /\ InBox(<<CallMsg(from, id)>>) = IF IsCancel(id) THEN {} ELSE {id.req}
         /\ Refusing(<<CallMsg(from, id)>>) = {} /\ Named(<<CallMsg(from, id)>>) = {id.req}
         /\ SingleCalls(<<CallMsg(from, id)>>)
<1>. DEFINE m == CallMsg(from, id)
<1>1. m \in Message /\ m.type = "call" /\ m.id = id
  BY CallMsgType DEF CallMsg, Msg
<1>. HIDE DEF m
<1>2. <<m>> \in Seq(Message) /\ DOMAIN <<m>> = {1} /\ <<m>>[1] = m
  BY <1>1
<1>3. \A c \in Req : IsRequestCall(m, c) <=> ~IsCancel(id) /\ c = id.req
  BY <1>1, KindsOfId DEF IsRequestCall
<1>4. id.req \in Req
  BY IdParts
<1>5. InBox(<<m>>) = IF IsCancel(id) THEN {} ELSE {id.req}
  BY <1>2, <1>3, <1>4 DEF InBox
<1>6. Refusing(<<m>>) = {} /\ Named(<<m>>) = {id.req} /\ SingleCalls(<<m>>)
  BY <1>1, <1>2 DEF Refusing, Named, SingleCalls, IsRefusal
<1>. QED
  BY <1>2, <1>5, <1>6 DEF m

(* What a worker sends to an owner it has found: what it held.             *)
LEMMA HeldBox ==
  ASSUME NEW from \in Tab, NEW reqs \in Seq(Req), Single(reqs), NEW cancels \in Seq(Req)
  PROVE  LET msgs == CallMsgs(from, reqs) \o CancelMsgs(from, cancels)
         IN /\ msgs \in Seq(Message) /\ InBox(msgs) = ToSet(reqs) /\ Refusing(msgs) = {}
            /\ Named(msgs) = ToSet(reqs) \cup ToSet(cancels) /\ SingleCalls(msgs)
<1>. DEFINE a == CallMsgs(from, reqs)
            b == CancelMsgs(from, cancels)
<1>1. a \in Seq(Message) /\ b \in Seq(Message)
  BY CallMsgsType
<1>2. \A i \in DOMAIN reqs : reqs[i] \in Req
  OBVIOUS
<1>4. DOMAIN a = DOMAIN reqs
      /\ \A i \in DOMAIN a : a[i].type = "call" /\ a[i].id = Request(reqs[i])
  BY DEF CallMsgs, CallMsg, Msg
<1>5. DOMAIN b = DOMAIN cancels
      /\ \A i \in DOMAIN b : b[i].type = "call" /\ b[i].id = CancelOf(cancels[i])
  BY DEF CancelMsgs, CallMsg, Msg
<1>. HIDE DEF a, b
<1>6. InBox(a) = ToSet(reqs) /\ InBox(b) = {}
  BY <1>2, <1>4, <1>5, KindsOfId DEF InBox, IsRequestCall, ToSet
<1>7. Refusing(a) = {} /\ Refusing(b) = {}
  BY <1>4, <1>5 DEF Refusing, IsRefusal
<1>8. Named(a) = ToSet(reqs) /\ Named(b) = ToSet(cancels)
  BY <1>4, <1>5, KindsOfId DEF Named, ToSet
<1>9. SingleCalls(a) /\ SingleCalls(b)
  BY <1>4, <1>5, KindsOfId DEF SingleCalls, Single, IsRequestCall
<1>10. a \o b \in Seq(Message)
  BY <1>1, ConcatProperties
<1>11. /\ InBox(a \o b) = ToSet(reqs) /\ Refusing(a \o b) = {}
       /\ Named(a \o b) = ToSet(reqs) \cup ToSet(cancels) /\ SingleCalls(a \o b)
  <2>1. /\ InBox(a \o b) = InBox(a) \cup InBox(b)
        /\ Refusing(a \o b) = Refusing(a) \cup Refusing(b)
        /\ Named(a \o b) = Named(a) \cup Named(b)
    BY <1>1, ConcatBox
  <2>2. SingleCalls(a \o b)
    BY <1>1, <1>6, <1>9, ConcatBox
  <2>. QED
    BY <1>6, <1>7, <1>8, <2>1, <2>2
<1>. QED
  BY <1>10, <1>11 DEF a, b

(* Replies carry no request; they refuse what their answers refuse.        *)
LEMMA ReplyBox ==
  ASSUME NEW from \in Tab, NEW replies \in Seq(Reply)
  PROVE  LET msgs == ReplyMsgs(from, replies)
         IN /\ msgs \in Seq(Message) /\ InBox(msgs) = {} /\ SingleCalls(msgs)
            /\ Refusing(msgs) \subseteq
                 {r.id.req : r \in {q \in ToSet(replies) : Refusal(q.id, q.value)}}
            /\ Named(msgs) \subseteq {r.id.req : r \in ToSet(replies)}
<1>. DEFINE a == ReplyMsgs(from, replies)
<1>1. a \in Seq(Message)
  BY ReplyMsgsType
<1>2. DOMAIN a = DOMAIN replies
      /\ \A i \in DOMAIN a : /\ a[i].type = "reply" /\ a[i].id = replies[i].id
                             /\ a[i].value = replies[i].value
  BY DEF ReplyMsgs, Msg
<1>. HIDE DEF a
<1>3. InBox(a) = {} /\ SingleCalls(a)
  BY <1>2 DEF InBox, SingleCalls, IsRequestCall
<1>4. \A i \in DOMAIN a : replies[i] \in ToSet(replies)
  BY <1>2 DEF ToSet
<1>5. Refusing(a) \subseteq {r.id.req : r \in {q \in ToSet(replies) : Refusal(q.id, q.value)}}
  BY <1>2, <1>4 DEF Refusing, IsRefusal
<1>6. Named(a) \subseteq {r.id.req : r \in ToSet(replies)}
  BY <1>2, <1>4 DEF Named
<1>. QED
  BY <1>1, <1>3, <1>5, <1>6 DEF a

-----------------------------------------------------------------------------
(* What a step does to the places of the requests: the requests of G go to *)
(* one place, the others stay or leave.                                    *)
Places(G, k0, t0) ==
  /\ \A k \in Place, t \in Tab : \A c \in At(k, t)' : c \in At(k, t) \/ c \in G
  /\ \A k \in Place, t \in Tab : \A c \in At(k, t)' : c \in G => k = k0 /\ t = t0

(* What a step that executes nothing does to the owners' work.             *)
Works(G) ==
  /\ UNCHANGED durable
  /\ \A t \in Tab : active'[t] # 0 /\ active'[t] \notin G =>
       /\ active'[t] = active[t] /\ result'[t] = result[t]
       /\ aborted[t] = TRUE => aborted'[t] = TRUE

(* What is said of the requests: those of N are refused now.               *)
Says(N) == \A c \in Req : Rejected(c)' => Rejected(c) \/ c \in N
Stopped(c) ==
  /\ c \notin Done /\ ~Waits(c)'
  /\ \A t \in Tab : active'[t] = c =>
       result'[t] # "running" \/ (aborted'[t] = TRUE /\ c \in CommitReq)

(* A request that waits has not taken effect and was not refused, so it    *)
(* may move; one that is refused now must be stopped.                      *)
LEMMA PlacesKeep ==
  ASSUME RefusalInv, NEW G \in SUBSET Req, NEW N \in SUBSET Req, NEW k0, NEW t0,
         Places(G, k0, t0), Works(G), Says(N),
         \A c \in G : c \notin Done /\ ~Rejected(c) /\ c \notin N,
         \A c \in N : Stopped(c)
  PROVE  OnePlace' /\ RefusedInv' /\ DoneInv'
<1>1. OnePlace'
  BY DEF OnePlace, Places, RefusalInv
<1>2. Done' = Done /\ committed' = committed
  BY DEF Works, durable, Done
<1>3. ASSUME NEW c \in Req, c \notin G, Waits(c)'
      PROVE  Waits(c)
  BY <1>3 DEF Waits, Places, Place
<1>4. ASSUME NEW c \in Req, Rejected(c)'
      PROVE  /\ c \notin Done' /\ ~Waits(c)'
             /\ \A t \in Tab : active'[t] = c =>
                  result'[t] # "running" \/ (aborted'[t] = TRUE /\ c \in CommitReq)
  <2>1. CASE c \in N
    BY <1>2, <2>1 DEF Stopped
  <2>2. CASE c \notin N
    <3>1. Rejected(c) /\ c \notin G
      BY <1>4, <2>2 DEF Says
    <3>2. c \notin Done' /\ ~Waits(c)'
      BY <1>2, <1>3, <3>1 DEF RefusalInv, RefusedInv
    <3>3. ASSUME NEW t \in Tab, active'[t] = c
          PROVE  result'[t] # "running" \/ (aborted'[t] = TRUE /\ c \in CommitReq)
      <4>1. c # 0
        BY DEF Req
      <4>2. active[t] = c /\ result'[t] = result[t] /\ (aborted[t] = TRUE => aborted'[t] = TRUE)
        BY <3>1, <3>3, <4>1 DEF Works
      <4>. QED
        BY <3>1, <4>2 DEF RefusalInv, RefusedInv
    <3>. QED
      BY <3>2, <3>3
  <2>. QED
    BY <2>1, <2>2
<1>5. RefusedInv'
  BY <1>4 DEF RefusedInv
<1>6. ASSUME NEW c \in Req, c \in Done
      PROVE  /\ HasReceipt(c)' /\ ~Waits(c)'
             /\ \A t \in Tab : active'[t] = c => result'[t] \in {"OK", "FAILED"}
  <2>1. c \notin G
    BY <1>6
  <2>2. HasReceipt(c)' /\ ~Waits(c)'
    BY <1>2, <1>3, <1>6, <2>1 DEF RefusalInv, DoneInv, HasReceipt
  <2>3. ASSUME NEW t \in Tab, active'[t] = c
        PROVE  result'[t] \in {"OK", "FAILED"}
    <3>1. c # 0
      BY DEF Req
    <3>2. active[t] = c /\ result'[t] = result[t]
      BY <2>1, <2>3, <3>1 DEF Works
    <3>. QED
      BY <1>6, <3>2 DEF RefusalInv, DoneInv
  <2>. QED
    BY <2>2, <2>3
<1>7. DoneInv'
  BY <1>2, <1>6 DEF DoneInv
<1>. QED
  BY <1>1, <1>5, <1>7

(* The four kinds of places, one by one.                                   *)
LEMMA AtEach ==
  ASSUME NEW t
  PROVE  /\ At("held", t) = ToSet(held[t]) /\ At("bus", t) = InBox(inbox[t])
         /\ At("queue", t) = ToSet(queue[t]) /\ At("active", t) = {active[t]} \ {0}
BY DEF At

(* The same after a step.                                                  *)
LEMMA AtEachNext ==
  ASSUME NEW t
  PROVE  /\ At("held", t)' = ToSet(held'[t]) /\ At("bus", t)' = InBox(inbox'[t])
         /\ At("queue", t)' = ToSet(queue'[t]) /\ At("active", t)' = {active'[t]} \ {0}
BY DEF At

(* A step where nothing moves to another place.                            *)
Shrinks(t) ==
  /\ ToSet(held'[t]) \subseteq ToSet(held[t]) /\ InBox(inbox'[t]) \subseteq InBox(inbox[t])
  /\ ToSet(queue'[t]) \subseteq ToSet(queue[t])
  /\ active'[t] \in {0, active[t]}

(* Where nothing moves, nothing arrives.                                   *)
LEMMA ShrinksPlaces ==
  ASSUME \A t \in Tab : Shrinks(t)
  PROVE  \A k0, t0 : Places({}, k0, t0)
<1>1. ASSUME NEW k \in Place, NEW t \in Tab
      PROVE  At(k, t)' \subseteq At(k, t)
  <2>1. Shrinks(t)
    OBVIOUS
  <2>2. CASE k = "held" \/ k = "bus"
    BY <2>1, <2>2, AtEach, AtEachNext DEF Shrinks
  <2>3. CASE k = "queue" \/ k = "active"
    BY <2>1, <2>3, AtEach, AtEachNext DEF Shrinks
  <2>. QED
    BY <2>2, <2>3 DEF Place
<1>. QED
  BY <1>1 DEF Places

(* What was not issued is nowhere, and nothing was said of it.             *)
LEMMA Unissued ==
  ASSUME TypeOK, RefusalInv, NEW c \in Req \ Issued
  PROVE  /\ c \notin Done /\ ~Rejected(c)
         /\ \A k \in Place, t \in Tab : c \notin At(k, t)
<1>1. c \notin Done /\ \A k \in Place, t \in Tab : c \notin At(k, t)
  BY DEF RefusalInv, FreshInv
<1>2. ~Told(c)
  BY Harmless DEF RefusalInv, FreshInv, Told
<1>3. ASSUME NEW t \in Tab PROVE c \notin Refusing(inbox[t])
  <2>1. c \notin Named(inbox[t])
    BY DEF RefusalInv, FreshInv, Req
  <2>. QED
    BY <2>1 DEF Refusing, IsRefusal, Named
<1>. QED
  BY <1>1, <1>2, <1>3 DEF Rejected

(* What waits has not taken effect and was not refused.                    *)
LEMMA WaitingIsOpen ==
  ASSUME RefusalInv, NEW c \in Req, NEW k \in Place, k # "active", NEW t \in Tab, c \in At(k, t)
  PROVE  c \notin Done /\ ~Rejected(c)
         /\ \A l \in Place, u \in Tab : c \in At(l, u) => l = k /\ u = t
BY DEF RefusalInv, RefusedInv, DoneInv, OnePlace, Waits

(* What the clients and the bus say after a step.                          *)
LEMMA Saying ==
  ASSUME NEW N \in SUBSET Req,
         \A id \in Id : \/ answer'[id] = answer[id] \/ ~Refusal(id, answer'[id])
                        \/ id.req \in N,
         \A t \in Tab : \A c \in Refusing(inbox'[t]) :
           (\E u \in Tab : c \in Refusing(inbox[u])) \/ c \in N
  PROVE  Says(N)
<1>1. \A c \in Req : Told(c)' => Told(c) \/ c \in N
  BY DEF Told
<1>. QED
  BY <1>1 DEF Says, Rejected

(* Requests stay issued; what becomes known belongs to issued ones.        *)
LEMMA FreshKeeps ==
  ASSUME TypeOK, RefusalInv, \A c \in Req : caller[c] # None => caller'[c] # None,
         Done' = Done,
         \A k \in Place, t \in Tab : \A c \in At(k, t)' : c \in At(k, t) \/ c \in Issued',
         \A t \in Tab : heldCancels'[t] \subseteq heldCancels[t] \cup Issued',
         \A t \in Tab : \A c \in Named(inbox'[t]) :
           (\E u \in Tab : c \in Named(inbox[u])) \/ c \in Issued' \/ c = 0,
         \A id \in Id : answer'[id] # "idle" => answer[id] # "idle" \/ id.req \in Issued'
  PROVE  FreshInv'
<1>1. Issued \subseteq Issued'
  BY DEF Issued
<1>2. Done' \subseteq Issued'
  BY <1>1 DEF RefusalInv, FreshInv
<1>3. \A k \in Place, t \in Tab : At(k, t)' \subseteq Issued'
  BY <1>1 DEF RefusalInv, FreshInv
<1>4. \A t \in Tab : heldCancels'[t] \subseteq Issued'
  BY <1>1 DEF RefusalInv, FreshInv
<1>5. \A t \in Tab : Named(inbox'[t]) \subseteq Issued' \cup {0}
  BY <1>1 DEF RefusalInv, FreshInv
<1>6. \A id \in Id : answer'[id] # "idle" => id.req \in Issued'
  BY <1>1 DEF RefusalInv, FreshInv
<1>. QED
  BY <1>2, <1>3, <1>4, <1>5, <1>6 DEF FreshInv

(* A request that leaves the only place it was in is stopped.              *)
LEMMA Left ==
  ASSUME RefusalInv, NEW c \in Req \ Done, NEW k, NEW t,
         \A l \in Place, u \in Tab : c \in At(l, u) => l = k /\ u = t,
         \A l \in Place, u \in Tab : c \in At(l, u)' => c \in At(l, u) /\ ~(l = k /\ u = t)
  PROVE  Stopped(c)
<1>1. \A l \in Place, u \in Tab : c \notin At(l, u)'
  OBVIOUS
<1>2. ~Waits(c)'
  BY <1>1 DEF Waits
<1>3. \A u \in Tab : active'[u] # c
  BY <1>1, AtEachNext DEF Place, Req
<1>. QED
  BY <1>2, <1>3 DEF Stopped

(* What the ingress of an owner makes of its queue and what it replies: a  *)
(* refusal is for a request that it drops, or that it has told to abort.   *)
LEMMA OwnerAccepts ==
  ASSUME TypeOK, RefusalInv, NEW w \in Tab, NEW id \in Id,
         ~IsCancel(id) => id.req \notin Done /\ id.req \notin ToSet(queue[w])
  PROVE  /\ Single(NewQueue(w, id))
         /\ ToSet(NewQueue(w, id)) \subseteq
              ToSet(queue[w]) \cup (IF IsCancel(id) THEN {} ELSE {id.req})
         /\ aborted[w] = TRUE => NewAborted(w, id) = TRUE
         /\ \A r \in ToSet(Replies(w, id)) : r.id.req = id.req
         /\ \A r \in ToSet(Replies(w, id)) : Refusal(r.id, r.value) =>
              /\ id.req \notin Done /\ id.req \notin ToSet(NewQueue(w, id))
              /\ IsCancel(id) =>
                   \/ id.req \in ToSet(queue[w])
                   \/ /\ active[w] = id.req /\ id.req \in CommitReq
                      /\ NewAborted(w, id) = TRUE
<1>. DEFINE c == id.req
<1>1. c \in Req /\ queue[w] \in Seq(Req) /\ Single(queue[w])
  BY IdParts DEF TypeOK, RefusalInv, OneTime
<1>0. Load(w) \in Nat
  <2>1. Len(queue[w]) \in Nat
    BY <1>1
  <2>2. CASE active[w] = 0
    <3>1. Load(w) = Len(queue[w]) + 0
      BY <2>2 DEF Load
    <3>. QED
      BY <2>1, <3>1
  <2>3. CASE active[w] # 0
    <3>1. Load(w) = Len(queue[w]) + 1
      BY <2>3 DEF Load
    <3>. QED
      BY <2>1, <3>1
  <2>. QED
    BY <2>2, <2>3
<1>2. aborted[w] = TRUE => NewAborted(w, id) = TRUE
  BY DEF NewAborted
<1>3. CASE ~IsCancel(id) /\ Load(w) < MaxPending
  <2>1. NewQueue(w, id) = Append(queue[w], c) /\ Replies(w, id) = <<>>
    <3>1. Load(w) \in Nat /\ MaxPending \in Nat
      BY <1>0, LimitAssumption
    <3>. QED
      BY <1>3, <3>1 DEF NewQueue, Replies
  <2>2. ToSet(Replies(w, id)) = {}
    BY <2>1 DEF ToSet
  <2>3. Single(Append(queue[w], c)) /\ ToSet(Append(queue[w], c)) = ToSet(queue[w]) \cup {c}
    BY <1>1, <1>3, SingleAppend
  <2>. QED
    BY <1>2, <1>3, <2>1, <2>2, <2>3
<1>4. CASE ~IsCancel(id) /\ ~(Load(w) < MaxPending)
  <2>1. NewQueue(w, id) = queue[w]
    BY <1>4 DEF NewQueue
  <2>2. Replies(w, id) = <<Answered(id, "OVERLOADED")>>
    <3>1. Load(w) \in Nat /\ MaxPending \in Nat
      BY <1>0, LimitAssumption
    <3>. QED
      BY <1>4, <3>1 DEF Replies
  <2>3. ToSet(Replies(w, id)) = {Answered(id, "OVERLOADED")}
    BY <2>2 DEF ToSet
  <2>. QED
    BY <1>1, <1>2, <1>4, <2>1, <2>3 DEF Answered
<1>5. CASE IsCancel(id) /\ Queued(w, c)
  <2>1. Position(w, c) \in DOMAIN queue[w] /\ queue[w][Position(w, c)] = c
    BY <1>5 DEF Queued, Position
  <2>2. NewQueue(w, id) = RemoveAt(queue[w], Position(w, c))
    BY <1>5 DEF NewQueue
  <2>3. Single(NewQueue(w, id)) /\ ToSet(NewQueue(w, id)) = ToSet(queue[w]) \ {c}
    BY <1>1, <2>1, <2>2, RemoveAtSingle
  <2>4. Replies(w, id) = <<Answered(Request(c), "CANCELLED"), Answered(id, "cancelled_before_commit")>>
    BY <1>5 DEF Replies
  <2>5. \A r \in ToSet(Replies(w, id)) : r.id.req = c
    BY <2>4, KindsOfId DEF ToSet, Answered
  <2>6. c \in ToSet(queue[w])
    BY <2>1 DEF ToSet
  <2>7. c \notin Done
    <3>1. c \in At("queue", w) /\ "queue" \in Place /\ "queue" # "active"
      BY <2>6, AtEach DEF Place
    <3>. QED
      BY <1>1, <3>1, WaitingIsOpen
  <2>. QED
    BY <1>2, <1>5, <2>3, <2>5, <2>6, <2>7
<1>6. CASE IsCancel(id) /\ ~Queued(w, c)
  <2>1. NewQueue(w, id) = queue[w]
    BY <1>6 DEF NewQueue
  <2>2. Replies(w, id) = <<Answered(id, CancelOutcome(w, c))>>
    BY <1>6 DEF Replies
  <2>3. ToSet(Replies(w, id)) = {Answered(id, CancelOutcome(w, c))}
    BY <2>2 DEF ToSet
  <2>4. c \notin ToSet(queue[w])
    BY <1>6 DEF Queued, ToSet
  <2>5. ASSUME Refusal(id, CancelOutcome(w, c))
        PROVE  c \notin Done /\ active[w] = c /\ c \in CommitReq /\ NewAborted(w, id) = TRUE
    <3>1. CancelOutcome(w, c) \notin {"committed", "unknown_outcome"}
      BY <2>5, Harmless
    <3>2. active[w] = c /\ c \in CommitReq /\ ~HasReceipt(c)
      BY <3>1 DEF CancelOutcome
    <3>3. c \notin Done
      BY <1>1, <3>2 DEF RefusalInv, DoneInv
    <3>4. NewAborted(w, id) = TRUE
      BY <1>6, <3>2 DEF NewAborted, AbortsActive
    <3>. QED
      BY <3>2, <3>3, <3>4
  <2>6. \A r \in ToSet(Replies(w, id)) : r.id = id /\ r.value = CancelOutcome(w, c)
    BY <2>3 DEF Answered
  <2>. HIDE DEF c
  <2>. QED
    BY <1>1, <1>2, <1>6, <2>1, <2>4, <2>5, <2>6 DEF c
<1>. QED
  BY <1>3, <1>4, <1>5, <1>6

(* A call that reaches its owner: a request is accepted into the queue or  *)
(* refused, a cancellation takes a request out of it or aborts it.         *)
LEMMA OwnerIngress ==
  ASSUME TypeOK, RefusalInv, NEW w \in Tab, NEW id \in Id,
         queue' = [queue EXCEPT ![w] = NewQueue(w, id)],
         aborted' = [aborted EXCEPT ![w] = NewAborted(w, id)],
         UNCHANGED <<active, result, held, durable>>,
         \A t \in Tab : InBox(inbox'[t]) \subseteq InBox(inbox[t]),
         ~IsCancel(id) =>
           /\ id.req \notin Done /\ ~Rejected(id.req)
           /\ \A k \in Place, t \in Tab : id.req \in At(k, t) => k = "bus" /\ t = w
           /\ id.req \notin InBox(inbox'[w]),
         Says({r.id.req : r \in {q \in ToSet(Replies(w, id)) : Refusal(q.id, q.value)}})
  PROVE  /\ OnePlace' /\ RefusedInv' /\ DoneInv'
         /\ \A t \in Tab : Single(queue'[t])
         /\ \A k \in Place, t \in Tab : \A c \in At(k, t)' : c \in At(k, t) \/ c = id.req
<1>. DEFINE c == id.req
            N == {r.id.req : r \in {q \in ToSet(Replies(w, id)) : Refusal(q.id, q.value)}}
<1>1. c \in Req /\ c # 0
  BY IdParts DEF Req
<1>2. ~IsCancel(id) => c \notin ToSet(queue[w]) /\ active[w] # c
  <2>1. ~IsCancel(id) => c \notin At("queue", w) /\ c \notin At("active", w)
    BY DEF Place
  <2>. QED
    BY <1>1, <2>1, AtEach
<1>3. /\ Single(NewQueue(w, id))
      /\ ToSet(NewQueue(w, id)) \subseteq ToSet(queue[w]) \cup (IF IsCancel(id) THEN {} ELSE {c})
      /\ aborted[w] = TRUE => NewAborted(w, id) = TRUE
      /\ \A r \in ToSet(Replies(w, id)) : r.id.req = c
      /\ \A r \in ToSet(Replies(w, id)) : Refusal(r.id, r.value) =>
           /\ c \notin Done /\ c \notin ToSet(NewQueue(w, id))
           /\ IsCancel(id) =>
                \/ c \in ToSet(queue[w])
                \/ active[w] = c /\ c \in CommitReq /\ NewAborted(w, id) = TRUE
  BY <1>2, OwnerAccepts
<1>4. N \subseteq {c} /\ N \in SUBSET Req
  BY <1>1, <1>3
<1>5. N # {} => /\ c \notin Done /\ c \notin ToSet(NewQueue(w, id))
                /\ IsCancel(id) =>
                     \/ c \in ToSet(queue[w])
                     \/ active[w] = c /\ c \in CommitReq /\ NewAborted(w, id) = TRUE
  BY <1>3
<1>6. Says(N)
  OBVIOUS
<1>. HIDE DEF N
<1>7. /\ queue'[w] = NewQueue(w, id) /\ aborted'[w] = NewAborted(w, id)
      /\ \A t \in Tab \ {w} : queue'[t] = queue[t] /\ aborted'[t] = aborted[t]
  BY DEF TypeOK
<1>8. \A t \in Tab : Single(queue'[t])
  BY <1>3, <1>7 DEF RefusalInv, OneTime
<1>9. \A k \in Place, t \in Tab : \A d \in At(k, t)' :
        d \in At(k, t) \/ (~IsCancel(id) /\ d = c /\ k = "queue" /\ t = w)
  <2>1. ASSUME NEW t \in Tab
        PROVE  /\ At("held", t)' \subseteq At("held", t) /\ At("bus", t)' \subseteq At("bus", t)
               /\ At("active", t)' \subseteq At("active", t)
               /\ t # w => At("queue", t)' \subseteq At("queue", t)
    <3>1. held' = held /\ active' = active
      OBVIOUS
    <3>2. At("held", t)' \subseteq At("held", t) /\ At("active", t)' \subseteq At("active", t)
      BY <3>1, AtEach, AtEachNext
    <3>3. At("bus", t)' \subseteq At("bus", t)
      BY AtEach, AtEachNext
    <3>4. t # w => At("queue", t)' \subseteq At("queue", t)
      BY <1>7, AtEach, AtEachNext
    <3>. QED
      BY <3>2, <3>3, <3>4
  <2>2. At("queue", w)' \subseteq At("queue", w) \cup (IF IsCancel(id) THEN {} ELSE {c})
    BY <1>3, <1>7, AtEach, AtEachNext
  <2>. QED
    BY <2>1, <2>2 DEF Place
<1>10. Works({})
  BY <1>3, <1>7 DEF Works
<1>11. CASE IsCancel(id)
  <2>1. Places({}, "queue", w)
    BY <1>9, <1>11 DEF Places
  <2>2. ASSUME NEW d \in N PROVE Stopped(d)
    <3>1. d = c /\ c \notin Done /\ c \notin ToSet(NewQueue(w, id))
      BY <1>4, <1>5, <2>2
    <3>2. CASE c \in ToSet(queue[w])
      <4>1. c \in At("queue", w) /\ "queue" \in Place /\ "queue" # "active"
        BY <3>2, AtEach DEF Place
      <4>2. \A l \in Place, u \in Tab : c \in At(l, u) => l = "queue" /\ u = w
        BY <1>1, <4>1, WaitingIsOpen
      <4>3. c \notin At("queue", w)'
        BY <1>7, <3>1, AtEachNext
      <4>4. \A l \in Place, u \in Tab : c \in At(l, u)' => c \in At(l, u) /\ ~(l = "queue" /\ u = w)
        BY <1>9, <1>11, <4>3
      <4>. QED
        BY <1>1, <3>1, <4>2, <4>4, Left
    <3>3. CASE active[w] = c /\ c \in CommitReq /\ NewAborted(w, id) = TRUE
      <4>1. c \in At("active", w) /\ "active" \in Place
        BY <1>1, <3>3, AtEach DEF Place
      <4>2. \A l \in Place, u \in Tab : c \in At(l, u) => l = "active" /\ u = w
        BY <1>1, <4>1 DEF RefusalInv, OnePlace
      <4>3. \A l \in Place, u \in Tab : c \in At(l, u)' => l = "active" /\ u = w
        BY <1>9, <1>11, <4>2
      <4>4. ~Waits(c)'
        BY <4>3 DEF Waits
      <4>5. \A u \in Tab : active'[u] = c => u = w
        BY <1>1, <4>3, AtEachNext DEF Place
      <4>. QED
        BY <1>7, <3>1, <3>3, <4>4, <4>5 DEF Stopped
    <3>. QED
      BY <1>5, <1>11, <2>2, <3>2, <3>3
  <2>3. OnePlace' /\ RefusedInv' /\ DoneInv'
    BY <1>4, <1>6, <1>10, <2>1, <2>2, PlacesKeep
  <2>. QED
    BY <1>8, <1>9, <2>3
<1>12. CASE ~IsCancel(id) /\ N = {}
  <2>1. Places({c}, "queue", w)
    <3>1. ASSUME NEW k \in Place, NEW t \in Tab, c \in At(k, t)'
          PROVE  k = "queue" /\ t = w
      <4>1. CASE k = "bus" /\ t = w
        BY <1>12, <3>1, <4>1, AtEachNext
      <4>. QED
        BY <1>9, <1>12, <3>1, <4>1
    <3>. QED
      BY <1>9, <3>1 DEF Places
  <2>2. Works({c})
    BY <1>10 DEF Works
  <2>3. OnePlace' /\ RefusedInv' /\ DoneInv'
    BY <1>1, <1>4, <1>6, <1>12, <2>1, <2>2, PlacesKeep
  <2>. QED
    BY <1>8, <1>9, <2>3
<1>13. CASE ~IsCancel(id) /\ N # {}
  <2>1. c \notin Done /\ c \notin At("queue", w)'
    BY <1>5, <1>7, <1>13, AtEachNext
  <2>2. \A k \in Place, t \in Tab : \A d \in At(k, t)' : d \in At(k, t)
    BY <1>9, <2>1
  <2>3. Places({}, "bus", w)
    BY <2>2 DEF Places
  <2>4. c \notin At("bus", w)'
    BY <1>13, AtEachNext
  <2>5. Stopped(c)
    BY <1>1, <1>13, <2>1, <2>2, <2>4, Left
  <2>6. OnePlace' /\ RefusedInv' /\ DoneInv'
    BY <1>4, <1>6, <1>10, <2>3, <2>5, PlacesKeep
  <2>. QED
    BY <1>8, <1>9, <2>6
<1>. QED
  BY <1>11, <1>12, <1>13

(* A call enters the worker of its own tab, or is refused for want of room *)
(* in the client; a request is new then.                                   *)
Enters(t, id, ans) ==
  /\ t \in Tab /\ id \in Id /\ ans \in [Id -> Answer]
  /\ UNCHANGED <<active, result, durable>>
  /\ \A c \in Req : caller[c] # None => caller'[c] # None
  /\ caller'[id.req] # None /\ (~IsCancel(id) => id.req \notin Issued)
  /\ \A i \in Id : \/ ans[i] = answer[i]
                   \/ i.req = id.req /\ ans[i] \in {"pending", "UNKNOWN_OUTCOME"}

(* A request that enters is new to every place; nothing was said of it.    *)
LEMMA EntersFresh ==
  ASSUME TypeOK, RefusalInv, NEW t, NEW id, NEW ans, Enters(t, id, ans)
  PROVE  /\ id.req \in Req /\ id.req \in Issued' /\ Done' = Done /\ id.req # 0
         /\ ~IsCancel(id) => /\ id.req \notin Done /\ ~Rejected(id.req)
                             /\ \A k \in Place, u \in Tab : id.req \notin At(k, u)
         /\ \A i \in Id : ans[i] = answer[i] \/ i.req = id.req
         /\ \A i \in Id : ans[i] = answer[i] \/ ~Refusal(i, ans[i])
<1>1. id.req \in Req /\ id.req \in Issued' /\ Done' = Done
  BY IdParts DEF Enters, Issued, Done, durable
<1>. QED
  BY <1>1, Unissued, Harmless DEF Enters, Req

(* What is answered OVERLOADED goes nowhere.                               *)
LEMMA EntersFull ==
  ASSUME TypeOK, RefusalInv, NEW t, NEW id, NEW ans, Enters(t, id, ans),
         answer' = [ans EXCEPT ![id] = "OVERLOADED"],
         UNCHANGED <<waitingVars, queue, aborted, inbox>>
  PROVE  RefusalInv'
<1>. DEFINE c == id.req
            N == IF IsCancel(id) THEN {} ELSE {c}
<1>. USE DEF waitingVars
<1>1. c \in Req /\ UNCHANGED <<active, result, durable, held, heldCancels>>
  BY EntersFresh DEF Enters
<1>2. \A k \in Place, u \in Tab : \A d \in At(k, u)' : d \in At(k, u)
  BY <1>1, AtEach, AtEachNext DEF Place
<1>3. Says(N)
  <2>1. \A i \in Id : answer'[i] = IF i = id THEN "OVERLOADED" ELSE ans[i]
    BY DEF Enters
  <2>2. \A i \in Id : answer'[i] = answer[i] \/ ~Refusal(i, answer'[i]) \/ i.req \in N
    BY <2>1, EntersFresh DEF Refusal
  <2>. QED
    BY <1>1, <2>2, Saying
<1>4. ASSUME NEW d \in N PROVE Stopped(d)
  <2>1. d = c /\ c \notin Done /\ \A k \in Place, u \in Tab : c \notin At(k, u)
    BY <1>4, EntersFresh
  <2>. QED
    BY <1>1, <1>2, <2>1, Left
<1>5. OnePlace' /\ RefusedInv' /\ DoneInv'
  <2>1. Places({}, "held", t) /\ Works({})
    BY <1>1, <1>2 DEF Places, Works
  <2>. QED
    BY <1>1, <1>3, <1>4, <2>1, PlacesKeep
<1>6. OneTime'
  BY <1>1 DEF RefusalInv, OneTime
<1>7. FreshInv'
  <2>1. \A i \in Id : answer'[i] # "idle" => answer[i] # "idle" \/ i.req \in Issued'
    BY EntersFresh DEF Enters
  <2>. QED
    BY <1>1, <1>2, <2>1, EntersFresh, FreshKeeps DEF Enters
<1>. QED
  BY <1>5, <1>6, <1>7 DEF RefusalInv

(* A request that is cancelled before it was sent leaves the held ones.    *)
LEMMA EntersNotDispatched ==
  ASSUME TypeOK, RefusalInv, NEW t, NEW id, NEW ans, Enters(t, id, ans),
         IngressNotDispatched(t, id, ans)
  PROVE  RefusalInv'
<1>. DEFINE c == id.req
<1>1. c \in Req /\ UNCHANGED <<active, result, durable, heldCancels, queue, aborted, inbox>>
  BY EntersFresh DEF Enters, IngressNotDispatched
<1>2. held[t] \in Seq(Req) /\ t \in Tab
      /\ HeldAt(t, c) \in DOMAIN held[t] /\ held[t][HeldAt(t, c)] = c
  BY DEF IngressNotDispatched, IsHeld, HeldAt, Enters, TypeOK
<1>3. /\ Single(held'[t]) /\ ToSet(held'[t]) = ToSet(held[t]) \ {c}
      /\ \A u \in Tab \ {t} : held'[u] = held[u]
  BY <1>2, RemoveAtSingle DEF IngressNotDispatched, RefusalInv, OneTime, TypeOK
<1>4. c \in At("held", t)
  BY <1>2, AtEach DEF ToSet
<1>5. \A k \in Place, u \in Tab : \A d \in At(k, u)' : d \in At(k, u) /\ ~(d = c /\ k = "held" /\ u = t)
  BY <1>1, <1>3, AtEach, AtEachNext DEF Place
<1>6. /\ c \notin Done
      /\ \A l \in Place, u \in Tab : c \in At(l, u) => l = "held" /\ u = t
  BY <1>1, <1>2, <1>4, WaitingIsOpen DEF Place
<1>7. Stopped(c)
  BY <1>1, <1>5, <1>6, Left
<1>8. Says({c})
  <2>1. \A i \in Id : answer'[i] = answer[i] \/ ~Refusal(i, answer'[i]) \/ i.req = c
    BY EntersFresh, KindsOfId DEF IngressNotDispatched, Settled, Enters
  <2>. QED
    BY <1>1, <2>1, Saying
<1>9. OnePlace' /\ RefusedInv' /\ DoneInv'
  <2>1. Places({}, "held", t) /\ Works({})
    BY <1>1, <1>5 DEF Places, Works
  <2>. QED
    BY <1>1, <1>7, <1>8, <2>1, PlacesKeep
<1>10. OneTime'
  BY <1>1, <1>3 DEF RefusalInv, OneTime
<1>11. FreshInv'
  <2>1. \A i \in Id : answer'[i] # "idle" => answer[i] # "idle" \/ i.req \in Issued'
    BY EntersFresh, KindsOfId DEF IngressNotDispatched, Settled, Enters
  <2>. QED
    BY <1>1, <1>5, <2>1, EntersFresh, FreshKeeps DEF Enters
<1>. QED
  BY <1>9, <1>10, <1>11 DEF RefusalInv

(* A new request waits for an owner to be found.                           *)
LEMMA EntersHeld ==
  ASSUME TypeOK, RefusalInv, NEW t, NEW id, NEW ans, Enters(t, id, ans),
         IngressHeld(t, id, ans)
  PROVE  RefusalInv'
<1>. DEFINE c == id.req
            G == IF IsCancel(id) THEN {} ELSE {c}
<1>1. c \in Req /\ UNCHANGED <<active, result, durable, queue, aborted, inbox>> /\ answer' = ans
  BY EntersFresh DEF Enters, IngressHeld
<1>2. t \in Tab /\ held[t] \in Seq(Req) /\ Single(held[t])
  BY DEF Enters, TypeOK, RefusalInv, OneTime
<1>3. /\ Single(held'[t]) /\ ToSet(held'[t]) = ToSet(held[t]) \cup G
      /\ \A u \in Tab \ {t} : held'[u] = held[u]
      /\ \A u \in Tab : heldCancels'[u] \subseteq heldCancels[u] \cup {c}
  <2>1. CASE ~IsCancel(id)
    <3>1. held' = [held EXCEPT ![t] = Append(@, c)] /\ heldCancels' = heldCancels
      BY <2>1 DEF IngressHeld
    <3>2. c \notin ToSet(held[t])
      BY <1>2, <2>1, EntersFresh, AtEach DEF Place
    <3>. QED
      BY <1>1, <1>2, <2>1, <3>1, <3>2, SingleAppend DEF TypeOK
  <2>2. CASE IsCancel(id)
    BY <1>2, <2>2 DEF IngressHeld, TypeOK
  <2>. QED
    BY <2>1, <2>2
<1>4. \A k \in Place, u \in Tab : \A d \in At(k, u)' :
        d \in At(k, u) \/ (d \in G /\ k = "held" /\ u = t)
  BY <1>1, <1>3, AtEach, AtEachNext DEF Place
<1>5. \A d \in G : /\ d = c /\ d \notin Done /\ ~Rejected(d)
                   /\ \A k \in Place, u \in Tab : d \notin At(k, u)
  BY EntersFresh
<1>6. Says({})
  <2>1. \A i \in Id : answer'[i] = answer[i] \/ ~Refusal(i, answer'[i])
    BY <1>1, EntersFresh
  <2>. QED
    BY <1>1, <2>1, Saying
<1>7. OnePlace' /\ RefusedInv' /\ DoneInv'
  <2>1. Places(G, "held", t)
    BY <1>4, <1>5 DEF Places
  <2>2. Works(G)
    BY <1>1 DEF Works
  <2>. QED
    BY <1>1, <1>5, <1>6, <2>1, <2>2, PlacesKeep
<1>8. OneTime'
  BY <1>1, <1>3 DEF RefusalInv, OneTime
<1>9. FreshInv'
  <2>1. \A i \in Id : answer'[i] # "idle" => answer[i] # "idle" \/ i.req \in Issued'
    BY <1>1, EntersFresh
  <2>. QED
    BY <1>1, <1>3, <1>4, <1>5, <2>1, EntersFresh, FreshKeeps DEF Enters
<1>. QED
  BY <1>7, <1>8, <1>9 DEF RefusalInv

(* A call is sent to the owner, who may be gone.                           *)
LEMMA EntersForwarded ==
  ASSUME TypeOK, RefusalInv, NEW t, NEW id, NEW ans, Enters(t, id, ans),
         IngressForwarded(t, id, ans)
  PROVE  RefusalInv'
<1>. DEFINE c == id.req
            w == known[t]
            G == IF IsCancel(id) THEN {} ELSE {c}
            msgs == <<CallMsg(t, id)>>
<1>1. /\ c \in Req /\ t \in Tab /\ w \in Tab
      /\ UNCHANGED <<active, result, durable, queue, aborted, held, heldCancels>>
      /\ answer' = ans /\ inbox' = Post(inbox, w, msgs) /\ inbox \in [Tab -> Seq(Message)]
  BY EntersFresh DEF Enters, IngressForwarded, TypeOK
<1>2. /\ msgs \in Seq(Message) /\ InBox(msgs) = G /\ Refusing(msgs) = {} /\ Named(msgs) = {c}
      /\ SingleCalls(msgs)
  BY CallBox DEF Enters
<1>. HIDE DEF msgs
<1>3. \A d \in G : /\ d = c /\ d \notin Done /\ ~Rejected(d)
                   /\ \A k \in Place, u \in Tab : d \notin At(k, u)
  BY EntersFresh
<1>4. \A u \in Tab : InBox(inbox[u]) \cap InBox(msgs) = {}
  BY <1>2, <1>3, AtEach DEF Place
<1>5. ASSUME NEW u \in Tab
      PROVE  /\ \A d \in InBox(inbox'[u]) : d \in InBox(inbox[u]) \/ (d \in G /\ u = w)
             /\ Refusing(inbox'[u]) \subseteq Refusing(inbox[u])
             /\ Named(inbox'[u]) \subseteq Named(inbox[u]) \cup {c}
             /\ SingleCalls(inbox'[u])
  <2>1. SingleCalls(inbox[u]) /\ InBox(inbox[u]) \cap InBox(msgs) = {}
    BY <1>4 DEF RefusalInv, OneTime
  <2>2. inbox'[u] = Post(inbox, w, msgs)[u]
    BY <1>1
  <2>. HIDE DEF w
  <2>3. /\ InBox(Post(inbox, w, msgs)[u]) \subseteq
             InBox(inbox[u]) \cup (IF u = w THEN InBox(msgs) ELSE {})
        /\ Refusing(Post(inbox, w, msgs)[u]) \subseteq Refusing(inbox[u]) \cup Refusing(msgs)
        /\ Named(Post(inbox, w, msgs)[u]) \subseteq Named(inbox[u]) \cup Named(msgs)
    BY <1>1, <1>2, PostBox
  <2>4. SingleCalls(Post(inbox, w, msgs)[u])
    BY <1>1, <1>2, <2>1, PostBox
  <2>. HIDE DEF G
  <2>5. \A d \in InBox(inbox'[u]) : d \in InBox(inbox[u]) \/ (d \in G /\ u = w)
    BY <1>2, <2>2, <2>3
  <2>6. Refusing(inbox'[u]) \subseteq Refusing(inbox[u])
    BY <1>2, <2>2, <2>3
  <2>7. Named(inbox'[u]) \subseteq Named(inbox[u]) \cup {c}
    BY <1>2, <2>2, <2>3
  <2>8. SingleCalls(inbox'[u])
    BY <2>2, <2>4
  <2>. QED
    BY <2>5, <2>6, <2>7, <2>8
<1>6. \A k \in Place, u \in Tab : \A d \in At(k, u)' :
        d \in At(k, u) \/ (d \in G /\ k = "bus" /\ u = w)
  BY <1>1, <1>5, AtEach, AtEachNext DEF Place
<1>7. Says({})
  <2>1. \A i \in Id : answer'[i] = answer[i] \/ ~Refusal(i, answer'[i])
    BY <1>1, EntersFresh
  <2>. QED
    BY <1>5, <2>1, Saying
<1>8. OnePlace' /\ RefusedInv' /\ DoneInv'
  <2>1. Places(G, "bus", w)
    BY <1>3, <1>6 DEF Places
  <2>2. Works(G)
    BY <1>1 DEF Works
  <2>. QED
    BY <1>1, <1>3, <1>7, <2>1, <2>2, PlacesKeep
<1>9. OneTime'
  BY <1>1, <1>5 DEF RefusalInv, OneTime
<1>10. FreshInv'
  <2>1. \A i \in Id : answer'[i] # "idle" => answer[i] # "idle" \/ i.req \in Issued'
    BY <1>1, EntersFresh
  <2>2. c \in Issued' /\ Done' = Done /\ \A d \in Req : caller[d] # None => caller'[d] # None
    BY EntersFresh DEF Enters
  <2>3. \A k \in Place, u \in Tab : \A d \in At(k, u)' : d \in At(k, u) \/ d \in Issued'
    BY <1>3, <1>6, <2>2
  <2>4. \A u \in Tab : \A d \in Named(inbox'[u]) :
          (\E q \in Tab : d \in Named(inbox[q])) \/ d \in Issued' \/ d = 0
    BY <1>5, <2>2
  <2>5. \A u \in Tab : heldCancels'[u] \subseteq heldCancels[u] \cup Issued'
    BY <1>1
  <2>. QED
    BY <2>1, <2>2, <2>3, <2>4, <2>5, FreshKeeps
<1>. QED
  BY <1>8, <1>9, <1>10 DEF RefusalInv

(* The owner's own call.                                                   *)
LEMMA EntersLocal ==
  ASSUME TypeOK, RefusalInv, NEW t, NEW id, NEW ans, Enters(t, id, ans),
         IngressLocal(t, id, ans)
  PROVE  RefusalInv'
<1>. DEFINE c == id.req
            replies == ToSet(Replies(t, id))
            N == {r.id.req : r \in {q \in replies : Refusal(q.id, q.value)}}
<1>1. /\ c \in Req /\ t \in Tab /\ id \in Id
      /\ UNCHANGED <<active, result, durable, held, heldCancels, inbox>>
      /\ queue' = [queue EXCEPT ![t] = NewQueue(t, id)]
      /\ aborted' = [aborted EXCEPT ![t] = NewAborted(t, id)]
  BY EntersFresh DEF Enters, IngressLocal
<1>2. ~IsCancel(id) =>
        /\ c \notin Done /\ ~Rejected(c) /\ c \notin ToSet(queue[t])
        /\ \A k \in Place, u \in Tab : c \notin At(k, u)
  BY <1>1, EntersFresh, AtEach DEF Place
<1>3. \A r \in replies : r.id.req = c
  BY <1>1, <1>2, OwnerAccepts
<1>4. \A i \in Id : \/ answer'[i] = ans[i]
                    \/ \E r \in replies : r.id = i /\ answer'[i] = r.value
  <2>1. \A i \in Id : answer'[i] = IF i \in {r.id : r \in replies} /\ ans[i] = "pending"
                                   THEN (CHOOSE r \in replies : r.id = i).value ELSE ans[i]
    BY DEF IngressLocal
  <2>. HIDE DEF replies
  <2>2. ASSUME NEW i \in Id, i \in {r.id : r \in replies}
        PROVE  \E r \in replies : r.id = i /\ (CHOOSE q \in replies : q.id = i).value = r.value
    BY <2>2
  <2>. QED
    BY <2>1, <2>2
<1>5. N \in SUBSET Req
  BY <1>1, <1>3
<1>6. Says(N)
  <2>1. \A i \in Id : answer'[i] = answer[i] \/ ~Refusal(i, answer'[i]) \/ i.req \in N
    BY <1>4, EntersFresh
  <2>. HIDE DEF N
  <2>. QED
    BY <1>1, <1>5, <2>1, Saying
<1>7. /\ OnePlace' /\ RefusedInv' /\ DoneInv'
      /\ \A u \in Tab : Single(queue'[u])
      /\ \A k \in Place, u \in Tab : \A d \in At(k, u)' : d \in At(k, u) \/ d = c
  <2>1. ~IsCancel(id) => c \notin InBox(inbox'[t])
    BY <1>1, <1>2, AtEach DEF Place
  <2>. QED
    BY <1>1, <1>2, <1>6, <2>1, OwnerIngress
<1>8. OneTime'
  BY <1>1, <1>7 DEF RefusalInv, OneTime
<1>9. FreshInv'
  <2>1. \A i \in Id : answer'[i] # "idle" => answer[i] # "idle" \/ i.req \in Issued'
    BY <1>3, <1>4, EntersFresh
  <2>. QED
    BY <1>1, <1>7, <2>1, EntersFresh, FreshKeeps DEF Enters
<1>. QED
  BY <1>7, <1>8, <1>9 DEF RefusalInv

(* Whatever becomes of a call that enters, the invariant stays.            *)
LEMMA EntersKeeps ==
  ASSUME TypeOK, RefusalInv, NEW t, NEW id, NEW ans, Enters(t, id, ans),
         Ingress(t, id, ans) \/ Refused(ans, id)
  PROVE  RefusalInv'
<1>1. CASE IngressFull(t, id, ans) \/ Refused(ans, id)
  BY <1>1, EntersFull DEF IngressFull, Refused
<1>. QED
  BY <1>1, EntersNotDispatched, EntersHeld, EntersForwarded, EntersLocal DEF Ingress

(* A step that only answers, or loses, refuses nothing by itself.          *)
LEMMA IdleKeeps ==
  ASSUME TypeOK, RefusalInv, UNCHANGED <<caller, durable>>, \A t \in Tab : Shrinks(t), Works({}),
         \A t \in Tab : /\ Single(held'[t]) /\ Single(queue'[t]) /\ SingleCalls(inbox'[t])
                        /\ Refusing(inbox'[t]) \subseteq Refusing(inbox[t])
                        /\ Named(inbox'[t]) \subseteq Named(inbox[t]) \cup {0}
                        /\ heldCancels'[t] \subseteq heldCancels[t],
         NEW N \in SUBSET Req,
         \A id \in Id : \/ answer'[id] = answer[id]
                        \/ /\ answer[id] # "idle"
                           /\ ~Refusal(id, answer'[id]) \/ id.req \in N,
         \A c \in N : Stopped(c)
  PROVE  RefusalInv'
<1>1. Places({}, "held", "held")
  BY ShrinksPlaces
<1>2. Says(N)
  BY Saying
<1>3. OnePlace' /\ RefusedInv' /\ DoneInv'
  BY <1>1, <1>2, PlacesKeep
<1>4. OneTime'
  BY DEF OneTime
<1>5. FreshInv'
  <2>1. Issued' = Issued /\ Done' = Done
    BY DEF Issued, Done, durable
  <2>2. \A k \in Place, t \in Tab : \A c \in At(k, t)' : c \in At(k, t)
    BY <1>1 DEF Places
  <2>. QED
    BY <2>1, <2>2, FreshKeeps
<1>. QED
  BY <1>3, <1>4, <1>5 DEF RefusalInv

(* A step that moves nothing and refuses nothing.                          *)
LEMMA StillKeeps ==
  ASSUME TypeOK, RefusalInv,
         UNCHANGED <<caller, active, result, aborted, queue, held, heldCancels, durable>>,
         \A t \in Tab : /\ InBox(inbox'[t]) \subseteq InBox(inbox[t]) /\ SingleCalls(inbox'[t])
                        /\ Refusing(inbox'[t]) \subseteq Refusing(inbox[t])
                        /\ Named(inbox'[t]) \subseteq Named(inbox[t]) \cup {0},
         \A id \in Id : \/ answer'[id] = answer[id]
                        \/ answer[id] # "idle" /\ ~Refusal(id, answer'[id])
  PROVE  RefusalInv'
<1>1. \A t \in Tab : Shrinks(t)
  BY DEF Shrinks
<1>2. Works({})
  BY DEF Works
<1>3. \A t \in Tab : Single(held'[t]) /\ Single(queue'[t])
  BY DEF RefusalInv, OneTime
<1>. QED
  BY <1>1, <1>2, <1>3, IdleKeeps

(* A bus that is left alone.                                               *)
LEMMA SameBus ==
  ASSUME RefusalInv, UNCHANGED inbox
  PROVE  \A t \in Tab : /\ InBox(inbox'[t]) \subseteq InBox(inbox[t]) /\ SingleCalls(inbox'[t])
                        /\ Refusing(inbox'[t]) \subseteq Refusing(inbox[t])
                        /\ Named(inbox'[t]) \subseteq Named(inbox[t]) \cup {0}
BY DEF RefusalInv, OneTime

(* Nothing is in an empty box.                                             *)
LEMMA EmptyBox ==
  InBox(<<>>) = {} /\ Refusing(<<>>) = {} /\ Named(<<>>) = {} /\ SingleCalls(<<>>)
BY DEF InBox, Refusing, Named, SingleCalls

-----------------------------------------------------------------------------
(* The client: issuing a request, cancelling it, giving up on a call.      *)
LEMMA IssueKeeps ==
  ASSUME TypeOK, RefusalInv, NEW t \in Tab, NEW c \in Req, Issue(t, c)
  PROVE  RefusalInv'
<1>. DEFINE id == Request(c)
<1>1. /\ id \in Id /\ id.req = c /\ ~IsCancel(id) /\ c \notin Issued
      /\ caller' = [caller EXCEPT ![c] = t] /\ UNCHANGED <<active, result, durable>>
  BY IdParts, KindsOfId DEF Issue, Issued
<1>2. caller'[c] # None /\ \A d \in Req : caller[d] # None => caller'[d] # None
  BY <1>1, NoneAssumption DEF TypeOK
<1>. HIDE DEF id
<1>3. ASSUME NEW ans \in {answer, [answer EXCEPT ![id] = "pending"]}
      PROVE  Enters(t, id, ans)
  <2>1. ans \in [Id -> Answer]
    BY AnswerValues DEF TypeOK
  <2>2. \A i \in Id : ans[i] = answer[i] \/ (i.req = id.req /\ ans[i] \in {"pending", "UNKNOWN_OUTCOME"})
    BY DEF TypeOK
  <2>. QED
    BY <1>1, <1>2, <2>1, <2>2 DEF Enters
<1>. QED
  <2>1. CASE Ingress(t, id, [answer EXCEPT ![id] = "pending"])
    BY <1>3, <2>1, EntersKeeps
  <2>2. CASE Refused(answer, id)
    BY <1>3, <2>2, EntersKeeps
  <2>. QED
    BY <2>1, <2>2 DEF Issue, id

(* Sending a cancellation, also after the deadline of its request.         *)
LEMMA SendCancelKeeps ==
  ASSUME TypeOK, RefusalInv, NEW t \in Tab, NEW c \in Req, c \in Issued,
         NEW ans \in [Id -> Answer],
         \A i \in Id : ans[i] = answer[i] \/ (i.req = c /\ ans[i] = "UNKNOWN_OUTCOME"),
         UNCHANGED <<caller, active, result, durable>>, SendCancel(t, c, ans)
  PROVE  RefusalInv'
<1>. DEFINE id == CancelOf(c)
<1>1. id \in Id /\ id.req = c /\ IsCancel(id) /\ caller'[c] # None
  BY IdParts, KindsOfId DEF Issued
<1>. HIDE DEF id
<1>2. ASSUME NEW now \in {ans, [ans EXCEPT ![id] = "pending"]}
      PROVE  Enters(t, id, now)
  <2>1. now \in [Id -> Answer]
    BY AnswerValues
  <2>2. \A i \in Id : now[i] = answer[i] \/ (i.req = id.req /\ now[i] \in {"pending", "UNKNOWN_OUTCOME"})
    BY <1>1
  <2>. QED
    BY <1>1, <2>1, <2>2 DEF Enters
<1>. QED
  <2>1. CASE Ingress(t, id, [ans EXCEPT ![id] = "pending"])
    BY <1>2, <2>1, EntersKeeps
  <2>2. CASE Refused(ans, id)
    BY <1>2, <2>2, EntersKeeps
  <2>. QED
    BY <2>1, <2>2 DEF SendCancel, id

(* The client's steps keep the invariant.                                  *)
LEMMA ClientKeeps ==
  ASSUME TypeOK, RefusalInv, NEW t \in Tab, Client(t)
  PROVE  RefusalInv'
<1>1. ASSUME NEW c \in Req, Cancel(t, c) PROVE RefusalInv'
  <2>1. c \in Issued
    BY <1>1, NoneAssumption DEF Cancel, Issued
  <2>2. answer \in [Id -> Answer] /\ SendCancel(t, c, answer)
        /\ UNCHANGED <<caller, active, result, durable>>
    BY <1>1 DEF Cancel, TypeOK
  <2>. QED
    BY <2>1, <2>2, SendCancelKeeps
<1>2. ASSUME NEW id \in Id, Timeout(t, id) PROVE RefusalInv'
  <2>. DEFINE ans == [answer EXCEPT ![id] = "UNKNOWN_OUTCOME"]
  <2>1. /\ id.req \in Req /\ id.req \in Issued /\ answer[id] = "pending"
        /\ UNCHANGED <<caller, active, result, durable>>
    BY <1>2, IdParts, NoneAssumption DEF Timeout, Issued
  <2>2. ans \in [Id -> Answer]
        /\ \A i \in Id : ans[i] = answer[i] \/ (i = id /\ ans[i] = "UNKNOWN_OUTCOME")
    BY AnswerValues DEF TypeOK
  <2>3. SendCancel(t, id.req, ans) \/ (answer' = ans /\ UNCHANGED <<waitingVars, queue, aborted, inbox>>)
    BY <1>2 DEF Timeout
  <2>. HIDE DEF ans
  <2>4. CASE SendCancel(t, id.req, ans)
    BY <2>1, <2>2, <2>4, SendCancelKeeps
  <2>5. CASE answer' = ans /\ UNCHANGED <<waitingVars, queue, aborted, inbox>>
    <3>1. \A i \in Id : answer'[i] = answer[i] \/ (answer[i] # "idle" /\ ~Refusal(i, answer'[i]))
      BY <2>1, <2>2, <2>5, Harmless
    <3>. QED
      BY <2>1, <2>5, <3>1, SameBus, StillKeeps DEF waitingVars
  <2>. QED
    BY <2>3, <2>4, <2>5
<1>. QED
  BY <1>1, <1>2, IssueKeeps DEF Client

-----------------------------------------------------------------------------
(* A step that moves waiting requests to one place and refuses nothing.    *)
LEMMA MoveKeeps ==
  ASSUME TypeOK, RefusalInv, UNCHANGED <<caller, durable>>,
         NEW G \in SUBSET Req, \A c \in G : Waits(c),
         NEW k0, NEW t0, Places(G, k0, t0), Works(G), OneTime',
         \A t \in Tab : /\ Refusing(inbox'[t]) \subseteq Refusing(inbox[t])
                        /\ Named(inbox'[t]) \subseteq Named(inbox[t]) \cup Issued \cup {0}
                        /\ heldCancels'[t] \subseteq heldCancels[t],
         \A id \in Id : \/ answer'[id] = answer[id]
                        \/ answer[id] # "idle" /\ ~Refusal(id, answer'[id])
  PROVE  RefusalInv'
<1>1. \A c \in G : c \notin Done /\ ~Rejected(c) /\ c \in Issued
  <2>1. ASSUME NEW c \in G PROVE c \notin Done /\ ~Rejected(c) /\ c \in Issued
    <3>1. PICK k \in Place \ {"active"}, t \in Tab : c \in At(k, t)
      BY <2>1 DEF Waits
    <3>2. c \notin Done /\ ~Rejected(c)
      BY <3>1, WaitingIsOpen
    <3>3. c \in Issued
      BY <3>1 DEF RefusalInv, FreshInv
    <3>. QED
      BY <3>2, <3>3
  <2>. QED
    BY <2>1
<1>2. Says({})
  BY Saying
<1>3. OnePlace' /\ RefusedInv' /\ DoneInv'
  BY <1>1, <1>2, PlacesKeep
<1>4. FreshInv'
  <2>1. Issued' = Issued /\ Done' = Done
    BY DEF Issued, Done, durable
  <2>2. \A k \in Place, t \in Tab : \A c \in At(k, t)' : c \in At(k, t) \/ c \in Issued'
    BY <1>1, <2>1 DEF Places
  <2>. QED
    BY <2>1, <2>2, FreshKeeps
<1>. QED
  BY <1>3, <1>4 DEF RefusalInv

(* Settling pending calls with an answer that refuses nothing.             *)
LEMMA SettledSays ==
  ASSUME TypeOK, NEW ids, NEW value \in {"UNKNOWN_OUTCOME", "FAILED"},
         answer' = Settled(answer, ids, value)
  PROVE  \A id \in Id : \/ answer'[id] = answer[id]
                        \/ answer[id] # "idle" /\ ~Refusal(id, answer'[id])
BY Harmless DEF Settled

(* A message that was taken from a box, and what is left.                  *)
LEMMA TakenBox ==
  ASSUME TypeOK, RefusalInv, NEW r \in Tab, NEW i \in DOMAIN inbox[r]
  PROVE  LET m == inbox[r][i]
             box == [inbox EXCEPT ![r] = RemoveAt(@, i)]
         IN /\ m \in Message /\ box \in [Tab -> Seq(Message)]
            /\ \A t \in Tab : /\ InBox(box[t]) \subseteq InBox(inbox[t]) /\ SingleCalls(box[t])
                              /\ Refusing(box[t]) \subseteq Refusing(inbox[t])
                              /\ Named(box[t]) \subseteq Named(inbox[t])
            /\ \A c \in Req : IsRequestCall(m, c) => c \in InBox(inbox[r]) \ InBox(box[r])
            /\ \A c \in Req : IsRefusal(m, c) => c \in Refusing(inbox[r])
            /\ m.id.req \in Named(inbox[r])
<1>. DEFINE m == inbox[r][i]
            rest == RemoveAt(inbox[r], i)
            box == [inbox EXCEPT ![r] = rest]
<1>1. inbox[r] \in Seq(Message) /\ SingleCalls(inbox[r]) /\ m \in Message
      /\ rest \in Seq(Message)
  BY RemoveAtType DEF TypeOK, RefusalInv, OneTime
<1>2. /\ SingleCalls(rest) /\ InBox(rest) \subseteq InBox(inbox[r])
      /\ \A c \in Req : IsRequestCall(m, c) => c \notin InBox(rest)
      /\ Refusing(rest) \subseteq Refusing(inbox[r]) /\ Named(rest) \subseteq Named(inbox[r])
  BY <1>1, RemoveAtBox
<1>3. \A c \in Req : IsRequestCall(m, c) => c \in InBox(inbox[r])
  BY DEF InBox
<1>4. /\ \A c \in Req : IsRefusal(m, c) => c \in Refusing(inbox[r])
      /\ m.id.req \in Named(inbox[r])
  BY DEF Refusing, Named
<1>. HIDE DEF rest, m
<1>5. box \in [Tab -> Seq(Message)] /\ box[r] = rest /\ \A t \in Tab \ {r} : box[t] = inbox[t]
  BY <1>1 DEF TypeOK
<1>6. \A t \in Tab : SingleCalls(inbox[t])
  BY DEF RefusalInv, OneTime
<1>. HIDE DEF box
<1>7. \A t \in Tab : /\ InBox(box[t]) \subseteq InBox(inbox[t]) /\ SingleCalls(box[t])
                     /\ Refusing(box[t]) \subseteq Refusing(inbox[t])
                     /\ Named(box[t]) \subseteq Named(inbox[t])
  <2>1. ASSUME NEW t \in Tab
        PROVE  /\ InBox(box[t]) \subseteq InBox(inbox[t]) /\ SingleCalls(box[t])
               /\ Refusing(box[t]) \subseteq Refusing(inbox[t])
               /\ Named(box[t]) \subseteq Named(inbox[t])
    <3>1. CASE t = r
      BY <1>2, <1>5, <3>1
    <3>2. CASE t # r
      BY <1>5, <1>6, <3>2
    <3>. QED
      BY <3>1, <3>2
  <2>. QED
    BY <2>1
<1>8. \A c \in Req : IsRequestCall(m, c) => c \in InBox(inbox[r]) \ InBox(box[r])
  BY <1>2, <1>3, <1>5
<1>. QED
  BY <1>1, <1>4, <1>5, <1>7, <1>8 DEF m, box, rest

(* The opened archive takes over what its worker held: its queue is empty. *)
LEMMA OpenOkKeeps ==
  ASSUME TypeOK, ExclusionInv, RefusalInv, NEW t \in Tab, OpenOk(t)
  PROVE  RefusalInv'
<1>. DEFINE G == ToSet(held[t])
<1>1. UNCHANGED <<caller, active, result, aborted, durable>>
  BY DEF OpenOk
<1>2. queue[t] = <<>> /\ active[t] = 0
  BY DEF OpenOk, ExclusionInv, DatabaseOpen, LeftBehind
<1>3. /\ held[t] \in Seq(Req) /\ Single(held[t])
      /\ held'[t] = <<>> /\ queue'[t] = held[t] /\ heldCancels'[t] = {}
      /\ \A u \in Tab \ {t} : /\ held'[u] = held[u] /\ queue'[u] = queue[u]
                              /\ heldCancels'[u] = heldCancels[u]
  BY DEF OpenOk, TypeOK, RefusalInv, OneTime
<1>4. ASSUME NEW u \in Tab
      PROVE  /\ InBox(inbox'[u]) = InBox(inbox[u]) /\ Refusing(inbox'[u]) = Refusing(inbox[u])
             /\ Named(inbox'[u]) \subseteq Named(inbox[u]) \cup {0} /\ SingleCalls(inbox'[u])
  <2>1. inbox' = Broadcast(inbox, t, "owner") /\ inbox \in [Tab -> Seq(Message)]
        /\ SingleCalls(inbox[u])
    BY DEF OpenOk, TypeOK, RefusalInv, OneTime
  <2>. QED
    BY <2>1, BroadcastBox
<1>5. ToSet(<<>>) = {} /\ Single(<<>>)
  BY DEF ToSet, Single
<1>6. \A c \in G : c \in At("held", t) /\ c \in Req
  BY <1>3, AtEach DEF ToSet
<1>7. \A c \in G : /\ Waits(c)
                   /\ \A k \in Place, u \in Tab : c \in At(k, u) => k = "held" /\ u = t
  BY <1>6, WaitingIsOpen DEF Waits, Place
<1>8. ASSUME NEW k \in Place, NEW u \in Tab, NEW c \in At(k, u)'
      PROVE  \/ c \in At(k, u) /\ ~(k = "held" /\ u = t)
             \/ c \in G /\ k = "queue" /\ u = t
  <2>1. CASE u = t
    BY <1>1, <1>2, <1>3, <1>4, <1>5, <1>8, <2>1, AtEach, AtEachNext DEF Place
  <2>2. CASE u # t
    BY <1>1, <1>3, <1>4, <1>8, <2>2, AtEach, AtEachNext DEF Place
  <2>. QED
    BY <2>1, <2>2
<1>9. Places(G, "queue", t)
  BY <1>7, <1>8 DEF Places
<1>10. Works(G)
  BY <1>1 DEF Works
<1>11. OneTime'
  <2>1. ASSUME NEW u \in Tab PROVE Single(held'[u]) /\ Single(queue'[u])
    BY <1>3, <1>5 DEF RefusalInv, OneTime
  <2>. QED
    BY <1>4, <2>1 DEF OneTime
<1>12. \A id \in Id : answer'[id] = answer[id] \/ (answer[id] # "idle" /\ ~Refusal(id, answer'[id]))
  <2>1. \A c \in Req : CancelOutcome(t, c) \in {"committed", "unknown_outcome"}
    BY <1>2 DEF CancelOutcome, Req
  <2>2. \A c \in heldCancels[t] : c \in Req
    BY DEF TypeOK
  <2>. QED
    BY <2>1, <2>2, IdParts, Harmless DEF OpenOk
<1>13. \A u \in Tab : heldCancels'[u] \subseteq heldCancels[u]
  BY <1>3
<1>14. G \in SUBSET Req
  BY <1>6
<1>. HIDE DEF G
<1>. QED
  BY <1>1, <1>4, <1>7, <1>9, <1>10, <1>11, <1>12, <1>13, <1>14, MoveKeeps

(* Election and discovery, apart from the opened archive.                  *)
LEMMA OpenFailsKeeps ==
  ASSUME TypeOK, RefusalInv, NEW t \in Tab, OpenFails(t)
  PROVE  RefusalInv'
<1>1. UNCHANGED <<caller, queue, active, result, aborted, durable>>
  BY DEF OpenFails, ownerVars
<1>2. /\ held'[t] = <<>> /\ heldCancels'[t] = {}
      /\ \A u \in Tab \ {t} : held'[u] = held[u] /\ heldCancels'[u] = heldCancels[u]
  BY DEF OpenFails, NothingWaits, TypeOK
<1>3. ASSUME NEW u \in Tab
      PROVE  /\ InBox(inbox'[u]) \subseteq InBox(inbox[u])
             /\ Refusing(inbox'[u]) \subseteq Refusing(inbox[u])
             /\ Named(inbox'[u]) \subseteq Named(inbox[u]) \cup {0} /\ SingleCalls(inbox'[u])
  <2>1. inbox'[u] = (IF u = t THEN <<>> ELSE Broadcast(inbox, t, "released")[u])
    BY DEF OpenFails, Broadcast
  <2>2. inbox \in [Tab -> Seq(Message)] /\ SingleCalls(inbox[u])
    BY DEF TypeOK, RefusalInv, OneTime
  <2>3. CASE u # t
    <3>1. /\ InBox(Broadcast(inbox, t, "released")[u]) = InBox(inbox[u])
          /\ Refusing(Broadcast(inbox, t, "released")[u]) = Refusing(inbox[u])
          /\ Named(Broadcast(inbox, t, "released")[u]) \subseteq Named(inbox[u]) \cup {0}
          /\ SingleCalls(Broadcast(inbox, t, "released")[u])
      BY <2>2, BroadcastBox
    <3>. QED
      BY <2>1, <2>3, <3>1
  <2>4. CASE u = t
    BY <2>1, <2>4, EmptyBox
  <2>. QED
    BY <2>3, <2>4
<1>4. \A id \in Id : answer'[id] = answer[id] \/ (answer[id] # "idle" /\ ~Refusal(id, answer'[id]))
  BY Harmless DEF OpenFails, Settled
<1>5. \A u \in Tab : Shrinks(u) /\ Single(held'[u]) /\ Single(queue'[u])
                     /\ heldCancels'[u] \subseteq heldCancels[u]
  BY <1>1, <1>2, <1>3 DEF Shrinks, RefusalInv, OneTime, ToSet, Single
<1>6. Works({})
  BY <1>1 DEF Works
<1>. QED
  BY <1>1, <1>3, <1>4, <1>5, <1>6, IdleKeeps

(* Election keeps the invariant.                                           *)
LEMMA ElectionKeeps ==
  ASSUME TypeOK, ExclusionInv, RefusalInv, NEW t \in Tab, Election(t)
  PROVE  RefusalInv'
<1>1. CASE Start(t)
  <2>1. ASSUME NEW u \in Tab
        PROVE  /\ InBox(inbox'[u]) \subseteq InBox(inbox[u]) /\ SingleCalls(inbox'[u])
               /\ Refusing(inbox'[u]) \subseteq Refusing(inbox[u])
               /\ Named(inbox'[u]) \subseteq Named(inbox[u]) \cup {0}
    <3>1. inbox' = Broadcast(inbox, t, "hello") /\ inbox \in [Tab -> Seq(Message)]
          /\ SingleCalls(inbox[u])
      BY <1>1 DEF Start, TypeOK, RefusalInv, OneTime
    <3>. QED
      BY <3>1, BroadcastBox
  <2>2. UNCHANGED <<caller, answer, active, result, aborted, queue, held, heldCancels, durable>>
    BY <1>1 DEF Start, clientVars, waitingVars, ownerVars
  <2>. QED
    BY <2>1, <2>2, StillKeeps
<1>2. CASE Grant(t)
  <2>1. UNCHANGED <<caller, answer, active, result, aborted, queue, held, heldCancels, durable, inbox>>
    BY <1>2 DEF Grant, clientVars, waitingVars, ownerVars
  <2>. QED
    BY <2>1, SameBus, StillKeeps
<1>. QED
  BY <1>1, <1>2, OpenOkKeeps, OpenFailsKeeps DEF Election

-----------------------------------------------------------------------------
(* The channel handler.                                                    *)
LEMMA OwnerFoundKeeps ==
  ASSUME TypeOK, RefusalInv, NEW r \in Tab, NEW next \in Tab,
         NEW box \in [Tab -> Seq(Message)],
         \A t \in Tab : /\ InBox(box[t]) \subseteq InBox(inbox[t]) /\ SingleCalls(box[t])
                        /\ Refusing(box[t]) \subseteq Refusing(inbox[t])
                        /\ Named(box[t]) \subseteq Named(inbox[t]),
         UNCHANGED <<caller, active, result, aborted, queue, durable>>, OwnerFound(r, next, box)
  PROVE  RefusalInv'
<1>. DEFINE G == ToSet(held[r])
<1>1. PICK cancels \in Orders(heldCancels[r]) :
        inbox' = Post(box, next, CallMsgs(r, held[r]) \o CancelMsgs(r, cancels))
  BY DEF OwnerFound
<1>. DEFINE msgs == CallMsgs(r, held[r]) \o CancelMsgs(r, cancels)
<1>2. held[r] \in Seq(Req) /\ Single(held[r]) /\ heldCancels[r] \in SUBSET Req
  BY DEF TypeOK, RefusalInv, OneTime
<1>3. cancels \in Seq(Req) /\ ToSet(cancels) \subseteq heldCancels[r]
  BY <1>2, OrdersType DEF Orders, ToSet
<1>4. /\ msgs \in Seq(Message) /\ InBox(msgs) = G /\ Refusing(msgs) = {} /\ SingleCalls(msgs)
      /\ Named(msgs) = G \cup ToSet(cancels)
  BY <1>2, <1>3, HeldBox
<1>5. \A c \in G : c \in Req /\ c \in At("held", r)
  BY <1>2, AtEach DEF ToSet
<1>6. \A c \in G : /\ Waits(c) /\ c \in Issued
                   /\ \A k \in Place, u \in Tab : c \in At(k, u) => k = "held" /\ u = r
  <2>1. \A c \in G : c \in Issued
    BY <1>5 DEF RefusalInv, FreshInv, Place
  <2>. QED
    BY <1>5, <2>1, WaitingIsOpen DEF Waits, Place
<1>7. ToSet(cancels) \subseteq Issued
  BY <1>3 DEF RefusalInv, FreshInv
<1>8. /\ held'[r] = <<>> /\ heldCancels'[r] = {}
      /\ \A u \in Tab \ {r} : held'[u] = held[u] /\ heldCancels'[u] = heldCancels[u]
  BY DEF OwnerFound, TypeOK
<1>9. inbox' = Post(box, next, msgs)
  BY <1>1
<1>. HIDE DEF msgs, G
<1>10. ASSUME NEW u \in Tab
       PROVE  /\ \A c \in InBox(inbox'[u]) : c \in InBox(inbox[u]) \/ (c \in G /\ u = next)
              /\ Refusing(inbox'[u]) \subseteq Refusing(inbox[u])
              /\ Named(inbox'[u]) \subseteq Named(inbox[u]) \cup Issued
              /\ SingleCalls(inbox'[u])
  <2>1. InBox(box[u]) \cap InBox(msgs) = {}
    <3>1. \A c \in G : c \notin At("bus", u)
      BY <1>6 DEF Place
    <3>. QED
      BY <1>4, <3>1, AtEach
  <2>2. /\ InBox(Post(box, next, msgs)[u]) \subseteq
             InBox(box[u]) \cup (IF u = next THEN InBox(msgs) ELSE {})
        /\ Refusing(Post(box, next, msgs)[u]) \subseteq Refusing(box[u]) \cup Refusing(msgs)
        /\ Named(Post(box, next, msgs)[u]) \subseteq Named(box[u]) \cup Named(msgs)
    BY <1>4, PostBox
  <2>3. SingleCalls(Post(box, next, msgs)[u])
    BY <1>4, <2>1, PostBox
  <2>4. \A c \in InBox(inbox'[u]) : c \in InBox(inbox[u]) \/ (c \in G /\ u = next)
    BY <1>4, <1>9, <2>2
  <2>5. Refusing(inbox'[u]) \subseteq Refusing(inbox[u])
    BY <1>4, <1>9, <2>2
  <2>6. Named(inbox'[u]) \subseteq Named(inbox[u]) \cup Issued
    BY <1>4, <1>6, <1>7, <1>9, <2>2
  <2>. QED
    BY <1>9, <2>3, <2>4, <2>5, <2>6
<1>11. ASSUME NEW k \in Place, NEW u \in Tab, NEW c \in At(k, u)'
       PROVE  \/ c \in At(k, u) /\ ~(k = "held" /\ u = r)
              \/ c \in G /\ k = "bus" /\ u = next
  <2>1. CASE k = "held"
    <3>1. c \in ToSet(held'[u])
      BY <1>11, <2>1, AtEachNext
    <3>2. u # r
      BY <1>8, <3>1 DEF ToSet
    <3>. QED
      BY <1>8, <2>1, <3>1, <3>2, AtEach
  <2>2. CASE k = "bus"
    BY <1>10, <1>11, <2>2, AtEach, AtEachNext
  <2>3. CASE k \in {"queue", "active"}
    BY <1>11, <2>3, AtEach, AtEachNext
  <2>. QED
    BY <2>1, <2>2, <2>3 DEF Place
<1>12. Places(G, "bus", next)
  BY <1>6, <1>11 DEF Places
<1>13. Works(G)
  BY DEF Works
<1>14. OneTime'
  <2>1. ASSUME NEW u \in Tab PROVE Single(held'[u]) /\ Single(queue'[u])
    BY <1>8 DEF RefusalInv, OneTime, Single
  <2>. QED
    BY <1>10, <2>1 DEF OneTime
<1>15. \A id \in Id : answer'[id] = answer[id] \/ (answer[id] # "idle" /\ ~Refusal(id, answer'[id]))
  BY SettledSays DEF OwnerFound
<1>16. \A u \in Tab : heldCancels'[u] \subseteq heldCancels[u]
  BY <1>8
<1>17. G \in SUBSET Req
  BY <1>5
<1>. QED
  BY <1>6, <1>10, <1>12, <1>13, <1>14, <1>15, <1>16, <1>17, MoveKeeps

(* A call arrives at the owner, and is taken from the bus.                 *)
LEMMA ReceiveCallKeeps ==
  ASSUME TypeOK, RefusalInv, NEW r \in Tab, NEW i \in DOMAIN inbox[r], known[r] = r,
         UNCHANGED <<caller, active, result, durable>>,
         ReceiveCall(r, inbox[r][i], [inbox EXCEPT ![r] = RemoveAt(@, i)])
  PROVE  RefusalInv'
<1>. DEFINE m == inbox[r][i]
            box == [inbox EXCEPT ![r] = RemoveAt(@, i)]
            replies == Replies(r, m.id)
            msgs == ReplyMsgs(r, replies)
            N == {q.id.req : q \in {p \in ToSet(replies) : Refusal(p.id, p.value)}}
            c == m.id.req
<1>1. /\ m \in Message /\ box \in [Tab -> Seq(Message)]
      /\ \A t \in Tab : /\ InBox(box[t]) \subseteq InBox(inbox[t]) /\ SingleCalls(box[t])
                        /\ Refusing(box[t]) \subseteq Refusing(inbox[t])
                        /\ Named(box[t]) \subseteq Named(inbox[t])
      /\ \A d \in Req : IsRequestCall(m, d) => d \in InBox(inbox[r]) \ InBox(box[r])
      /\ c \in Named(inbox[r])
  BY TakenBox
<1>. HIDE DEF m, box
<1>2. /\ m.type = "call" /\ m.id \in Id /\ c \in Req /\ c # 0
      /\ queue' = [queue EXCEPT ![r] = NewQueue(r, m.id)]
      /\ aborted' = [aborted EXCEPT ![r] = NewAborted(r, m.id)]
      /\ inbox' = Post(box, m.from, msgs) /\ UNCHANGED <<answer, held, heldCancels>>
  <2>1. ReceiveCall(r, m, box)
    BY DEF m, box
  <2>2. m.type = "call"
    BY <2>1 DEF ReceiveCall
  <2>3. m.id \in Id
    BY <1>1, <2>2, MessageParts
  <2>. QED
    BY <2>1, <2>2, <2>3, IdParts DEF ReceiveCall, waitingVars, Req
<1>3. ~IsCancel(m.id) =>
        /\ c \notin Done /\ ~Rejected(c) /\ c \notin InBox(box[r])
        /\ \A k \in Place, t \in Tab : c \in At(k, t) => k = "bus" /\ t = r
  <2>1. ASSUME ~IsCancel(m.id) PROVE c \in At("bus", r) /\ c \notin InBox(box[r])
    <3>1. IsRequestCall(m, c)
      BY <1>2, <2>1, KindsOfId DEF IsRequestCall
    <3>. QED
      BY <1>1, <1>2, <3>1, AtEach
  <2>. QED
    BY <1>2, <2>1, WaitingIsOpen DEF Place
<1>4. ~IsCancel(m.id) => c \notin ToSet(queue[r])
  BY <1>3, AtEach DEF Place
<1>5. \A q \in ToSet(replies) : q.id.req = c
  BY <1>2, <1>3, <1>4, OwnerAccepts
<1>6. N \in SUBSET Req
  BY <1>2, <1>5
<1>7. /\ msgs \in Seq(Message) /\ InBox(msgs) = {} /\ SingleCalls(msgs) /\ Refusing(msgs) \subseteq N
      /\ Named(msgs) \subseteq {c}
  <2>1. replies \in Seq(Reply)
    BY <1>2, IngressType
  <2>. HIDE DEF replies
  <2>2. Named(msgs) \subseteq {q.id.req : q \in ToSet(replies)}
    BY <2>1, ReplyBox
  <2>3. Named(msgs) \subseteq {c}
    BY <1>5, <2>2
  <2>. QED
    BY <2>1, <2>3, ReplyBox
<1>. HIDE DEF N, msgs
<1>8. ASSUME NEW u \in Tab
      PROVE  /\ InBox(inbox'[u]) \subseteq InBox(box[u])
             /\ Refusing(inbox'[u]) \subseteq Refusing(box[u]) \cup N
             /\ Named(inbox'[u]) \subseteq Named(box[u]) \cup {c}
             /\ SingleCalls(inbox'[u])
  <2>1. /\ InBox(Post(box, m.from, msgs)[u]) \subseteq
             InBox(box[u]) \cup (IF u = m.from THEN InBox(msgs) ELSE {})
        /\ Refusing(Post(box, m.from, msgs)[u]) \subseteq Refusing(box[u]) \cup Refusing(msgs)
        /\ Named(Post(box, m.from, msgs)[u]) \subseteq Named(box[u]) \cup Named(msgs)
    BY ZenonT(60), <1>1, <1>7, PostBox
  <2>2. SingleCalls(Post(box, m.from, msgs)[u])
    <3>1. SingleCalls(box[u]) /\ InBox(box[u]) \cap InBox(msgs) = {}
      BY <1>1, <1>7
    <3>. QED
      BY <1>1, <1>7, <3>1, PostBox
  <2>3. inbox'[u] = Post(box, m.from, msgs)[u]
    BY <1>2
  <2>. QED
    BY <1>7, <2>1, <2>2, <2>3
<1>9. Says(N)
  BY <1>1, <1>2, <1>6, <1>8, Saying
<1>10. /\ OnePlace' /\ RefusedInv' /\ DoneInv'
       /\ \A t \in Tab : Single(queue'[t])
       /\ \A k \in Place, t \in Tab : \A d \in At(k, t)' : d \in At(k, t) \/ d = c
  <2>1. \A t \in Tab : InBox(inbox'[t]) \subseteq InBox(inbox[t])
    BY <1>1, <1>8
  <2>2. ~IsCancel(m.id) => c \notin InBox(inbox'[r])
    BY <1>3, <1>8
  <2>. QED
    BY <1>2, <1>3, <1>9, <2>1, <2>2, OwnerIngress DEF N
<1>11. OneTime'
  BY <1>2, <1>8, <1>10 DEF RefusalInv, OneTime
<1>12. FreshInv'
  <2>1. c \in Issued' /\ Issued' = Issued /\ Done' = Done
    BY <1>1, <1>2 DEF RefusalInv, FreshInv, Issued, Done, durable
  <2>2. \A k \in Place, t \in Tab : \A d \in At(k, t)' : d \in At(k, t) \/ d \in Issued'
    BY <1>10, <2>1
  <2>3. \A t \in Tab : \A d \in Named(inbox'[t]) :
          (\E u \in Tab : d \in Named(inbox[u])) \/ d \in Issued' \/ d = 0
    BY <1>1, <1>8, <2>1
  <2>. QED
    BY <1>2, <2>1, <2>2, <2>3, FreshKeeps
<1>. QED
  BY <1>10, <1>11, <1>12 DEF RefusalInv

(* A reply says what its sender said when it was posted.                   *)
LEMMA ReceiveReplyKeeps ==
  ASSUME TypeOK, RefusalInv, NEW r \in Tab, NEW m \in Message, NEW box,
         m.type = "reply", \A c \in Req : IsRefusal(m, c) => c \in Refusing(inbox[r]),
         \A t \in Tab : /\ InBox(box[t]) \subseteq InBox(inbox[t]) /\ SingleCalls(box[t])
                        /\ Refusing(box[t]) \subseteq Refusing(inbox[t])
                        /\ Named(box[t]) \subseteq Named(inbox[t]),
         UNCHANGED <<caller, active, result, durable>>, ReceiveReply(r, m, box)
  PROVE  RefusalInv'
<1>1. /\ UNCHANGED <<caller, active, result, aborted, queue, held, heldCancels, durable>>
      /\ inbox' = box /\ answer' = Settled(answer, {m.id}, m.value) /\ m.id \in Id
  BY MessageParts DEF ReceiveReply
<1>2. \A t \in Tab : Shrinks(t)
  BY <1>1 DEF Shrinks
<1>3. Places({}, "held", r)
  BY <1>2, ShrinksPlaces
<1>4. \A id \in Id : \/ answer'[id] = answer[id]
                     \/ answer[id] # "idle" /\ id = m.id /\ answer'[id] = m.value
  BY <1>1 DEF Settled
<1>5. Says({})
  <2>1. ASSUME NEW c \in Req, Told(c)' PROVE Rejected(c)
    <3>1. PICK id \in Id : id.req = c /\ Refusal(id, answer'[id])
      BY <2>1 DEF Told
    <3>2. CASE answer'[id] = answer[id]
      BY <3>1, <3>2 DEF Rejected, Told
    <3>3. CASE id = m.id /\ answer'[id] = m.value
      BY <3>1, <3>3 DEF IsRefusal, Rejected
    <3>. QED
      BY <1>4, <3>2, <3>3
  <2>. QED
    BY <1>1, <2>1 DEF Says, Rejected
<1>6. OnePlace' /\ RefusedInv' /\ DoneInv'
  <2>1. Works({})
    BY <1>1 DEF Works
  <2>. QED
    BY <1>3, <1>5, <2>1, PlacesKeep
<1>7. OneTime'
  BY <1>1 DEF RefusalInv, OneTime
<1>8. FreshInv'
  <2>1. Done' = Done
    BY <1>1 DEF Done, durable
  <2>2. \A k \in Place, t \in Tab : \A c \in At(k, t)' : c \in At(k, t)
    BY <1>3 DEF Places
  <2>. QED
    BY <1>1, <1>4, <2>1, <2>2, FreshKeeps
<1>. QED
  BY <1>6, <1>7, <1>8 DEF RefusalInv

(* Handling a message keeps the invariant, whatever the message is.        *)
LEMMA ReceiveKeeps ==
  ASSUME TypeOK, RefusalInv, NEW r \in Tab, Receive(r)
  PROVE  RefusalInv'
<1>1. PICK i \in Deliverable(r) :
        LET m == inbox[r][i]
            box == [inbox EXCEPT ![r] = RemoveAt(@, i)]
        IN \/ ReceiveHello(r, m, box) \/ ReceiveOwner(r, m, box)
           \/ ReceiveReleased(r, m, box) \/ ReceiveCall(r, m, box)
           \/ ReceiveReply(r, m, box)
  BY DEF Receive
<1>. DEFINE m == inbox[r][i]
            box == [inbox EXCEPT ![r] = RemoveAt(@, i)]
<1>2. i \in DOMAIN inbox[r]
  BY DEF Deliverable
<1>3. UNCHANGED <<caller, active, result, durable>>
  BY DEF Receive
<1>4. /\ m \in Message /\ box \in [Tab -> Seq(Message)]
      /\ \A t \in Tab : /\ InBox(box[t]) \subseteq InBox(inbox[t]) /\ SingleCalls(box[t])
                        /\ Refusing(box[t]) \subseteq Refusing(inbox[t])
                        /\ Named(box[t]) \subseteq Named(inbox[t])
      /\ \A c \in Req : IsRefusal(m, c) => c \in Refusing(inbox[r])
  BY <1>2, TakenBox
<1>5. ASSUME known[r] = r, ReceiveCall(r, m, box) PROVE RefusalInv'
  BY <1>2, <1>3, <1>5, ReceiveCallKeeps
<1>. HIDE DEF m, box
<1>6. ASSUME inbox' = box, UNCHANGED <<aborted, queue, held, heldCancels>>,
             \A id \in Id : \/ answer'[id] = answer[id]
                            \/ answer[id] # "idle" /\ ~Refusal(id, answer'[id])
      PROVE  RefusalInv'
  BY <1>3, <1>4, <1>6, StillKeeps
<1>7. CASE ReceiveHello(r, m, box)
  <2>1. UNCHANGED <<answer, aborted, queue, held, heldCancels>>
    BY <1>7 DEF ReceiveHello, waitingVars
  <2>2. CASE inbox' = box
    BY <1>6, <2>1, <2>2
  <2>3. CASE inbox' = Broadcast(box, r, "owner")
    <3>1. ASSUME NEW t \in Tab
          PROVE  /\ InBox(inbox'[t]) \subseteq InBox(inbox[t]) /\ SingleCalls(inbox'[t])
                 /\ Refusing(inbox'[t]) \subseteq Refusing(inbox[t])
                 /\ Named(inbox'[t]) \subseteq Named(inbox[t]) \cup {0}
      <4>1. /\ InBox(Broadcast(box, r, "owner")[t]) = InBox(box[t])
            /\ Refusing(Broadcast(box, r, "owner")[t]) = Refusing(box[t])
            /\ Named(Broadcast(box, r, "owner")[t]) \subseteq Named(box[t]) \cup {0}
            /\ SingleCalls(Broadcast(box, r, "owner")[t])
        BY <1>4, BroadcastBox
      <4>. QED
        BY <1>4, <2>3, <4>1
    <3>. QED
      BY <1>3, <2>1, <3>1, StillKeeps
  <2>. QED
    BY <1>7, <2>2, <2>3 DEF ReceiveHello
<1>8. CASE ReceiveOwner(r, m, box)
  <2>1. CASE OwnerFound(r, m.from, box)
    <3>1. UNCHANGED <<aborted, queue>> /\ m.from \in Tab
      BY <1>4, <1>8, MessageParts DEF ReceiveOwner
    <3>. QED
      BY <1>3, <1>4, <2>1, <3>1, OwnerFoundKeeps
  <2>2. CASE inbox' = box /\ UNCHANGED <<answer, waitingVars>>
    BY <1>6, <1>8, <2>2 DEF ReceiveOwner, waitingVars
  <2>. QED
    BY <1>8, <2>1, <2>2 DEF ReceiveOwner
<1>9. CASE ReceiveReleased(r, m, box)
  <2>1. /\ inbox' = box /\ UNCHANGED <<aborted, queue, held, heldCancels>>
        /\ answer' = answer \/ answer' = Settled(answer, Sent(r), "UNKNOWN_OUTCOME")
    BY <1>9 DEF ReceiveReleased, OwnerLost, waitingVars
  <2>2. \A id \in Id : answer'[id] = answer[id] \/ (answer[id] # "idle" /\ ~Refusal(id, answer'[id]))
    BY <2>1, SettledSays
  <2>. QED
    BY <1>6, <2>1, <2>2
<1>10. CASE ReceiveCall(r, m, box) /\ known[r] # r
  BY <1>6, <1>10 DEF ReceiveCall, waitingVars
<1>11. CASE ReceiveReply(r, m, box)
  <2>1. m.type = "reply"
    BY <1>11 DEF ReceiveReply
  <2>. QED
    BY <1>3, <1>4, <1>11, <2>1, ReceiveReplyKeeps
<1>. QED
  BY <1>1, <1>5, <1>7, <1>8, <1>9, <1>10, <1>11 DEF m, box

-----------------------------------------------------------------------------
(* The owner's drain.                                                      *)
LEMMA BeginKeeps ==
  ASSUME TypeOK, RefusalInv, NEW w \in Tab, Begin(w)
  PROVE  RefusalInv'
<1>. DEFINE c == queue[w][1]
            G == {c}
<1>1. UNCHANGED <<caller, answer, result, aborted, held, heldCancels, inbox, durable>>
  BY DEF Begin, clientVars, waitingVars
<1>2. queue[w] \in Seq(Req) /\ Single(queue[w]) /\ 1 \in DOMAIN queue[w] /\ c \in Req /\ c # 0
  <2>1. queue[w] \in Seq(Req) /\ queue[w] # <<>> /\ Single(queue[w])
    BY DEF Begin, TypeOK, RefusalInv, OneTime
  <2>2. 1 \in DOMAIN queue[w] /\ c \in Req
    BY <2>1
  <2>. QED
    BY <2>1, <2>2 DEF Req
<1>3. /\ queue'[w] = RemoveAt(queue[w], 1) /\ active'[w] = c
      /\ \A u \in Tab \ {w} : queue'[u] = queue[u] /\ active'[u] = active[u]
  BY DEF Begin, NextWork, TypeOK
<1>4. Single(queue'[w]) /\ ToSet(queue'[w]) = ToSet(queue[w]) \ {c}
  BY <1>2, <1>3, RemoveAtSingle
<1>5. c \in At("queue", w)
  BY <1>2, AtEach DEF ToSet
<1>6. Waits(c) /\ \A k \in Place, u \in Tab : c \in At(k, u) => k = "queue" /\ u = w
  BY <1>2, <1>5, WaitingIsOpen DEF Waits, Place
<1>. HIDE DEF c
<1>7. ASSUME NEW k \in Place, NEW u \in Tab, NEW d \in At(k, u)'
      PROVE  \/ d \in At(k, u) /\ ~(d = c /\ k = "queue" /\ u = w)
             \/ d = c /\ k = "active" /\ u = w
  <2>1. CASE k \in {"held", "bus"}
    BY <1>1, <1>7, <2>1, AtEach, AtEachNext
  <2>2. CASE k = "queue"
    <3>1. d \in ToSet(queue'[u])
      BY <1>7, <2>2, AtEachNext
    <3>. QED
      BY <1>3, <1>4, <2>2, <3>1, AtEach
  <2>3. CASE k = "active"
    <3>1. d = active'[u] /\ d # 0
      BY <1>7, <2>3, AtEachNext
    <3>. QED
      BY <1>3, <2>3, <3>1, AtEach
  <2>. QED
    BY <2>1, <2>2, <2>3 DEF Place
<1>8. Places(G, "active", w)
  BY <1>6, <1>7 DEF Places
<1>9. Works(G)
  BY <1>1, <1>3 DEF Works
<1>10. OneTime'
  BY <1>1, <1>3, <1>4 DEF RefusalInv, OneTime
<1>11. G \in SUBSET Req /\ \A d \in G : Waits(d)
  BY <1>2, <1>6
<1>. HIDE DEF G
<1>. QED
  BY <1>1, <1>8, <1>9, <1>10, <1>11, MoveKeeps

(* The effect of a request comes after the last look at its abort signal:  *)
(* it was not refused before, and now has its receipt.                     *)
LEMMA ExecuteKeeps ==
  ASSUME TypeOK, RefusalInv, NEW w \in Tab, Execute(w)
  PROVE  RefusalInv'
<1>. DEFINE c == active[w]
<1>1. /\ UNCHANGED <<caller, answer, active, aborted, queue, held, heldCancels, inbox>>
      /\ result' = [result EXCEPT ![w] = "OK"] /\ c \in Req /\ result[w] = "running"
  BY DEF Execute, Proceeds, Running, clientVars, waitingVars, TypeOK
<1>2. /\ \A k, t : At(k, t)' = At(k, t)
      /\ \A d : Waits(d)' <=> Waits(d)
      /\ \A d : Rejected(d)' <=> Rejected(d)
  BY <1>1 DEF At, Waits, Rejected, Told
<1>3. c \in At("active", w)
  BY <1>1, AtEach DEF Req
<1>4. \A k \in Place, t \in Tab : c \in At(k, t) => k = "active" /\ t = w
  BY <1>1, <1>3 DEF RefusalInv, OnePlace, Place
<1>5. ~Waits(c) /\ c \in Issued
  BY <1>3, <1>4 DEF Waits, RefusalInv, FreshInv, Place
<1>6. /\ committed \subseteq committed' /\ TxnOf[c] \in committed'
      /\ \A d \in Done' : d \in Done \/ (d = c /\ ~HasReceipt(c))
  <2>1. committed' = committed \cup {TxnOf[c]}
    BY DEF Execute
  <2>2. effects' = IF HasReceipt(c) THEN effects ELSE Append(effects, c)
    BY DEF Execute
  <2>3. CASE HasReceipt(c)
    BY <1>1, <2>1, <2>2, <2>3 DEF Done, HasReceipt
  <2>4. CASE ~HasReceipt(c)
    <3>1. effects \in Seq(Req)
      BY DEF TypeOK
    <3>2. ToSet(Append(effects, c)) = ToSet(effects) \cup {c}
      BY <1>1, <3>1, AppendElems
    <3>. QED
      BY <1>1, <2>1, <2>2, <2>4, <3>2 DEF Done, HasReceipt
  <2>. QED
    BY <2>3, <2>4
<1>7. Rejected(c) => HasReceipt(c)
  <2>1. aborted[w] = TRUE => c \notin CommitReq \/ HasReceipt(c)
    BY DEF Execute, Proceeds
  <2>. QED
    BY <1>1, <2>1 DEF RefusalInv, RefusedInv
<1>. HIDE DEF c
<1>8. RefusedInv'
  <2>1. ASSUME NEW d \in Req, Rejected(d)
        PROVE  /\ d \notin Done' /\ ~Waits(d)'
               /\ \A t \in Tab : active'[t] = d =>
                    result'[t] # "running" \/ (aborted'[t] = TRUE /\ d \in CommitReq)
    <3>1. d \notin Done /\ ~Waits(d)
      BY <2>1 DEF RefusalInv, RefusedInv
    <3>2. ASSUME NEW t \in Tab, active'[t] = d
          PROVE  result'[t] # "running" \/ (aborted'[t] = TRUE /\ d \in CommitReq)
      BY <1>1, <2>1, <3>2 DEF RefusalInv, RefusedInv, TypeOK
    <3>. QED
      BY <1>2, <1>6, <1>7, <2>1, <3>1, <3>2
  <2>. QED
    BY <1>2, <2>1 DEF RefusedInv
<1>9. DoneInv'
  <2>1. ASSUME NEW d \in Req, d \in Done'
        PROVE  /\ HasReceipt(d)' /\ ~Waits(d)'
               /\ \A t \in Tab : active'[t] = d => result'[t] \in {"OK", "FAILED"}
    <3>1. HasReceipt(d)' /\ ~Waits(d)
      <4>1. CASE d \in Done
        <5>1. HasReceipt(d) /\ ~Waits(d)
          BY <4>1 DEF RefusalInv, DoneInv
        <5>. QED
          BY <1>6, <5>1 DEF HasReceipt
      <4>2. CASE d = c
        BY <1>5, <1>6, <4>2 DEF HasReceipt
      <4>. QED
        BY <1>6, <2>1, <4>1, <4>2
    <3>2. ASSUME NEW t \in Tab, active'[t] = d
          PROVE  result'[t] \in {"OK", "FAILED"}
      <4>1. CASE t = w
        BY <1>1, <4>1 DEF TypeOK
      <4>2. CASE t # w
        <5>1. result'[t] = result[t] /\ active[t] = d
          BY <1>1, <3>2, <4>2 DEF TypeOK
        <5>2. d # c
          <6>1. d \in At("active", t)
            BY <5>1, AtEach DEF Req
          <6>. QED
            BY <1>4, <4>2, <6>1 DEF Place
        <5>. QED
          BY <1>6, <2>1, <5>1, <5>2 DEF RefusalInv, DoneInv
      <4>. QED
        BY <4>1, <4>2
    <3>. QED
      BY <1>2, <3>1, <3>2
  <2>. QED
    BY <2>1 DEF DoneInv
<1>10. OnePlace' /\ OneTime'
  BY <1>1, <1>2 DEF RefusalInv, OnePlace, OneTime
<1>11. FreshInv'
  <2>1. Issued' = Issued
    BY <1>1 DEF Issued
  <2>2. Done' \subseteq Issued
    BY <1>5, <1>6 DEF RefusalInv, FreshInv
  <2>. QED
    BY <1>1, <1>2, <2>1, <2>2 DEF RefusalInv, FreshInv
<1>. QED
  BY <1>8, <1>9, <1>10, <1>11 DEF RefusalInv

(* A request that was refused, or whose result is replaced by a failure,   *)
(* is over.                                                                *)
LEMMA FailsKeeps ==
  ASSUME TypeOK, RefusalInv, NEW w \in Tab, Refuse(w) \/ GateCloseFails(w)
  PROVE  RefusalInv'
<1>1. UNCHANGED <<caller, answer, active, aborted, queue, held, heldCancels, inbox, durable>>
  BY DEF Refuse, GateCloseFails, clientVars, waitingVars
<1>2. /\ \A k, t : At(k, t)' = At(k, t)
      /\ \A d : (Waits(d)' <=> Waits(d)) /\ (HasReceipt(d)' <=> HasReceipt(d))
      /\ \A d : Rejected(d)' <=> Rejected(d)
      /\ Done' = Done /\ Issued' = Issued
  BY <1>1 DEF At, Waits, Rejected, Told, HasReceipt, Done, Issued, durable
<1>3. /\ \A t \in Tab \ {w} : result'[t] = result[t]
      /\ result'[w] # "running"
      /\ result[w] # "running" => result'[w] = "FAILED"
  BY DEF Refuse, GateCloseFails, Running, TypeOK
<1>4. RefusedInv'
  <2>1. ASSUME NEW d \in Req, Rejected(d), NEW t \in Tab, active'[t] = d
        PROVE  result'[t] # "running" \/ (aborted'[t] = TRUE /\ d \in CommitReq)
    BY <1>1, <1>3, <2>1 DEF RefusalInv, RefusedInv
  <2>2. \A d \in Req : Rejected(d) => d \notin Done /\ ~Waits(d)
    BY DEF RefusalInv, RefusedInv
  <2>. QED
    BY <1>2, <2>1, <2>2 DEF RefusedInv
<1>5. DoneInv'
  <2>1. ASSUME NEW d \in Req, d \in Done, NEW t \in Tab, active'[t] = d
        PROVE  result'[t] \in {"OK", "FAILED"}
    <3>1. result[t] \in {"OK", "FAILED"}
      BY <1>1, <2>1 DEF RefusalInv, DoneInv
    <3>. QED
      BY <1>3, <3>1
  <2>2. \A d \in Req : d \in Done => HasReceipt(d) /\ ~Waits(d)
    BY DEF RefusalInv, DoneInv
  <2>. QED
    BY <1>2, <2>1, <2>2 DEF DoneInv
<1>6. OnePlace' /\ OneTime' /\ FreshInv'
  BY <1>1, <1>2 DEF RefusalInv, OnePlace, OneTime, FreshInv
<1>. QED
  BY <1>4, <1>5, <1>6 DEF RefusalInv

(* A single reply carries no request, and refuses what its answer refuses. *)
LEMMA OneReplyBox ==
  ASSUME NEW from \in Tab, NEW id \in Id, NEW value \in Answer
  PROVE  LET msgs == <<Msg("reply", from, id, value)>>
         IN /\ msgs \in Seq(Message) /\ InBox(msgs) = {} /\ SingleCalls(msgs)
            /\ Refusing(msgs) \subseteq (IF Refusal(id, value) THEN {id.req} ELSE {})
            /\ Named(msgs) = {id.req}
<1>. DEFINE m == Msg("reply", from, id, value)
<1>1. m \in Message /\ m.type = "reply" /\ m.id = id /\ m.value = value
  BY DEF Msg, Message
<1>. HIDE DEF m
<1>2. <<m>> \in Seq(Message) /\ DOMAIN <<m>> = {1} /\ <<m>>[1] = m
  BY <1>1
<1>3. InBox(<<m>>) = {} /\ SingleCalls(<<m>>) /\ Named(<<m>>) = {id.req}
  BY <1>1, <1>2 DEF InBox, SingleCalls, Named, IsRequestCall
<1>4. Refusing(<<m>>) \subseteq (IF Refusal(id, value) THEN {id.req} ELSE {})
  BY <1>1, <1>2 DEF Refusing, IsRefusal
<1>. QED
  BY <1>2, <1>3, <1>4 DEF m

(* The answer that ends a request refuses it only if its effect was not    *)
(* taken.                                                                  *)
LEMMA FinishKeeps ==
  ASSUME TypeOK, RefusalInv, NEW w \in Tab, Finish(w)
  PROVE  RefusalInv'
<1>. DEFINE c == active[w]
            id == Request(c)
            N == IF result[w] = "CANCELLED" THEN {c} ELSE {}
            msgs == <<Msg("reply", w, id, result[w])>>
<1>1. /\ UNCHANGED <<caller, queue, held, heldCancels, durable>>
      /\ c \in Req /\ c # 0 /\ id \in Id /\ id.req = c /\ ~IsCancel(id)
      /\ result[w] \in {"OK", "CANCELLED", "FAILED"} /\ result[w] \in Answer
  BY IdParts, KindsOfId, AnswerValues DEF Finish, TypeOK
<1>2. /\ active'[w] = 0
      /\ \A u \in Tab \ {w} : /\ active'[u] = active[u] /\ result'[u] = result[u]
                              /\ aborted'[u] = aborted[u]
  BY DEF Finish, TypeOK
<1>3. \/ inbox' = inbox /\ answer' = Settled(answer, {id}, result[w])
      \/ inbox' = Post(inbox, caller[c], msgs) /\ answer' = answer
  BY DEF Finish
<1>4. Refusal(id, result[w]) => c \in N
  BY <1>1, Harmless
<1>5. /\ msgs \in Seq(Message) /\ InBox(msgs) = {} /\ SingleCalls(msgs)
      /\ Refusing(msgs) \subseteq N /\ Named(msgs) = {c}
  <2>. HIDE DEF id, N, c
  <2>. QED
    BY <1>1, <1>4, OneReplyBox
<1>6. c \in At("active", w) /\ c \in Issued
  <2>1. c \in At("active", w)
    BY <1>1, AtEach
  <2>. QED
    BY <2>1 DEF RefusalInv, FreshInv, Place
<1>7. \A k \in Place, t \in Tab : c \in At(k, t) => k = "active" /\ t = w
  BY <1>1, <1>6 DEF RefusalInv, OnePlace, Place
<1>8. N # {} => c \notin Done
  BY <1>1 DEF RefusalInv, DoneInv
<1>9. N \in SUBSET Req /\ N \subseteq {c}
  BY <1>1
<1>. HIDE DEF msgs, N, c, id
<1>10. ASSUME NEW u \in Tab
       PROVE  /\ InBox(inbox'[u]) \subseteq InBox(inbox[u]) /\ SingleCalls(inbox'[u])
              /\ Refusing(inbox'[u]) \subseteq Refusing(inbox[u]) \cup N
              /\ Named(inbox'[u]) \subseteq Named(inbox[u]) \cup {c}
  <2>1. SingleCalls(inbox[u]) /\ InBox(inbox[u]) \cap InBox(msgs) = {}
        /\ inbox \in [Tab -> Seq(Message)]
    BY <1>5 DEF RefusalInv, OneTime, TypeOK
  <2>2. CASE inbox' = inbox
    BY <2>1, <2>2
  <2>3. CASE inbox' = Post(inbox, caller[c], msgs)
    <3>1. /\ InBox(Post(inbox, caller[c], msgs)[u]) \subseteq
               InBox(inbox[u]) \cup (IF u = caller[c] THEN InBox(msgs) ELSE {})
          /\ Refusing(Post(inbox, caller[c], msgs)[u]) \subseteq Refusing(inbox[u]) \cup Refusing(msgs)
          /\ Named(Post(inbox, caller[c], msgs)[u]) \subseteq Named(inbox[u]) \cup Named(msgs)
      BY <1>5, <2>1, PostBox
    <3>2. SingleCalls(Post(inbox, caller[c], msgs)[u])
      BY <1>5, <2>1, PostBox
    <3>. QED
      BY <1>5, <2>3, <3>1, <3>2
  <2>. QED
    BY <1>3, <2>2, <2>3
<1>11. ASSUME NEW k \in Place, NEW u \in Tab, NEW d \in At(k, u)'
       PROVE  d \in At(k, u) /\ ~(k = "active" /\ u = w)
  <2>1. CASE k \in {"held", "queue"}
    BY <1>1, <1>11, <2>1, AtEach, AtEachNext
  <2>2. CASE k = "bus"
    BY <1>10, <1>11, <2>2, AtEach, AtEachNext
  <2>3. CASE k = "active"
    <3>1. d = active'[u] /\ d # 0
      BY <1>11, <2>3, AtEachNext
    <3>. QED
      BY <1>2, <2>3, <3>1, AtEach
  <2>. QED
    BY <2>1, <2>2, <2>3 DEF Place
<1>12. ASSUME NEW d \in N PROVE Stopped(d)
  <2>1. d = c /\ c \in Req \ Done
    BY <1>1, <1>8, <1>9, <1>12
  <2>. QED
    BY <1>7, <1>11, <2>1, Left
<1>13. Says(N)
  <2>1. \A i \in Id : answer'[i] = answer[i] \/ ~Refusal(i, answer'[i]) \/ i.req \in N
    BY <1>1, <1>3, <1>4 DEF Settled
  <2>. QED
    BY <1>9, <1>10, <2>1, Saying
<1>14. OnePlace' /\ RefusedInv' /\ DoneInv'
  <2>1. Places({}, "active", w)
    BY <1>11 DEF Places
  <2>2. Works({})
    BY <1>1, <1>2 DEF Works
  <2>. QED
    BY <1>9, <1>12, <1>13, <2>1, <2>2, PlacesKeep
<1>15. OneTime'
  BY <1>1, <1>10 DEF RefusalInv, OneTime
<1>16. FreshInv'
  <2>1. Issued' = Issued /\ Done' = Done
    BY <1>1 DEF Issued, Done, durable
  <2>2. \A i \in Id : answer'[i] # "idle" => answer[i] # "idle" \/ i.req \in Issued'
    BY <1>3 DEF Settled
  <2>3. \A u \in Tab : \A d \in Named(inbox'[u]) :
          (\E q \in Tab : d \in Named(inbox[q])) \/ d \in Issued' \/ d = 0
    BY <1>6, <1>10, <2>1
  <2>4. \A k \in Place, u \in Tab : \A d \in At(k, u)' : d \in At(k, u) \/ d \in Issued'
    BY <1>11
  <2>. QED
    BY <1>1, <2>1, <2>2, <2>3, <2>4, FreshKeeps
<1>. QED
  BY <1>14, <1>15, <1>16 DEF RefusalInv

(* The owner's drain keeps the invariant.                                  *)
LEMMA DrainKeeps ==
  ASSUME TypeOK, RefusalInv, NEW w \in Tab, Drain(w)
  PROVE  RefusalInv'
<1>1. CASE Maintain(w) \/ Maintained(w)
  <2>1. UNCHANGED <<caller, answer, active, result, aborted, queue, held, heldCancels, inbox, durable>>
    BY <1>1 DEF Maintain, Maintained, clientVars, waitingVars
  <2>. QED
    BY <2>1, SameBus, StillKeeps
<1>. QED
  BY <1>1, BeginKeeps, ExecuteKeeps, FailsKeeps, FinishKeeps DEF Drain

-----------------------------------------------------------------------------
(* Close and loss.  What a worker held when it left is nowhere any more.   *)
LEMMA GoneKeeps ==
  ASSUME TypeOK, RefusalInv, NEW t \in Tab, NEW box,
         \A u \in Tab : /\ InBox(box[u]) \subseteq InBox(inbox[u]) /\ SingleCalls(box[u])
                        /\ Refusing(box[u]) \subseteq Refusing(inbox[u])
                        /\ Named(box[u]) \subseteq Named(inbox[u]) \cup {0},
         DOMAIN box = Tab, NEW ans, Gone(t, ans, box),
         ans \in {FinalAnswers(t), Settled(answer, Own(t), "UNKNOWN_OUTCOME")},
         UNCHANGED <<caller, durable>>,
         \/ active'[t] = 0
         \/ active'[t] = active[t] /\ result'[t] = result[t] /\ aborted'[t] = aborted[t],
         queue'[t] = queue[t] \/ queue'[t] = <<>>,
         \A u \in Tab \ {t} : /\ queue'[u] = queue[u] /\ active'[u] = active[u]
                              /\ result'[u] = result[u] /\ aborted'[u] = aborted[u]
  PROVE  RefusalInv'
<1>. DEFINE N == ToSet(held[t])
<1>1. /\ held'[t] = <<>> /\ heldCancels'[t] = {} /\ answer' = ans
      /\ \A u \in Tab \ {t} : held'[u] = held[u] /\ heldCancels'[u] = heldCancels[u]
  BY DEF Gone, NothingWaits, TypeOK
<1>2. ASSUME NEW u \in Tab
      PROVE  /\ InBox(inbox'[u]) \subseteq InBox(inbox[u])
             /\ Refusing(inbox'[u]) \subseteq Refusing(inbox[u])
             /\ Named(inbox'[u]) \subseteq Named(inbox[u]) \cup {0} /\ SingleCalls(inbox'[u])
  <2>1. inbox'[u] = IF u = t THEN <<>> ELSE box[u]
    BY DEF Gone
  <2>. QED
    BY <2>1, EmptyBox
<1>3. \A u \in Tab : Shrinks(u) /\ Single(held'[u]) /\ Single(queue'[u])
                     /\ heldCancels'[u] \subseteq heldCancels[u]
  <2>1. \A u \in Tab : Single(held[u]) /\ Single(queue[u])
    BY DEF RefusalInv, OneTime
  <2>2. ToSet(<<>>) = {} /\ Single(<<>>)
    BY DEF ToSet, Single
  <2>3. ASSUME NEW u \in Tab
        PROVE  /\ held'[u] \in {held[u], <<>>} /\ queue'[u] \in {queue[u], <<>>}
               /\ active'[u] \in {0, active[u]} /\ heldCancels'[u] \subseteq heldCancels[u]
    BY <1>1
  <2>4. ASSUME NEW u \in Tab
        PROVE  /\ Single(held'[u]) /\ ToSet(held'[u]) \subseteq ToSet(held[u])
               /\ Single(queue'[u]) /\ ToSet(queue'[u]) \subseteq ToSet(queue[u])
    BY <2>1, <2>2, <2>3
  <2>. QED
    BY <1>2, <2>3, <2>4 DEF Shrinks
<1>4. Works({})
  BY DEF Works
<1>5. N \in SUBSET Req /\ \A c \in N : c \in At("held", t)
  BY AtEach DEF TypeOK, ToSet
<1>6. ASSUME NEW c \in N PROVE Stopped(c)
  <2>1. c \in Req /\ c \in At("held", t) /\ "held" \in Place /\ "held" # "active"
    BY <1>5, <1>6 DEF Place
  <2>2. c \notin Done /\ \A k \in Place, u \in Tab : c \in At(k, u) => k = "held" /\ u = t
    BY <2>1, WaitingIsOpen
  <2>3. Places({}, "held", t)
    BY <1>3, ShrinksPlaces
  <2>4. \A k \in Place, u \in Tab : c \in At(k, u)' => c \in At(k, u)
    BY <2>3 DEF Places
  <2>5. c \notin At("held", t)'
    BY <1>1, AtEachNext DEF ToSet
  <2>6. \A k \in Place, u \in Tab : c \in At(k, u)' => c \in At(k, u) /\ ~(k = "held" /\ u = t)
    BY <2>4, <2>5
  <2>. QED
    BY <2>1, <2>2, <2>6, Left
<1>7. \A id \in Id : \/ answer'[id] = answer[id]
                     \/ /\ answer[id] # "idle"
                        /\ ~Refusal(id, answer'[id]) \/ id.req \in N
  <2>1. ASSUME NEW id \in Id
        PROVE  \/ answer'[id] = answer[id]
               \/ /\ answer[id] # "idle"
                  /\ \/ answer'[id] = "UNKNOWN_OUTCOME"
                     \/ answer'[id] = "CLOSED" /\ id \in Held(t)
    BY <1>1 DEF FinalAnswers, Settled
  <2>2. ASSUME NEW id \in Held(t), Refusal(id, "CLOSED") PROVE id.req \in N
    <3>1. ~IsCancel(id)
      BY <2>2 DEF Refusal
    <3>2. PICK i \in DOMAIN held[t] : id = Request(held[t][i])
      BY <2>2, <3>1, KindsOfId DEF Held
    <3>. QED
      BY <3>2, KindsOfId DEF ToSet
  <2>. HIDE DEF N
  <2>. QED
    BY <2>1, <2>2, Harmless
<1>. HIDE DEF N
<1>. QED
  BY <1>2, <1>3, <1>4, <1>5, <1>6, <1>7, IdleKeeps

(* Closing, releasing the archive and crashing keep the invariant.         *)
LEMMA LeaveKeeps ==
  ASSUME TypeOK, ExclusionInv, RefusalInv, NEW t \in Tab, Close(t) \/ Release(t) \/ Crash(t)
  PROVE  RefusalInv'
<1>1. DOMAIN inbox = Tab /\ \A u \in Tab : SingleCalls(inbox[u])
  BY DEF TypeOK, RefusalInv, OneTime
<1>2. CASE Close(t) /\ Holds(t)
  <2>1. UNCHANGED <<caller, answer, active, result, aborted, queue, held, heldCancels, durable>>
        /\ inbox' = [inbox EXCEPT ![t] = <<>>]
    BY <1>2 DEF Close, waitingVars, ownerVars
  <2>2. ASSUME NEW u \in Tab
        PROVE  /\ InBox(inbox'[u]) \subseteq InBox(inbox[u]) /\ SingleCalls(inbox'[u])
               /\ Refusing(inbox'[u]) \subseteq Refusing(inbox[u])
               /\ Named(inbox'[u]) \subseteq Named(inbox[u]) \cup {0}
    <3>1. inbox'[u] = IF u = t THEN <<>> ELSE inbox[u]
      BY <1>1, <2>1
    <3>. QED
      BY <1>1, <3>1, EmptyBox
  <2>. QED
    BY <2>1, <2>2, StillKeeps
<1>3. CASE Close(t) /\ ~Holds(t)
  <2>1. /\ Gone(t, FinalAnswers(t), inbox)
        /\ UNCHANGED <<caller, queue, active, result, aborted, durable>>
    BY <1>3 DEF Close, ownerVars
  <2>. QED
    BY <1>1, <2>1, GoneKeeps
<1>4. CASE Release(t)
  <2>. DEFINE box == Broadcast(inbox, t, "released")
  <2>1. /\ Gone(t, FinalAnswers(t), box) /\ DOMAIN box = Tab
        /\ UNCHANGED <<caller, queue, active, result, aborted, durable>>
    BY <1>4 DEF Release, Broadcast
  <2>2. ASSUME NEW u \in Tab
        PROVE  /\ InBox(box[u]) \subseteq InBox(inbox[u]) /\ SingleCalls(box[u])
               /\ Refusing(box[u]) \subseteq Refusing(inbox[u])
               /\ Named(box[u]) \subseteq Named(inbox[u]) \cup {0}
    <3>1. inbox \in [Tab -> Seq(Message)] /\ SingleCalls(inbox[u])
      BY <1>1 DEF TypeOK
    <3>. QED
      BY <3>1, BroadcastBox
  <2>. HIDE DEF box
  <2>. QED
    BY <2>1, <2>2, GoneKeeps
<1>5. CASE Crash(t)
  <2>1. /\ Gone(t, Settled(answer, Own(t), "UNKNOWN_OUTCOME"), inbox)
        /\ UNCHANGED <<caller, durable>> /\ queue'[t] = <<>> /\ active'[t] = 0
        /\ \A u \in Tab \ {t} : /\ queue'[u] = queue[u] /\ active'[u] = active[u]
                                /\ result'[u] = result[u] /\ aborted'[u] = aborted[u]
    BY <1>5 DEF Crash, TypeOK
  <2>. QED
    BY <1>1, <2>1, GoneKeeps
<1>. QED
  BY <1>2, <1>3, <1>4, <1>5

-----------------------------------------------------------------------------
(* The invariant holds initially,                                          *)
LEMMA RefusalInit == Init => RefusalInv
<1>. SUFFICES ASSUME Init PROVE RefusalInv
  OBVIOUS
<1>1. \A t \in Tab : held[t] = <<>> /\ inbox[t] = <<>> /\ queue[t] = <<>> /\ active[t] = 0
                     /\ heldCancels[t] = {}
  BY DEF Init
<1>2. ToSet(<<>>) = {} /\ Single(<<>>)
  BY DEF ToSet, Single
<1>3. \A k \in Place, t \in Tab : At(k, t) = {}
  BY <1>1, <1>2, AtEach, EmptyBox DEF Place
<1>4. \A id \in Id : answer[id] = "idle"
  BY DEF Init
<1>5. Done = {}
  BY <1>2 DEF Init, Done
<1>6. \A c \in Req : ~Rejected(c)
  BY <1>1, <1>4, Harmless, EmptyBox DEF Rejected, Told
<1>7. OnePlace /\ RefusedInv /\ DoneInv
  BY <1>3, <1>5, <1>6 DEF OnePlace, RefusedInv, DoneInv
<1>8. OneTime
  BY <1>1, <1>2, EmptyBox DEF OneTime
<1>9. FreshInv
  BY <1>1, <1>3, <1>4, <1>5, EmptyBox DEF FreshInv
<1>. QED
  BY <1>7, <1>8, <1>9 DEF RefusalInv

(* and every step keeps it.                                                *)
LEMMA RefusalStep == TypeOK /\ ExclusionInv /\ RefusalInv /\ [Next]_vars => RefusalInv'
<1>. SUFFICES ASSUME TypeOK, ExclusionInv, RefusalInv, [Next]_vars
              PROVE  RefusalInv'
  OBVIOUS
<1>1. CASE UNCHANGED vars
  <2>1. UNCHANGED <<caller, answer, active, result, aborted, queue, held, heldCancels, durable, inbox>>
    BY <1>1 DEF vars, clientVars, waitingVars, ownerVars
  <2>. QED
    BY <2>1, SameBus, StillKeeps
<1>2. ASSUME NEW t \in Tab,
             \/ Client(t) \/ Election(t) \/ Receive(t) \/ Drain(t)
             \/ Close(t) \/ Release(t) \/ Crash(t)
      PROVE  RefusalInv'
  BY <1>2, ClientKeeps, ElectionKeeps, ReceiveKeeps, DrainKeeps, LeaveKeeps
<1>. QED
  BY <1>1, <1>2 DEF Next

(* A request whose caller was told that it was cancelled, closed, refused  *)
(* or never sent has not taken effect and never will, however messages,    *)
(* cancellations, owners and their queues interleave.                      *)
THEOREM Finality == Spec => []RefusalIsFinal
<1>1. RefusalInv => RefusalIsFinal
  <2>. SUFFICES ASSUME RefusalInv, NEW c \in ToldNever PROVE c \notin Done
    BY DEF RefusalIsFinal
  <2>1. c \in Req
    BY DEF ToldNever
  <2>2. Request(c) \in Id /\ CancelOf(c) \in Id
    BY <2>1, IdParts
  <2>3. Told(c)
    BY <2>2, KindsOfId DEF ToldNever, Told, Refusal
  <2>. QED
    BY <2>1, <2>3 DEF RefusalInv, RefusedInv, Rejected
<1>. QED
  BY <1>1, Typing, ExclusionInit, ExclusionStep, RefusalInit, RefusalStep, PTL DEF Spec
=============================================================================
