--------------------------- MODULE ArchiveRuntime ---------------------------
(***************************************************************************)
(* The storage workers of one archive, one per tab: election of the owner  *)
(* by Web Lock, forwarding of calls over BroadcastChannel, the owner's     *)
(* serial queue and maintenance, cancellation, deadlines, orderly close    *)
(* and abrupt loss.                                                        *)
(*                                                                         *)
(* packages/storage/src/worker/archive-runtime.ts  (the worker)            *)
(* packages/storage/src/client/archive.ts          (the calling half)      *)
(* packages/storage/src/worker/archive-database.ts (execution of a call)   *)
(*                                                                         *)
(* The client of a tab and its worker share a reliable FIFO port, so a     *)
(* call, its ingress in the worker and its dispatch are one step; what can *)
(* interleave is what crosses tabs, the lock, the database and the timers. *)
(***************************************************************************)
EXTENDS Naturals, FiniteSets, Sequences, SequencesExt

CONSTANTS
  Tab,          \* tabs, each with its own client and worker
  Calls,        \* number of requests issued in a behaviour (bound)
  TxnOf,        \* transaction identity of each request; a retry shares it
  CommitReq,    \* the requests that are canonical commits
  MaxPending,   \* ARCHIVE_MAX_PENDING: client, worker and owner queue limit
  MaxCancels,   \* ARCHIVE_MAX_CANCEL_PENDING
  OpenMayFail,  \* the archive may fail to open under a held owner lock
  GateMayFail,  \* the selection gate may fail to close after an effect
  Prompt,       \* bus messages are handled in posting order and before a
                \* lock granted later has finished opening the archive
  None

Req == 1 .. Calls

ASSUME CallsAssumption == Calls \in Nat
ASSUME CommitAssumption == CommitReq \subseteq Req
ASSUME LimitAssumption == MaxPending \in Nat /\ MaxCancels \in Nat
ASSUME FaultAssumption ==
  OpenMayFail \in BOOLEAN /\ GateMayFail \in BOOLEAN /\ Prompt \in BOOLEAN
ASSUME NoneAssumption == None \notin Tab

(* A request and the cancellation of it are both calls with an identity. A *)
(* request is cancelled at most once (bound).                              *)
Id == [kind : {"request", "cancel"}, req : Req]
Request(c) == [kind |-> "request", req |-> c]
CancelOf(c) == [kind |-> "cancel", req |-> c]
NoId == [kind |-> "none", req |-> 0]

VARIABLES
  (* client *)
  caller,    \* tab that issued a request, None before
  answer,    \* what the client promised for each call
  (* worker; held, heldCancels and sent are its map of waiting calls *)
  phase,     \* off, electing, opening, owner, failed, closed
  closing,   \* close() was called
  known,     \* ownerId: whom this worker takes for the owner
  held,      \* requests waiting for an owner, oldest first
  heldCancels, \* cancellations waiting for an owner
  sent,      \* the owner each dispatched call was sent to, until answered
  queue,     \* owner: accepted requests not started
  active,    \* owner: the request being executed
  result,    \* owner: how far the active request is
  aborted,   \* owner: the active request's abort signal
  gateBroken,\* owner: the selection catalog failed to close
  turn,      \* owner: what its drain is doing, see Turn
  (* environment *)
  inbox,     \* BroadcastChannel messages on their way to each worker
  lock,      \* holder of the archive's owner lock
  committed, \* durable transactions
  effects    \* history: requests in the order their effect took place

clientVars == <<caller, answer>>
waitingVars == <<held, heldCancels, sent>>
ownerVars == <<queue, active, result, aborted, gateBroken, turn>>
durable == <<committed, effects>>
vars == <<clientVars, phase, closing, known, waitingVars, ownerVars, inbox, lock, durable>>

Phase == {"off", "electing", "opening", "owner", "failed", "closed"}
(* The drain serves calls, or there is none (serve); it is in maintenance  *)
(* (maintain); in a closing owner that awaits the drain of its maintenance *)
(* another has started, for calls that came meanwhile, which nobody awaits:*)
(* the first of them still finds the database (again), the others may find *)
(* it closed (abandoned).                                                  *)
Turn == {"serve", "maintain", "again", "abandoned"}
DefiniteFailure == {"CANCELLED", "CLOSED", "OVERLOADED", "FAILED"}
CancelAnswer == {"not_dispatched", "cancelled_before_commit", "committed",
                 "unknown_outcome"}
Answer == {"idle", "pending", "OK", "UNKNOWN_OUTCOME"}
            \cup DefiniteFailure \cup CancelAnswer
Reply == [id : Id, value : Answer]
Message == [type : {"hello", "owner", "released"}, from : Tab, id : {NoId}, value : {"idle"}]
             \cup [type : {"call", "reply"}, from : Tab, id : Id, value : Answer]

Live(t) == phase[t] \in {"electing", "opening", "owner"} /\ ~closing[t]
Holds(t) == phase[t] \in {"opening", "owner"}
DatabaseOpen(t) == phase[t] = "owner"
IsCancel(id) == id.kind = "cancel"
Own(t) == {id \in Id : caller[id.req] = t}
Pending(t, kind) == {id \in Own(t) : id.kind = kind /\ answer[id] = "pending"}
Held(t) == {Request(held[t][i]) : i \in DOMAIN held[t]}
             \cup {CancelOf(c) : c \in heldCancels[t]}
Sent(t) == {id \in Own(t) : sent[id] # None}
Waiting(t) == Held(t) \cup Sent(t)

(* Types: a call waits with at most one owner, the owner runs at most one  *)
(* request, and answers are those of the protocol.                         *)
TypeOK ==
  /\ caller \in [Req -> Tab \cup {None}]
  /\ answer \in [Id -> Answer]
  /\ phase \in [Tab -> Phase]
  /\ closing \in [Tab -> BOOLEAN]
  /\ known \in [Tab -> Tab \cup {None}]
  /\ held \in [Tab -> Seq(Req)]
  /\ heldCancels \in [Tab -> SUBSET Req]
  /\ sent \in [Id -> Tab \cup {None}]
  /\ queue \in [Tab -> Seq(Req)]
  /\ active \in [Tab -> Req \cup {0}]
  /\ result \in [Tab -> {"running", "OK", "CANCELLED", "FAILED"}]
  /\ aborted \in [Tab -> BOOLEAN]
  /\ gateBroken \in [Tab -> BOOLEAN]
  /\ turn \in [Tab -> Turn]
  /\ inbox \in [Tab -> Seq(Message)]
  /\ lock \in Tab \cup {None}
  /\ committed \subseteq {TxnOf[c] : c \in Req}
  /\ effects \in Seq(Req)

Init ==
  /\ caller = [c \in Req |-> None]
  /\ answer = [id \in Id |-> "idle"]
  /\ phase = [t \in Tab |-> "off"]
  /\ closing = [t \in Tab |-> FALSE]
  /\ known = [t \in Tab |-> None]
  /\ held = [t \in Tab |-> <<>>]
  /\ heldCancels = [t \in Tab |-> {}]
  /\ sent = [id \in Id |-> None]
  /\ queue = [t \in Tab |-> <<>>]
  /\ active = [t \in Tab |-> 0]
  /\ result = [t \in Tab |-> "running"]
  /\ aborted = [t \in Tab |-> FALSE]
  /\ gateBroken = [t \in Tab |-> FALSE]
  /\ turn = [t \in Tab |-> "serve"]
  /\ inbox = [t \in Tab |-> <<>>]
  /\ lock = None
  /\ committed = {}
  /\ effects = <<>>

-----------------------------------------------------------------------------
(* Messages.  A broadcast reaches the open channels of the other tabs; a   *)
(* closing worker ignores whatever it still receives.                      *)
Msg(type, from, id, value) ==
  [type |-> type, from |-> from, id |-> id, value |-> value]
Post(box, to, msgs) == IF Live(to) THEN [box EXCEPT ![to] = @ \o msgs] ELSE box
Broadcast(box, from, type) ==
  [r \in Tab |-> IF r # from /\ Live(r)
                 THEN Append(box[r], Msg(type, from, NoId, "idle"))
                 ELSE box[r]]
CallMsg(from, id) == Msg("call", from, id, "idle")
CallMsgs(from, requests) == [i \in DOMAIN requests |-> CallMsg(from, Request(requests[i]))]
CancelMsgs(from, cancels) == [i \in DOMAIN cancels |-> CallMsg(from, CancelOf(cancels[i]))]
ReplyMsgs(from, replies) ==
  [i \in DOMAIN replies |-> Msg("reply", from, replies[i].id, replies[i].value)]

(* Which messages a worker may handle next: the oldest one, or the oldest  *)
(* of any sender when senders are not ordered against each other.          *)
Deliverable(r) ==
  {i \in DOMAIN inbox[r] :
     \A j \in 1 .. i - 1 : ~Prompt /\ inbox[r][j].from # inbox[r][i].from}

(* Answers.  Only a pending call can be answered; late replies are dropped *)
(* (the worker's deliver and the client's reply handler).                  *)
Settled(ans, ids, value) ==
  [id \in Id |-> IF id \in ids /\ ans[id] = "pending" THEN value ELSE ans[id]]
(* MUTANT: answering a call forgets the entry of the map itself. *)
UnsentEntries(ids) == [id \in Id \ ids |-> sent[id]]
Unsent(ids) == [id \in Id |-> IF id \in ids THEN None ELSE sent[id]]

-----------------------------------------------------------------------------
(* The owner's ingress: enqueue() and cancelled().  What it does to the    *)
(* queue and the active request, and what it replies at once.              *)
(* MUTANT: the receipt of a transaction is not looked up. *)
NoReceipt(c) == FALSE
HasReceipt(c) == TxnOf[c] \in committed

Load(w) == Len(queue[w]) + (IF active[w] = 0 THEN 0 ELSE 1)
Queued(w, c) == \E i \in DOMAIN queue[w] : queue[w][i] = c
Position(w, c) == CHOOSE i \in DOMAIN queue[w] : queue[w][i] = c

(* What the cancellation of request c reports when c is not queued here.   *)
CancelOutcome(w, c) ==
  CASE active[w] = c /\ c \in CommitReq ->
         IF HasReceipt(c) THEN "committed" ELSE "cancelled_before_commit"
    [] active[w] # c /\ c \notin CommitReq /\ HasReceipt(c) -> "committed"
    [] OTHER -> "unknown_outcome"
(* MUTANT: cancelling the active request leaves its abort signal alone. *)
NeverAborts(w, c) == FALSE
AbortsActive(w, c) == active[w] = c /\ ~(c \in CommitReq /\ HasReceipt(c))

NewQueue(w, id) ==
  CASE IsCancel(id) /\ Queued(w, id.req) -> RemoveAt(queue[w], Position(w, id.req))
    [] ~IsCancel(id) /\ Load(w) < MaxPending -> Append(queue[w], id.req)
    [] OTHER -> queue[w]
NewAborted(w, id) ==
  aborted[w] \/ (IsCancel(id) /\ ~Queued(w, id.req) /\ AbortsActive(w, id.req))
Answered(id, value) == [id |-> id, value |-> value]
Replies(w, id) ==
  CASE ~IsCancel(id) /\ Load(w) >= MaxPending -> <<Answered(id, "OVERLOADED")>>
    [] IsCancel(id) /\ Queued(w, id.req) ->
         <<Answered(Request(id.req), "CANCELLED"), Answered(id, "cancelled_before_commit")>>
    [] IsCancel(id) /\ ~Queued(w, id.req) -> <<Answered(id, CancelOutcome(w, id.req))>>
    [] OTHER -> <<>>

(* A call enters the worker of its own tab t; ans already holds it as      *)
(* pending.  dispatch() sends it on at once when an owner is known.        *)
Room(t, id) ==
  Cardinality(Waiting(t)) < MaxPending + (IF IsCancel(id) THEN MaxCancels ELSE 0)
IsHeld(t, c) == \E i \in DOMAIN held[t] : held[t][i] = c
HeldAt(t, c) == CHOOSE i \in DOMAIN held[t] : held[t][i] = c

IngressFull(t, id, ans) ==
  /\ ~Room(t, id)
  /\ answer' = [ans EXCEPT ![id] = "OVERLOADED"]
  /\ UNCHANGED <<waitingVars, queue, aborted, inbox>>

IngressNotDispatched(t, id, ans) ==
  /\ Room(t, id)
  /\ IsCancel(id) /\ IsHeld(t, id.req)
  /\ answer' = [Settled(ans, {Request(id.req)}, "CANCELLED")
                  EXCEPT ![id] = "not_dispatched"]
  /\ held' = [held EXCEPT ![t] = RemoveAt(@, HeldAt(t, id.req))]
  /\ UNCHANGED <<heldCancels, sent, queue, aborted, inbox>>

IngressHeld(t, id, ans) ==
  /\ Room(t, id)
  /\ known[t] = None
  /\ \/ /\ ~IsCancel(id)
        /\ held' = [held EXCEPT ![t] = Append(@, id.req)]
        /\ UNCHANGED heldCancels
     \/ /\ IsCancel(id) /\ ~IsHeld(t, id.req)
        /\ heldCancels' = [heldCancels EXCEPT ![t] = @ \cup {id.req}]
        /\ UNCHANGED held
  /\ answer' = ans
  /\ UNCHANGED <<sent, queue, aborted, inbox>>

IngressForwarded(t, id, ans) ==
  /\ Room(t, id)
  /\ known[t] \in Tab \ {t}
  /\ answer' = ans
  /\ sent' = [sent EXCEPT ![id] = known[t]]
  /\ inbox' = Post(inbox, known[t], <<CallMsg(t, id)>>)
  /\ UNCHANGED <<held, heldCancels, queue, aborted>>

(* The owner's own call: accepted, or answered at once.                    *)
IngressLocal(t, id, ans) ==
  /\ Room(t, id)
  /\ known[t] = t
  /\ queue' = [queue EXCEPT ![t] = NewQueue(t, id)]
  /\ aborted' = [aborted EXCEPT ![t] = NewAborted(t, id)]
  /\ LET replies == ToSet(Replies(t, id))
         now == {r.id : r \in replies}
     IN /\ answer' = [i \in Id |-> IF i \in now /\ ans[i] = "pending"
                                  THEN (CHOOSE r \in replies : r.id = i).value
                                  ELSE ans[i]]
        /\ sent' = [i \in Id |-> CASE i \in now -> None
                                   [] i = id /\ i \notin now -> t
                                   [] OTHER -> sent[i]]
  /\ UNCHANGED <<held, heldCancels, inbox>>

Ingress(t, id, ans) ==
  \/ IngressFull(t, id, ans)
  \/ IngressNotDispatched(t, id, ans)
  \/ IngressHeld(t, id, ans)
  \/ IngressForwarded(t, id, ans)
  \/ IngressLocal(t, id, ans)
Refused(ans, id) ==
  /\ answer' = [ans EXCEPT ![id] = "OVERLOADED"]
  /\ UNCHANGED <<waitingVars, queue, aborted, inbox>>

-----------------------------------------------------------------------------
(* The client of tab t.                                                    *)
Issue(t, c) ==
  /\ Live(t)
  /\ caller[c] = None
  /\ \A d \in 1 .. c - 1 : caller[d] # None
  /\ caller' = [caller EXCEPT ![c] = t]
  /\ \/ /\ Cardinality(Pending(t, "request")) < MaxPending
        /\ Ingress(t, Request(c), [answer EXCEPT ![Request(c)] = "pending"])
     \/ /\ Cardinality(Pending(t, "request")) >= MaxPending
        /\ Refused(answer, Request(c))
  /\ UNCHANGED <<phase, closing, known, active, result, gateBroken, turn, lock, durable>>

(* call() of a cancellation, from ans in which nothing is known of it yet. *)
SendCancel(t, c, ans) ==
  \/ /\ Cardinality(Pending(t, "cancel")) < MaxCancels
     /\ Ingress(t, CancelOf(c), [ans EXCEPT ![CancelOf(c)] = "pending"])
  \/ /\ Cardinality(Pending(t, "cancel")) >= MaxCancels
     /\ Refused(ans, CancelOf(c))

Cancel(t, c) ==
  /\ Live(t)
  /\ caller[c] = t
  /\ answer[CancelOf(c)] = "idle"
  /\ SendCancel(t, c, answer)
  /\ UNCHANGED <<caller, phase, closing, known, active, result, gateBroken, turn, lock, durable>>

(* The reply deadline: the client gives up on the call and, when it was a  *)
(* request of an open client, sends a cancellation after it.               *)
Timeout(t, id) ==
  /\ caller[id.req] = t
  /\ answer[id] = "pending"
  /\ LET ans == [answer EXCEPT ![id] = "UNKNOWN_OUTCOME"]
     IN \/ /\ ~IsCancel(id) /\ Live(t) /\ answer[CancelOf(id.req)] = "idle"
           /\ SendCancel(t, id.req, ans)
        \/ /\ IsCancel(id) \/ ~Live(t) \/ answer[CancelOf(id.req)] # "idle"
           /\ answer' = ans
           /\ UNCHANGED <<waitingVars, queue, aborted, inbox>>
  /\ UNCHANGED <<caller, phase, closing, known, active, result, gateBroken, turn, lock, durable>>

-----------------------------------------------------------------------------
(* Election and discovery.                                                 *)
Start(t) ==
  /\ phase[t] = "off"
  /\ phase' = [phase EXCEPT ![t] = "electing"]
  /\ inbox' = Broadcast(inbox, t, "hello")
  /\ UNCHANGED <<clientVars, closing, known, waitingVars, ownerVars, lock, durable>>

(* MUTANT: the lock is requested in shared mode. *)
SharedLock == TRUE
LockFree == lock = None

Grant(t) ==
  /\ LockFree
  /\ phase[t] = "electing" /\ Live(t)
  /\ lock' = t
  /\ phase' = [phase EXCEPT ![t] = "opening"]
  /\ UNCHANGED <<clientVars, closing, known, waitingVars, ownerVars, inbox, durable>>

(* ownerChanged(next) for next other than t: calls sent to anybody else    *)
(* have an unknown outcome, calls not sent yet go to next.  The order of   *)
(* held cancellations among themselves does not matter, nor does theirs    *)
(* against held requests: a cancellation of a held request is not held.    *)
(* MUTANT: calls sent to the previous owner stay as they are. *)
NoneStale(t, next) == {}
Stale(t, next) == {id \in Sent(t) : sent[id] # next}
Orders(S) == {s \in [1 .. Cardinality(S) -> S] : \A i, j \in DOMAIN s : i # j => s[i] # s[j]}

OwnerLost(t, box) ==
  /\ known' = [known EXCEPT ![t] = None]
  /\ answer' = Settled(answer, Sent(t), "UNKNOWN_OUTCOME")
  /\ sent' = Unsent(Sent(t))
  /\ inbox' = box
  /\ UNCHANGED <<held, heldCancels>>

OwnerFound(t, next, box) ==
  /\ known' = [known EXCEPT ![t] = next]
  /\ answer' = Settled(answer, Stale(t, next), "UNKNOWN_OUTCOME")
  /\ sent' = [id \in Id |-> CASE id \in Held(t) -> next
                              [] id \in Stale(t, next) \ Held(t) -> None
                              [] OTHER -> sent[id]]
  /\ \E cancels \in Orders(heldCancels[t]) :
       inbox' = Post(box, next, CallMsgs(t, held[t]) \o CancelMsgs(t, cancels))
  /\ held' = [held EXCEPT ![t] = <<>>]
  /\ heldCancels' = [heldCancels EXCEPT ![t] = {}]

(* The archive is open: ownerChanged(self), announce, start draining.  The *)
(* worker's own queue is still empty, so it accepts everything it held     *)
(* (never more than its limit); held cancellations find nothing to cancel. *)
OpenOk(t) ==
  /\ phase[t] = "opening" /\ ~closing[t]
  /\ Prompt => inbox[t] = <<>>
  /\ phase' = [phase EXCEPT ![t] = "owner"]
  /\ known' = [known EXCEPT ![t] = t]
  /\ LET cancels == {CancelOf(c) : c \in heldCancels[t]}
     IN /\ answer' = [id \in Id |->
             CASE answer[id] = "pending" /\ id \in cancels -> CancelOutcome(t, id.req)
               [] answer[id] = "pending" /\ id \in Stale(t, t) \ cancels -> "UNKNOWN_OUTCOME"
               [] OTHER -> answer[id]]
        /\ sent' = [id \in Id |->
             CASE id \in Held(t) \ cancels -> t
               [] id \in Stale(t, t) \ Held(t) -> None
               [] OTHER -> sent[id]]
  /\ queue' = [queue EXCEPT ![t] = held[t]]
  /\ held' = [held EXCEPT ![t] = <<>>]
  /\ heldCancels' = [heldCancels EXCEPT ![t] = {}]
  /\ inbox' = Broadcast(inbox, t, "owner")
  /\ UNCHANGED <<caller, closing, active, result, aborted, gateBroken, turn, lock, durable>>

(* Nothing waits in a worker that is gone.                                 *)
NothingWaits(t) ==
  /\ held' = [held EXCEPT ![t] = <<>>]
  /\ heldCancels' = [heldCancels EXCEPT ![t] = {}]
  /\ sent' = Unsent(Own(t))

(* Opening fails while the tab wants the archive: fail() rejects every     *)
(* waiting call with the fatal error, the client whatever else it has      *)
(* pending, and the lock is given back.                                    *)
OpenFails(t) ==
  /\ OpenMayFail
  /\ phase[t] = "opening" /\ ~closing[t]
  /\ phase' = [phase EXCEPT ![t] = "failed"]
  /\ answer' = Settled(Settled(answer, Waiting(t), "FAILED"), Own(t), "UNKNOWN_OUTCOME")
  /\ NothingWaits(t)
  /\ known' = [known EXCEPT ![t] = None]
  /\ inbox' = [Broadcast(inbox, t, "released") EXCEPT ![t] = <<>>]
  /\ lock' = None
  /\ UNCHANGED <<caller, closing, ownerVars, durable>>

-----------------------------------------------------------------------------
(* The channel handler of worker r.                                        *)
(* MUTANT: an owner does not introduce itself to a tab that starts later. *)
NeverIntroduces(r) == FALSE
Introduces(r) == DatabaseOpen(r) /\ known[r] = r

ReceiveHello(r, m, box) ==
  /\ m.type = "hello"
  /\ inbox' = IF Introduces(r) THEN Broadcast(box, r, "owner") ELSE box
  /\ UNCHANGED <<answer, known, waitingVars, queue, aborted>>

ReceiveOwner(r, m, box) ==
  /\ m.type = "owner"
  /\ \/ known[r] # m.from /\ OwnerFound(r, m.from, box)
     \/ known[r] = m.from /\ inbox' = box /\ UNCHANGED <<answer, known, waitingVars>>
  /\ UNCHANGED <<queue, aborted>>

ReceiveReleased(r, m, box) ==
  /\ m.type = "released"
  /\ \/ known[r] = m.from /\ OwnerLost(r, box)
     \/ known[r] # m.from /\ inbox' = box /\ UNCHANGED <<answer, known, waitingVars>>
  /\ UNCHANGED <<queue, aborted>>

ReceiveCall(r, m, box) ==
  /\ m.type = "call"
  /\ \/ /\ known[r] = r
        /\ queue' = [queue EXCEPT ![r] = NewQueue(r, m.id)]
        /\ aborted' = [aborted EXCEPT ![r] = NewAborted(r, m.id)]
        /\ inbox' = Post(box, m.from, ReplyMsgs(r, Replies(r, m.id)))
     \/ known[r] # r /\ inbox' = box /\ UNCHANGED <<queue, aborted>>
  /\ UNCHANGED <<answer, known, waitingVars>>

ReceiveReply(r, m, box) ==
  /\ m.type = "reply"
  /\ answer' = Settled(answer, {m.id}, m.value)
  /\ sent' = Unsent({m.id})
  /\ inbox' = box
  /\ UNCHANGED <<known, held, heldCancels, queue, aborted>>

Receive(r) ==
  /\ Live(r)
  /\ \E i \in Deliverable(r) :
       LET m == inbox[r][i]
           box == [inbox EXCEPT ![r] = RemoveAt(@, i)]
       IN \/ ReceiveHello(r, m, box)
          \/ ReceiveOwner(r, m, box)
          \/ ReceiveReleased(r, m, box)
          \/ ReceiveCall(r, m, box)
          \/ ReceiveReply(r, m, box)
  /\ UNCHANGED <<caller, phase, closing, active, result, gateBroken, turn, lock, durable>>

-----------------------------------------------------------------------------
(* The owner's drain: one request at a time, in order of arrival.          *)
(* MUTANT: the newest request is taken first. *)
NewestWork(w) == Len(queue[w])
NextWork(w) == 1

Begin(w) ==
  /\ turn[w] # "maintain"
  /\ active[w] = 0 /\ queue[w] # <<>>
  /\ active' = [active EXCEPT ![w] = queue[w][NextWork(w)]]
  /\ queue' = [queue EXCEPT ![w] = RemoveAt(@, NextWork(w))]
  /\ UNCHANGED <<clientVars, phase, closing, known, waitingVars, result, aborted,
                 gateBroken, turn, inbox, lock, durable>>

Running(w) == active[w] # 0 /\ result[w] = "running"

(* A known transaction is answered from its receipt.  A new one takes      *)
(* effect in one synchronous step after the last look at the abort signal; *)
(* other operations look at the signal only where they choose to.          *)
(* MUTANT: a commit does not look at the abort signal again. *)
ProceedsAborted(w) == Running(w)
Proceeds(w) == Running(w) /\ (aborted[w] => active[w] \notin CommitReq \/ HasReceipt(active[w]))

Execute(w) ==
  LET c == active[w]
  IN /\ Proceeds(w) /\ DatabaseOpen(w) /\ ~gateBroken[w]
     /\ result' = [result EXCEPT ![w] = "OK"]
     /\ committed' = committed \cup {TxnOf[c]}
     /\ effects' = IF HasReceipt(c) THEN effects ELSE Append(effects, c)
     /\ UNCHANGED <<clientVars, phase, closing, known, waitingVars, queue, active,
                    aborted, gateBroken, turn, inbox, lock>>

(* Execution throws before any effect: refused by validation, the          *)
(* selection fence, a conflict, quota, or the abort signal; and whatever   *)
(* the call is, when the catalog or the database is no longer there.       *)
Lost(w) == gateBroken[w] \/ turn[w] = "abandoned"

Refuse(w) ==
  /\ Running(w)
  /\ ~HasReceipt(active[w]) \/ Lost(w)
  /\ result' = [result EXCEPT ![w] = IF aborted[w] /\ ~Lost(w) THEN "CANCELLED" ELSE "FAILED"]
  /\ UNCHANGED <<clientVars, phase, closing, known, waitingVars, queue, active,
                 aborted, gateBroken, turn, inbox, lock, durable>>

(* guard() runs the effect inside the selection gate and closes the        *)
(* catalog afterwards; a failing close replaces the effect's result, and   *)
(* the catalog stays unavailable to this worker.                           *)
GateCloseFails(w) ==
  /\ GateMayFail
  /\ active[w] # 0 /\ result[w] = "OK"
  /\ result' = [result EXCEPT ![w] = "FAILED"]
  /\ gateBroken' = [gateBroken EXCEPT ![w] = TRUE]
  /\ UNCHANGED <<clientVars, phase, closing, known, waitingVars, queue, active,
                 aborted, turn, inbox, lock, durable>>

Finish(w) ==
  /\ active[w] # 0 /\ result[w] # "running"
  /\ LET id == Request(active[w])
         s == caller[active[w]]
     IN \/ /\ s = w
           /\ answer' = Settled(answer, {id}, result[w])
           /\ sent' = Unsent({id})
           /\ UNCHANGED inbox
        \/ /\ s # w
           /\ inbox' = Post(inbox, s, <<Msg("reply", w, id, result[w])>>)
           /\ UNCHANGED <<answer, sent>>
  /\ active' = [active EXCEPT ![w] = 0]
  /\ result' = [result EXCEPT ![w] = "running"]
  /\ aborted' = [aborted EXCEPT ![w] = FALSE]
  /\ turn' = [turn EXCEPT ![w] = IF @ = "again" THEN "abandoned" ELSE @]
  /\ UNCHANGED <<caller, phase, closing, known, held, heldCancels, queue, gateBroken, lock, durable>>

(* With nothing queued the drain may turn to maintenance: an idle timer,   *)
(* or the first drain after opening.  Calls that arrive in it wait.  When  *)
(* it ends with calls waiting another drain starts; a closing owner awaits *)
(* the one it found, and its own last turn in the selection gate comes     *)
(* right after the first call of the new one.                              *)
Drained(t) == active[t] = 0 /\ queue[t] = <<>>

Maintain(w) ==
  /\ DatabaseOpen(w) /\ ~closing[w]
  /\ Drained(w) /\ turn[w] = "serve"
  /\ turn' = [turn EXCEPT ![w] = "maintain"]
  /\ UNCHANGED <<clientVars, phase, closing, known, waitingVars, queue, active, result,
                 aborted, gateBroken, inbox, lock, durable>>

Maintained(w) ==
  /\ turn[w] = "maintain"
  /\ turn' = [turn EXCEPT ![w] = IF closing[w] /\ queue[w] # <<>> THEN "again" ELSE "serve"]
  /\ \E broken \in {FALSE, GateMayFail} :
       gateBroken' = [gateBroken EXCEPT ![w] = @ \/ broken]
  /\ UNCHANGED <<clientVars, phase, closing, known, waitingVars, queue, active, result,
                 aborted, inbox, lock, durable>>

-----------------------------------------------------------------------------
(* Close and loss.                                                         *)
(* What is left in the worker is answered: never sent, or of unknown       *)
(* outcome; then the client rejects whatever it still has pending.         *)
FinalAnswers(t) ==
  Settled(Settled(answer, Held(t), "CLOSED"), Own(t), "UNKNOWN_OUTCOME")

Gone(t, ans, box) ==
  /\ phase' = [phase EXCEPT ![t] = "closed"]
  /\ answer' = ans
  /\ NothingWaits(t)
  /\ known' = [known EXCEPT ![t] = None]
  /\ inbox' = [box EXCEPT ![t] = <<>>]
  /\ lock' = IF lock = t THEN None ELSE lock

Close(t) ==
  /\ Live(t)
  /\ closing' = [closing EXCEPT ![t] = TRUE]
  /\ IF Holds(t)
     THEN /\ inbox' = [inbox EXCEPT ![t] = <<>>]
          /\ UNCHANGED <<phase, answer, waitingVars, known, lock>>
     ELSE Gone(t, FinalAnswers(t), inbox)
  /\ UNCHANGED <<caller, ownerVars, durable>>

(* The owner leaves when the drain it awaits has ended: SQLite closes, the *)
(* release is announced and the lock is free.  Calls that only a later     *)
(* drain takes up stay behind; it finds no database.                       *)
Release(t) ==
  /\ Holds(t) /\ closing[t] /\ turn[t] # "maintain"
  /\ Drained(t) \/ turn[t] = "abandoned"
  /\ Gone(t, FinalAnswers(t), Broadcast(inbox, t, "released"))
  /\ gateBroken' = [gateBroken EXCEPT ![t] = FALSE]
  /\ UNCHANGED <<caller, closing, queue, active, result, aborted, turn, durable>>

(* The worker ends abruptly: tab closed, worker terminated after the five  *)
(* second close deadline, or a crash.  The browser frees the lock, SQLite  *)
(* drops what was not committed, the client reports an unknown outcome.    *)
Crash(t) ==
  /\ phase[t] \in {"electing", "opening", "owner", "failed"}
  /\ Gone(t, Settled(answer, Own(t), "UNKNOWN_OUTCOME"), inbox)
  /\ closing' = [closing EXCEPT ![t] = TRUE]
  /\ queue' = [queue EXCEPT ![t] = <<>>]
  /\ active' = [active EXCEPT ![t] = 0]
  /\ result' = [result EXCEPT ![t] = "running"]
  /\ aborted' = [aborted EXCEPT ![t] = FALSE]
  /\ gateBroken' = [gateBroken EXCEPT ![t] = FALSE]
  /\ turn' = [turn EXCEPT ![t] = "serve"]
  /\ UNCHANGED <<caller, durable>>

-----------------------------------------------------------------------------
Client(t) ==
  \/ \E c \in Req : Issue(t, c) \/ Cancel(t, c)
  \/ \E id \in Id : Timeout(t, id)
Election(t) == Start(t) \/ Grant(t) \/ OpenOk(t) \/ OpenFails(t)
Drain(w) ==
  \/ Begin(w) \/ Execute(w) \/ Refuse(w) \/ GateCloseFails(w) \/ Finish(w)
  \/ Maintain(w) \/ Maintained(w)

Next == \E t \in Tab :
          \/ Client(t) \/ Election(t) \/ Receive(t) \/ Drain(t)
          \/ Close(t) \/ Release(t) \/ Crash(t)

Spec == Init /\ [][Next]_vars

(* The lock manager grants a free lock, the event loops run what is queued *)
(* on them, execution of a call and a maintenance turn end.  Nothing makes *)
(* a tab start, issue, cancel, time out, maintain, close or crash.         *)
Fairness ==
  \A t \in Tab :
    /\ WF_vars(Grant(t))
    /\ WF_vars(OpenOk(t) \/ OpenFails(t))
    /\ WF_vars(Receive(t))
    /\ WF_vars(/\ DatabaseOpen(t)
               /\ Begin(t) \/ Execute(t) \/ Refuse(t) \/ Finish(t) \/ Maintained(t))
    /\ WF_vars(Release(t))
FairSpec == Spec /\ Fairness

-----------------------------------------------------------------------------
(* SQLite is open only in the one worker that holds the owner lock, and    *)
(* calls wait or run only there, whether an owner leaves with its work     *)
(* done or dies: the one exception are the calls a closing owner left to a *)
(* drain that it does not await.                                           *)
WorkUnderLock ==
  \A t \in Tab : DatabaseOpen(t) \/ (~Drained(t) /\ turn[t] # "abandoned")
                   => lock = t /\ DatabaseOpen(t)

(* What callers were told: a request is done, or will never take effect,   *)
(* by its own answer or by that of its cancellation.                       *)
ToldDone == {c \in Req : answer[Request(c)] = "OK" \/ answer[CancelOf(c)] = "committed"}
ToldNever ==
  {c \in Req : \/ answer[Request(c)] \in {"CANCELLED", "CLOSED", "OVERLOADED"}
               \/ answer[CancelOf(c)] \in {"not_dispatched", "cancelled_before_commit"}}
Done == ToSet(effects)

(* Telling a caller that its request was cancelled, refused or never sent  *)
(* is final: neither before nor after such an answer does that request     *)
(* take effect, whatever owner it was sent to and however messages,        *)
(* cancellation and the owner's queue interleave.                          *)
RefusalIsFinal == Done \cap ToldNever = {}

(* An error other than UNKNOWN_OUTCOME is never reported for a request     *)
(* that took effect.                                                       *)
FailureMeansNoEffect == \A c \in Done : answer[Request(c)] # "FAILED"

(* The archive keeps the promises of OnceService: every step of the        *)
(* workers, the bus, the lock and the clients is a step of that service.   *)
Once == INSTANCE OnceService
          WITH Caller <- Tab, Txn <- {TxnOf[c] : c \in Req}, Nobody <- None,
               did <- Done, durable <- committed, yes <- ToldDone, no <- ToldNever
KeepsPromises == Once!Spec

(* "The owner holds the Web Lock until queued work drains"                 *)
(* (docs/decisions/0002-opfs-worker-ownership.md:19).  The code does not   *)
(* keep this when an owner closes during a maintenance turn while calls    *)
(* wait for that turn to end; the README tells how.                        *)
DrainedBeforeRelease == [][\A t \in Tab : Release(t) => Drained(t)]_vars

(* What a worker still has to do, deadlines and idle maintenance aside:    *)
(* the guards of Fairness.                                                 *)
HasWork(t) ==
  \/ phase[t] = "electing" /\ Live(t) /\ lock = None
  \/ phase[t] = "opening" /\ ~closing[t] /\ (Prompt => inbox[t] = <<>>)
  \/ Live(t) /\ inbox[t] # <<>>
  \/ DatabaseOpen(t) /\ ~Drained(t)
  \/ Holds(t) /\ closing[t] /\ Drained(t)

(* The archive never falls silent on a caller: when no worker has anything *)
(* left to do, no call is waiting for an answer (so none waits for a reply *)
(* nobody sends, or for an owner nobody elects), and every open tab knows  *)
(* the owner that serves.                                                  *)
SilentMeansSettled ==
  (\A t \in Tab : ~HasWork(t)) =>
    /\ \A id \in Id : answer[id] # "pending"
    /\ \A t, w \in Tab : Live(t) /\ Live(w) /\ DatabaseOpen(w) => known[t] = w

(* Every call is answered without help from its deadline, through any      *)
(* sequence of owners closing, crashing and taking over.                   *)
EveryCallAnswered ==
  \A id \in Id : answer[id] = "pending" ~> answer[id] # "pending"

(* A tab that stays open ends up forwarding to the owner that stays.       *)
OwnerDiscovered ==
  \A t, w \in Tab :
    <>[](Live(t) /\ Live(w) /\ DatabaseOpen(w)) => <>[](known[t] = w)
=============================================================================
