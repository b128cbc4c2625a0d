----------------------- MODULE ArchiveProgressProofs -----------------------
(***************************************************************************)
(* That the archive never falls silent on a caller, for any number of      *)
(* tabs, requests and limits: whoever waits for an answer waits for        *)
(* something a worker still has to do.  Bus messages are taken to be       *)
(* handled as Prompt says; without it a tab may forward to an owner that   *)
(* is gone.                                                                *)
(***************************************************************************)
EXTENDS ArchiveRuntimeProofs

Notice(type, from) == Msg(type, from, NoId, "idle")
ReplyMsg(from, id, value) == Msg("reply", from, id, value)

-----------------------------------------------------------------------------
(* The bus.  A call comes from the tab that issued it, a reply carries an  *)
(* answer, an owner announces itself once it has the archive open and its  *)
(* release once it is gone.                                                *)
Begun == {"owner", "failed", "closed"}
Over == {"failed", "closed"}
Proper ==
  {m \in Message :
     /\ m.type = "call" => m = CallMsg(caller[m.id.req], m.id)
     /\ m.type = "reply" => m.value \notin {"idle", "pending"}
     /\ m.type = "owner" => phase[m.from] \in Begun
     /\ m.type = "released" => phase[m.from] \in Over}

BusInv ==
  /\ \A r \in Tab : inbox[r] \in Seq(Proper)
  /\ \A r \in Tab : ~Live(r) => inbox[r] = <<>>
  /\ \A t \in Tab : known[t] # None => phase[known[t]] \in Begun
  /\ \A t \in Tab : \A c \in ToSet(held[t]) \cup heldCancels[t] : caller[c] = t
  /\ \A t \in Tab : closing[t] => phase[t] \in {"opening"} \cup Begun
  /\ \A t \in Tab : lock = t => Holds(t)

-----------------------------------------------------------------------------
(* Discovery.  The owner knows itself; any other open tab knows the owner  *)
(* that serves or is about to: its greeting or the owner's announcement is *)
(* on the way, and no older announcement comes after it.                   *)
Serves(w) == Live(w) /\ DatabaseOpen(w)
LastWord(w, box) ==
  \A i \in DOMAIN box : box[i].type = "owner" /\ box[i].from # w =>
    \E j \in DOMAIN box : i < j /\ box[j] = Notice("owner", w)
Finds(t, w) ==
  \/ known[t] = w
  \/ Notice("owner", w) \in ToSet(inbox[t])
  \/ Notice("hello", t) \in ToSet(inbox[w])

DiscoveryInv ==
  /\ \A w \in Tab : DatabaseOpen(w) =>
       known[w] = w /\ \A m \in ToSet(inbox[w]) : m.type # "owner"
  /\ \A t, w \in Tab : t # w /\ Live(t) /\ Serves(w) => Finds(t, w) /\ LastWord(w, inbox[t])

-----------------------------------------------------------------------------
(* Calls.  A call waits for an owner to be found, or was sent to the owner *)
(* its tab knows; if that owner serves, the call is on its way there,      *)
(* queued or running, or its reply is on the way back.                     *)
UnderWay(w, id) ==
  \/ ~IsCancel(id) /\ (id.req \in ToSet(queue[w]) \/ active[w] = id.req)
  \/ CallMsg(caller[id.req], id) \in ToSet(inbox[w])
  \/ \E v \in Answer : ReplyMsg(w, id, v) \in ToSet(inbox[caller[id.req]])

Accounted(id, t) ==
  /\ phase[t] \in {"electing", "opening", "owner"}
  /\ \/ known[t] = None /\ id \in Held(t)
     \/ known[t] # None /\ sent[id] = known[t] /\ (Serves(known[t]) => UnderWay(known[t], id))
CallsInv == \A id \in Id : answer[id] = "pending" =>
              caller[id.req] # None /\ Accounted(id, caller[id.req])

ProgressInv == BusInv /\ DiscoveryInv /\ CallsInv

-----------------------------------------------------------------------------
(* What a box holds when a message is taken out of it,                     *)
LEMMA RemoveSet ==
  ASSUME NEW S, NEW s \in Seq(S), NEW i \in DOMAIN s
  PROVE  /\ ToSet(RemoveAt(s, i)) \subseteq ToSet(s)
         /\ ToSet(s) \subseteq ToSet(RemoveAt(s, i)) \cup {s[i]}
<1>. DEFINE r == RemoveAt(s, i)
            f(k) == IF k < i THEN k ELSE k + 1
<1>1. i \in 1 .. Len(s) /\ Len(s) \in Nat /\ DOMAIN s = 1 .. Len(s)
  OBVIOUS
<1>2. DOMAIN r = 1 .. Len(s) - 1 /\ \A k \in DOMAIN r : r[k] = s[f(k)]
  BY RemoveAtElems
<1>. HIDE DEF r
<1>3. \A k \in DOMAIN r : f(k) \in DOMAIN s
  BY <1>1, <1>2
<1>4. ASSUME NEW k \in DOMAIN s, k # i
      PROVE  \E l \in DOMAIN r : f(l) = k
  <2>1. CASE k < i
    BY <1>1, <1>2, <2>1
  <2>2. CASE k > i
    <3>1. k - 1 \in DOMAIN r /\ f(k - 1) = k
      BY <1>1, <1>2, <2>2
    <3>. QED
      BY <3>1
  <2>. QED
    BY <1>1, <1>4, <2>1, <2>2
<1>. HIDE DEF f
<1>5. ToSet(r) \subseteq ToSet(s)
  BY <1>2, <1>3 DEF ToSet
<1>6. ToSet(s) \subseteq ToSet(r) \cup {s[i]}
  BY <1>2, <1>4 DEF ToSet
<1>. QED
  BY <1>5, <1>6 DEF r

(* and when others are put behind what it held.                            *)
LEMMA ConcatSet ==
  ASSUME NEW S, NEW s \in Seq(S), NEW u \in Seq(S)
  PROVE  ToSet(s \o u) = ToSet(s) \cup ToSet(u)
<1>. DEFINE r == s \o u
<1>1. /\ Len(s) \in Nat /\ DOMAIN s = 1 .. Len(s)
      /\ Len(u) \in Nat /\ DOMAIN u = 1 .. Len(u)
  OBVIOUS
<1>2. /\ DOMAIN r = 1 .. Len(s) + Len(u)
      /\ \A k \in DOMAIN r : r[k] = IF k <= Len(s) THEN s[k] ELSE u[k - Len(s)]
  BY ConcatProperties
<1>. HIDE DEF r
<1>3. \A k \in DOMAIN r : \/ k \in DOMAIN s /\ r[k] = s[k]
                          \/ k - Len(s) \in DOMAIN u /\ r[k] = u[k - Len(s)]
  BY <1>1, <1>2
<1>4. \A k \in DOMAIN s : k \in DOMAIN r /\ r[k] = s[k]
  BY <1>1, <1>2
<1>5. \A k \in DOMAIN u : k + Len(s) \in DOMAIN r /\ r[k + Len(s)] = u[k]
  BY <1>1, <1>2
<1>6. ToSet(r) = ToSet(s) \cup ToSet(u)
  BY <1>3, <1>4, <1>5 DEF ToSet
<1>. QED
  BY <1>6 DEF r

LEMMA OneMoreSet ==
  ASSUME NEW S, NEW s \in Seq(S), NEW x \in S
  PROVE  s \o <<x>> \in Seq(S) /\ ToSet(s \o <<x>>) = ToSet(s) \cup {x}
<1>. DEFINE u == <<x>>
<1>1. u \in Seq(S) /\ ToSet(u) = {x}
  BY DEF ToSet
<1>. HIDE DEF u
<1>2. s \o u \in Seq(S) /\ ToSet(s \o u) = ToSet(s) \cup {x}
  BY <1>1, ConcatSet, ConcatProperties
<1>. QED
  BY <1>2 DEF u

(* The last word of an owner stays the last when the oldest message is     *)
(* taken,                                                                  *)
LEMMA LastWordRemove ==
  ASSUME NEW w, NEW box \in Seq(Message), 1 \in DOMAIN box, LastWord(w, box)
  PROVE  LastWord(w, RemoveAt(box, 1))
<1>. DEFINE r == RemoveAt(box, 1)
<1>1. Len(box) \in Nat /\ DOMAIN box = 1 .. Len(box)
  OBVIOUS
<1>2. DOMAIN r = 1 .. Len(box) - 1 /\ \A k \in DOMAIN r : r[k] = box[IF k < 1 THEN k ELSE k + 1]
  BY RemoveAtElems
<1>. HIDE DEF r
<1>3. \A k \in DOMAIN r : k \in Nat /\ k + 1 \in DOMAIN box /\ r[k] = box[k + 1]
  BY <1>1, <1>2
<1>4. ASSUME NEW i \in DOMAIN r, r[i].type = "owner", r[i].from # w
      PROVE  \E j \in DOMAIN r : i < j /\ r[j] = Notice("owner", w)
  <2>1. PICK k \in DOMAIN box : i + 1 < k /\ box[k] = Notice("owner", w)
    BY <1>3, <1>4 DEF LastWord
  <2>2. k - 1 \in DOMAIN r /\ i < k - 1 /\ k - 1 + 1 = k
    BY <1>1, <1>2, <1>3, <2>1
  <2>. QED
    BY <1>3, <2>1, <2>2
<1>5. LastWord(w, r)
  BY <1>4 DEF LastWord
<1>. QED
  BY <1>5 DEF r

(* when others than owners speak after it,                                 *)
LEMMA LastWordConcat ==
  ASSUME NEW w, NEW box \in Seq(Message), NEW msgs \in Seq(Direct), LastWord(w, box)
  PROVE  LastWord(w, box \o msgs)
<1>. DEFINE r == box \o msgs
<1>1. /\ Len(box) \in Nat /\ DOMAIN box = 1 .. Len(box)
      /\ Len(msgs) \in Nat /\ DOMAIN msgs = 1 .. Len(msgs)
      /\ \A k \in DOMAIN msgs : msgs[k].type # "owner"
  BY DEF Direct
<1>2. /\ DOMAIN r = 1 .. Len(box) + Len(msgs)
      /\ \A k \in DOMAIN r : r[k] = IF k <= Len(box) THEN box[k] ELSE msgs[k - Len(box)]
  <2>1. msgs \in Seq(Message)
    BY DEF Direct
  <2>. QED
    BY <2>1, ConcatProperties
<1>. HIDE DEF r
<1>3. \A k \in DOMAIN r : \/ k \in DOMAIN box /\ r[k] = box[k]
                          \/ k - Len(box) \in DOMAIN msgs /\ r[k] = msgs[k - Len(box)]
  BY <1>1, <1>2
<1>4. \A k \in DOMAIN box : k \in DOMAIN r /\ r[k] = box[k]
  BY <1>1, <1>2
<1>5. LastWord(w, r)
  BY <1>1, <1>3, <1>4 DEF LastWord
<1>. QED
  BY <1>5 DEF r

(* and an owner that announces itself has it.                              *)
LEMMA LastWordSaid ==
  ASSUME NEW w, NEW box \in Seq(Message)
  PROVE  LastWord(w, Append(box, Notice("owner", w)))
<1>. DEFINE r == Append(box, Notice("owner", w))
<1>1. Len(box) \in Nat /\ DOMAIN r = 1 .. Len(box) + 1 /\ r[Len(box) + 1] = Notice("owner", w)
  OBVIOUS
<1>. HIDE DEF r
<1>2. r[Len(box) + 1].from = w
  BY <1>1 DEF Notice, Msg
<1>3. \A i \in DOMAIN r : r[i].from # w => i < Len(box) + 1
  BY <1>1, <1>2
<1>4. LastWord(w, r)
  BY <1>1, <1>3 DEF LastWord
<1>. QED
  BY <1>4 DEF r

(* Posting puts messages behind what an open channel holds,                *)
LEMMA PostIs ==
  ASSUME NEW box \in [Tab -> Seq(Message)], NEW to, NEW msgs \in Seq(Message), NEW r \in Tab
  PROVE  Post(box, to, msgs)[r] = IF r = to /\ Live(to) THEN box[r] \o msgs ELSE box[r]
BY DEF Post

(* and a broadcast puts one notice behind what the others hold.            *)
LEMMA BroadcastIs ==
  ASSUME NEW box \in [Tab -> Seq(Message)], NEW from \in Tab,
         NEW type \in {"hello", "owner", "released"}, NEW r \in Tab
  PROVE  /\ Notice(type, from) \in Message /\ <<Notice(type, from)>> \in Seq(Message)
         /\ Broadcast(box, from, type)[r] =
              IF r # from /\ Live(r) THEN box[r] \o <<Notice(type, from)>> ELSE box[r]
<1>1. Notice(type, from) \in Message
  BY DEF Notice, Msg, Message
<1>2. Append(box[r], Notice(type, from)) = box[r] \o <<Notice(type, from)>>
  BY <1>1, AppendIsConcat
<1>3. <<Notice(type, from)>> \in Seq(Message)
  BY <1>1
<1>. QED
  BY <1>1, <1>2, <1>3 DEF Broadcast, Notice

LEMMA InboxBroadcast ==
  ASSUME TypeOK, NEW from \in Tab, NEW type \in {"hello", "owner", "released"}
  PROVE  /\ Broadcast(inbox, from, type) \in [Tab -> Seq(Message)]
         /\ \A r \in Tab : Broadcast(inbox, from, type)[r] =
              IF r # from /\ Live(r) THEN inbox[r] \o <<Notice(type, from)>> ELSE inbox[r]
<1>1. inbox \in [Tab -> Seq(Message)]
  BY DEF TypeOK
<1>. QED
  BY <1>1, BroadcastIs, BroadcastType

(* When messages are handled in the order of their posting, the first one  *)
(* is handled.                                                             *)
LEMMA FirstIsTaken ==
  ASSUME TypeOK, Prompt, NEW r \in Tab, NEW i \in Deliverable(r)
  PROVE  i = 1 /\ 1 \in DOMAIN inbox[r]
<1>1. inbox[r] \in Seq(Message) /\ i \in DOMAIN inbox[r]
  BY DEF TypeOK, Deliverable
<1>2. i \in 1 .. Len(inbox[r]) /\ Len(inbox[r]) \in Nat
  BY <1>1
<1>3. \A j \in 1 .. i - 1 : FALSE
  BY DEF Deliverable
<1>4. i = 1
  <2>1. CASE i # 1
    <3>1. 1 \in 1 .. i - 1
      BY <1>2, <2>1
    <3>. QED
      BY <1>3, <3>1
  <2>. QED
    BY <2>1
<1>. QED
  BY <1>1, <1>4

(* What is proper stays so: nobody issues a request twice, and a worker    *)
(* that opened the archive, or is gone, has.                               *)
Onward ==
  /\ \A c \in Req : caller[c] # None => caller'[c] = caller[c]
  /\ \A t \in Tab : phase[t] \in Begun => phase'[t] \in Begun
  /\ \A t \in Tab : phase[t] \in Over => phase'[t] \in Over

LEMMA ProperStays ==
  ASSUME TypeOK, Onward, NEW m \in Proper
  PROVE  m \in Proper'
<1>1. m \in Message /\ m.from \in Tab
  BY DEF Proper, Message
<1>2. CASE m.type = "call"
  <2>1. m.id \in Id /\ m = CallMsg(caller[m.id.req], m.id)
    BY <1>1, <1>2 DEF Proper, Message
  <2>2. m.from = caller[m.id.req] /\ m.id.req \in Req
    BY <2>1, IdParts DEF CallMsg, Msg
  <2>3. caller'[m.id.req] = caller[m.id.req]
    BY <1>1, <2>2, NoneAssumption DEF Onward
  <2>. QED
    BY <1>1, <1>2, <2>1, <2>3 DEF Proper, CallMsg
<1>3. CASE m.type # "call"
  BY <1>1, <1>3 DEF Proper, Onward
<1>. QED
  BY <1>2, <1>3

LEMMA ProperBox ==
  ASSUME TypeOK, Onward, NEW s \in Seq(Proper)
  PROVE  s \in Seq(Proper')
<1>1. \A i \in 1 .. Len(s) : s[i] \in Proper'
  BY ProperStays
<1>. QED
  BY <1>1

(* Every step goes onward.                                                 *)
LEMMA Onwards ==
  ASSUME TypeOK, [Next]_vars
  PROVE  Onward
<1>. USE DEF Begun, Over, clientVars
<1>1. CASE UNCHANGED vars
  BY <1>1 DEF vars, Onward
<1>2. ASSUME NEW t \in Tab, Client(t)
      PROVE  Onward
  <2>1. ASSUME NEW c \in Req, Issue(t, c)
        PROVE  Onward
    BY <2>1 DEF Issue, Onward, TypeOK
  <2>2. ASSUME NEW c \in Req, Cancel(t, c)
        PROVE  Onward
    BY <2>2 DEF Cancel, Onward
  <2>3. ASSUME NEW id \in Id, Timeout(t, id)
        PROVE  Onward
    BY <2>3 DEF Timeout, Onward
  <2>. QED
    BY <1>2, <2>1, <2>2, <2>3 DEF Client
<1>3. ASSUME NEW t \in Tab, Election(t)
      PROVE  Onward
  BY <1>3 DEF Election, Start, Grant, OpenOk, OpenFails, Onward, TypeOK
<1>4. ASSUME NEW t \in Tab, Receive(t)
      PROVE  Onward
  BY <1>4 DEF Receive, Onward
<1>5. ASSUME NEW t \in Tab, Drain(t)
      PROVE  Onward
  BY <1>5 DEF Drain, Begin, Execute, Refuse, GateCloseFails, Finish, Maintain, Maintained, Onward
<1>6. ASSUME NEW t \in Tab, Close(t) \/ Release(t) \/ Crash(t)
      PROVE  Onward
  <2>1. caller' = caller
    BY <1>6 DEF Close, Release, Crash
  <2>2. CASE Close(t)
    BY <2>1, <2>2 DEF Close, Gone, Live, Onward, TypeOK
  <2>3. CASE Release(t) \/ Crash(t)
    BY <2>1, <2>3 DEF Release, Crash, Gone, Onward, TypeOK
  <2>. QED
    BY <1>6, <2>2, <2>3
<1>. QED
  BY <1>1, <1>2, <1>3, <1>4, <1>5, <1>6 DEF Next

(* The held calls of each worker are its own.                              *)
HeldAreOwn == \A t \in Tab : \A c \in ToSet(held[t]) \cup heldCancels[t] : caller[c] = t

(* A step that only adds calls and replies to open channels leaves the     *)
(* election, and what workers know of it, alone.                           *)
Chat == Proper \cap Direct
Adds(box) == \A r \in Tab : \E msgs \in Seq(Chat') :
               /\ inbox'[r] = box[r] \o msgs
               /\ ~Live(r) => inbox'[r] = box[r]

LEMMA ChatTypes ==
  ASSUME NEW msgs \in Seq(Chat')
  PROVE  msgs \in Seq(Direct) /\ msgs \in Seq(Proper') /\ msgs \in Seq(Message)
BY DEF Chat, Direct, Proper

LEMMA AddsTalk ==
  ASSUME TypeOK, TypeOK', BusInv, Onward, UNCHANGED <<phase, closing, known, lock>>,
         Adds(inbox), HeldAreOwn'
  PROVE  BusInv'
<1>1. ASSUME NEW r \in Tab
      PROVE  inbox'[r] \in Seq(Proper')
  <2>1. PICK msgs \in Seq(Chat') : inbox'[r] = inbox[r] \o msgs
    BY DEF Adds
  <2>2. inbox[r] \in Seq(Proper')
    BY ProperBox DEF BusInv
  <2>3. msgs \in Seq(Proper')
    BY ChatTypes
  <2>. QED
    BY <2>1, <2>2, <2>3, ConcatProperties
<1>2. \A r \in Tab : ~Live(r)' => inbox'[r] = <<>>
  BY DEF BusInv, Adds, Live
<1>. QED
  BY <1>1, <1>2 DEF BusInv, HeldAreOwn, Live, Holds

LEMMA AddsFind ==
  ASSUME TypeOK, TypeOK', DiscoveryInv, UNCHANGED <<phase, closing, known>>, Adds(inbox)
  PROVE  DiscoveryInv'
<1>1. ASSUME NEW r \in Tab
      PROVE  \E msgs \in Seq(Direct) : /\ inbox'[r] = inbox[r] \o msgs
                                       /\ ToSet(inbox'[r]) = ToSet(inbox[r]) \cup ToSet(msgs)
                                       /\ \A m \in ToSet(msgs) : m.type # "owner"
  <2>1. PICK msgs \in Seq(Chat') : inbox'[r] = inbox[r] \o msgs
    BY DEF Adds
  <2>2. msgs \in Seq(Direct) /\ msgs \in Seq(Message)
    BY ChatTypes
  <2>3. inbox[r] \in Seq(Message)
    BY DEF TypeOK
  <2>4. ToSet(inbox'[r]) = ToSet(inbox[r]) \cup ToSet(msgs)
    BY <2>1, <2>2, <2>3, ConcatSet
  <2>5. \A m \in ToSet(msgs) : m.type # "owner"
    BY <2>2 DEF ToSet, Direct
  <2>. QED
    BY <2>1, <2>2, <2>4, <2>5
<1>2. ASSUME NEW w \in Tab, DatabaseOpen(w)'
      PROVE  known'[w] = w /\ \A m \in ToSet(inbox'[w]) : m.type # "owner"
  <2>1. known[w] = w /\ \A m \in ToSet(inbox[w]) : m.type # "owner"
    BY <1>2 DEF DiscoveryInv, DatabaseOpen
  <2>. QED
    BY <1>1, <2>1
<1>3. ASSUME NEW t \in Tab, NEW w \in Tab, t # w, Live(t)', Serves(w)'
      PROVE  Finds(t, w)' /\ LastWord(w, inbox'[t])
  <2>1. Finds(t, w) /\ LastWord(w, inbox[t])
    BY <1>3 DEF DiscoveryInv, Live, Serves, DatabaseOpen
  <2>2. inbox[t] \in Seq(Message)
    BY DEF TypeOK
  <2>3. LastWord(w, inbox'[t])
    BY <1>1, <2>1, <2>2, LastWordConcat
  <2>4. ToSet(inbox[t]) \subseteq ToSet(inbox'[t]) /\ ToSet(inbox[w]) \subseteq ToSet(inbox'[w])
    BY <1>1
  <2>5. Finds(t, w)'
    BY <2>1, <2>4 DEF Finds
  <2>. QED
    BY <2>3, <2>5
<1>. QED
  BY <1>2, <1>3 DEF DiscoveryInv

(* A worker that leaves, or begins to, is not there to find or to be found *)
(* any more; the others may be told that it released the archive.          *)
Leaves(t) ==
  /\ ~Live(t)' /\ (DatabaseOpen(t)' => DatabaseOpen(t) /\ known'[t] = known[t])
  /\ closing'[t] => phase'[t] \in {"opening"} \cup Begun
  /\ known'[t] \in {None, known[t]}
  /\ \A r \in Tab \ {t} : /\ phase'[r] = phase[r] /\ closing'[r] = closing[r] /\ known'[r] = known[r]
                          /\ \/ inbox'[r] = inbox[r]
                             \/ /\ inbox'[r] = inbox[r] \o <<Notice("released", t)>>
                                /\ Live(r) /\ phase'[t] \in Over
  /\ inbox'[t] = <<>>
  /\ lock' \in {None, lock} /\ (lock' = t => Holds(t)')

LEMMA LeavesTalk ==
  ASSUME TypeOK, TypeOK', BusInv, Onward, NEW t \in Tab, Leaves(t), HeldAreOwn'
  PROVE  BusInv'
<1>1. ASSUME NEW r \in Tab
      PROVE  inbox'[r] \in Seq(Proper')
  <2>1. CASE inbox'[r] = <<>>
    BY <2>1
  <2>2. CASE inbox'[r] = inbox[r]
    BY <2>2, ProperBox DEF BusInv
  <2>3. CASE inbox'[r] = inbox[r] \o <<Notice("released", t)>> /\ phase'[t] \in Over
    <3>1. Notice("released", t) \in Proper'
      BY <2>3 DEF Notice, Msg, Message, Proper
    <3>2. inbox[r] \in Seq(Proper')
      BY ProperBox DEF BusInv
    <3>. QED
      BY <2>3, <3>1, <3>2, ConcatProperties
  <2>. QED
    BY <2>1, <2>2, <2>3 DEF Leaves
<1>2. \A r \in Tab : ~Live(r)' => inbox'[r] = <<>>
  <2>1. ASSUME NEW r \in Tab \ {t}, ~Live(r)'
        PROVE  inbox'[r] = <<>>
    <3>1. ~Live(r)
      BY <2>1 DEF Leaves, Live
    <3>. QED
      BY <3>1 DEF BusInv, Leaves
  <2>. QED
    BY <2>1 DEF Leaves
<1>3. \A r \in Tab : known'[r] # None => phase'[known'[r]] \in Begun
  <2>1. \A r \in Tab : known'[r] # None => known'[r] = known[r] /\ known[r] \in Tab
    BY DEF Leaves, TypeOK
  <2>. QED
    BY <2>1 DEF BusInv, Onward
<1>4. \A r \in Tab : closing'[r] => phase'[r] \in {"opening"} \cup Begun
  BY DEF Leaves, BusInv
<1>5. \A r \in Tab : lock' = r => Holds(r)'
  BY NoneAssumption DEF Leaves, BusInv, Holds
<1>. QED
  BY <1>1, <1>2, <1>3, <1>4, <1>5 DEF BusInv, HeldAreOwn

LEMMA LeavesFind ==
  ASSUME TypeOK, TypeOK', DiscoveryInv, NEW t \in Tab, Leaves(t)
  PROVE  DiscoveryInv'
<1>1. ASSUME NEW r \in Tab \ {t}
      PROVE  /\ ToSet(inbox[r]) \subseteq ToSet(inbox'[r])
             /\ \A m \in ToSet(inbox'[r]) : m \in ToSet(inbox[r]) \/ m.type # "owner"
             /\ \A w : LastWord(w, inbox[r]) => LastWord(w, inbox'[r])
  <2>1. CASE inbox'[r] = inbox[r]
    BY <2>1
  <2>2. CASE inbox'[r] = inbox[r] \o <<Notice("released", t)>>
    <3>1. <<Notice("released", t)>> \in Seq(Direct) /\ <<Notice("released", t)>> \in Seq(Message)
      BY DEF Notice, Msg, Message, Direct
    <3>2. inbox[r] \in Seq(Message)
      BY DEF TypeOK
    <3>4. Notice("released", t).type # "owner"
      BY DEF Notice, Msg
    <3>5. ToSet(inbox'[r]) = ToSet(inbox[r]) \cup {Notice("released", t)}
      <4>1. Notice("released", t) \in Message
        BY DEF Notice, Msg, Message
      <4>. QED
        BY <2>2, <3>2, <4>1, OneMoreSet
    <3>. QED
      BY <2>2, <3>1, <3>2, <3>4, <3>5, LastWordConcat
  <2>. QED
    BY <2>1, <2>2 DEF Leaves
<1>2. ASSUME NEW w \in Tab, DatabaseOpen(w)'
      PROVE  known'[w] = w /\ \A m \in ToSet(inbox'[w]) : m.type # "owner"
  <2>1. CASE w = t
    <3>1. known[w] = w
      BY <1>2, <2>1 DEF DiscoveryInv, Leaves
    <3>2. ToSet(inbox'[w]) = {}
      BY <2>1 DEF Leaves, ToSet
    <3>. QED
      BY <1>2, <2>1, <3>1, <3>2 DEF Leaves
  <2>2. CASE w # t
    <3>1. DatabaseOpen(w)
      BY <1>2, <2>2 DEF Leaves, DatabaseOpen
    <3>. QED
      BY <1>1, <2>2, <3>1 DEF DiscoveryInv, Leaves
  <2>. QED
    BY <2>1, <2>2
<1>3. ASSUME NEW r \in Tab, NEW w \in Tab, r # w, Live(r)', Serves(w)'
      PROVE  Finds(r, w)' /\ LastWord(w, inbox'[r])
  <2>1. r # t /\ w # t
    BY <1>3 DEF Leaves, Serves
  <2>2. Live(r) /\ Serves(w)
    BY <1>3, <2>1 DEF Leaves, Serves, Live, DatabaseOpen
  <2>3. Finds(r, w) /\ LastWord(w, inbox[r])
    BY <1>3, <2>2 DEF DiscoveryInv
  <2>. QED
    BY <1>1, <2>1, <2>3 DEF Finds, Leaves
<1>. QED
  BY <1>2, <1>3 DEF DiscoveryInv

LEMMA NothingAdded ==
  ASSUME TypeOK, UNCHANGED inbox
  PROVE  Adds(inbox)
<1>1. ASSUME NEW r \in Tab
      PROVE  inbox'[r] = inbox[r] \o <<>>
  BY DEF TypeOK
<1>2. <<>> \in Seq(Chat')
  OBVIOUS
<1>. QED
  BY <1>1, <1>2 DEF Adds

LEMMA PostAdds ==
  ASSUME NEW box \in [Tab -> Seq(Message)], NEW to, NEW msgs \in Seq(Chat'),
         inbox' = Post(box, to, msgs)
  PROVE  Adds(box)
<1>1. msgs \in Seq(Message) /\ <<>> \in Seq(Chat')
  BY ChatTypes
<1>2. ASSUME NEW r \in Tab
      PROVE  \E more \in Seq(Chat') : inbox'[r] = box[r] \o more /\ (~Live(r) => inbox'[r] = box[r])
  <2>1. inbox'[r] = IF r = to /\ Live(to) THEN box[r] \o msgs ELSE box[r]
    BY <1>1, PostIs
  <2>2. box[r] = box[r] \o <<>>
    OBVIOUS
  <2>. QED
    BY <1>1, <2>1, <2>2
<1>. QED
  BY <1>2 DEF Adds

(* Calls of one's own and replies are chat.                                *)
LEMMA CallsAreChat ==
  ASSUME NEW t \in Tab
  PROVE  /\ \A id \in Id : caller'[id.req] = t => CallMsg(t, id) \in Chat'
         /\ \A id \in Id, v \in Answer \ {"idle", "pending"} : ReplyMsg(t, id, v) \in Chat'
<1>1. ASSUME NEW id \in Id, caller'[id.req] = t
      PROVE  CallMsg(t, id) \in Chat'
  <2>1. CallMsg(t, id) \in Message
    BY CallMsgType
  <2>. QED
    BY <1>1, <2>1 DEF CallMsg, Msg, Chat, Direct, Proper
<1>2. ASSUME NEW id \in Id, NEW v \in Answer \ {"idle", "pending"}
      PROVE  ReplyMsg(t, id, v) \in Chat'
  BY DEF ReplyMsg, Msg, Message, Chat, Direct, Proper
<1>. QED
  BY <1>1, <1>2

(* What is held stays, or came just now.                                   *)
LEMMA StillOwn ==
  ASSUME TypeOK, BusInv, Onward, NEW t \in Tab, NEW c \in Req, caller'[c] = t,
         \A u \in Tab : /\ ToSet(held'[u]) \subseteq ToSet(held[u]) \cup (IF u = t THEN {c} ELSE {})
                        /\ heldCancels'[u] \subseteq heldCancels[u] \cup (IF u = t THEN {c} ELSE {})
  PROVE  HeldAreOwn'
<1>1. ASSUME NEW u \in Tab, NEW d \in ToSet(held[u]) \cup heldCancels[u]
      PROVE  caller'[d] = u
  <2>1. d \in Req
    BY DEF TypeOK, ToSet
  <2>2. caller[d] = u
    BY DEF BusInv
  <2>. QED
    BY <2>1, <2>2, NoneAssumption DEF Onward
<1>. QED
  BY <1>1 DEF HeldAreOwn

LEMMA SameHeldOwn ==
  ASSUME TypeOK, BusInv, Onward,
         \A u \in Tab : ToSet(held'[u]) \subseteq ToSet(held[u]) /\ heldCancels'[u] \subseteq heldCancels[u]
  PROVE  HeldAreOwn'
<1>1. ASSUME NEW u \in Tab, NEW d \in ToSet(held[u]) \cup heldCancels[u]
      PROVE  caller'[d] = u
  <2>1. d \in Req
    BY DEF TypeOK, ToSet
  <2>2. caller[d] = u
    BY DEF BusInv
  <2>. QED
    BY <2>1, <2>2, NoneAssumption DEF Onward
<1>. QED
  BY <1>1 DEF HeldAreOwn

(* A call entering its worker is at most sent on.                          *)
LEMMA IngressTalks ==
  ASSUME TypeOK, BusInv, Onward, NEW t \in Tab, NEW id \in Id, caller'[id.req] = t, NEW ans,
         Ingress(t, id, ans) \/ Refused(ans, id)
  PROVE  Adds(inbox) /\ HeldAreOwn'
<1>. DEFINE c == id.req
<1>. USE DEF waitingVars
<1>1. c \in Req
  BY IdParts
<1>2. CASE IngressForwarded(t, id, ans)
  <2>1. <<CallMsg(t, id)>> \in Seq(Chat')
    BY CallsAreChat
  <2>2. inbox' = Post(inbox, known[t], <<CallMsg(t, id)>>) /\ inbox \in [Tab -> Seq(Message)]
    BY <1>2 DEF IngressForwarded, TypeOK
  <2>3. Adds(inbox)
    BY <2>1, <2>2, PostAdds
  <2>. QED
    BY <1>2, <2>3, SameHeldOwn DEF IngressForwarded
<1>3. CASE IngressHeld(t, id, ans)
  <2>1. ASSUME NEW u \in Tab
        PROVE  /\ ToSet(held'[u]) \subseteq ToSet(held[u]) \cup (IF u = t THEN {c} ELSE {})
               /\ heldCancels'[u] \subseteq heldCancels[u] \cup (IF u = t THEN {c} ELSE {})
    <3>1. ToSet(Append(held[t], c)) = ToSet(held[t]) \cup {c}
      BY <1>1, AppendElems DEF TypeOK
    <3>2. CASE held' = [held EXCEPT ![t] = Append(@, c)] /\ UNCHANGED heldCancels
      BY <3>1, <3>2 DEF TypeOK
    <3>3. CASE heldCancels' = [heldCancels EXCEPT ![t] = @ \cup {c}] /\ UNCHANGED held
      BY <3>3 DEF TypeOK
    <3>. QED
      BY <1>3, <3>2, <3>3 DEF IngressHeld
  <2>2. HeldAreOwn'
    BY <1>1, <2>1, StillOwn
  <2>. QED
    BY <1>3, <2>2, NothingAdded DEF IngressHeld
<1>4. CASE IngressNotDispatched(t, id, ans)
  <2>1. held[t] \in Seq(Req) /\ HeldAt(t, c) \in DOMAIN held[t]
    BY <1>4 DEF IngressNotDispatched, IsHeld, HeldAt, TypeOK
  <2>2. ToSet(RemoveAt(held[t], HeldAt(t, c))) \subseteq ToSet(held[t])
    BY <2>1, RemoveSet
  <2>3. \A u \in Tab : ToSet(held'[u]) \subseteq ToSet(held[u]) /\ heldCancels'[u] \subseteq heldCancels[u]
    BY <1>4, <2>2 DEF IngressNotDispatched, TypeOK
  <2>. QED
    BY <1>4, <2>3, SameHeldOwn, NothingAdded DEF IngressNotDispatched
<1>5. CASE IngressFull(t, id, ans) \/ IngressLocal(t, id, ans) \/ Refused(ans, id)
  <2>1. UNCHANGED <<held, heldCancels, inbox>>
    BY <1>5 DEF IngressFull, IngressLocal, Refused
  <2>. QED
    BY <2>1, SameHeldOwn, NothingAdded
<1>. QED
  BY <1>2, <1>3, <1>4, <1>5 DEF Ingress

LEMMA ClientTalks ==
  ASSUME TypeOK, BusInv, Onward, NEW t \in Tab, Client(t)
  PROVE  UNCHANGED <<phase, closing, known, lock>> /\ Adds(inbox) /\ HeldAreOwn'
<1>1. ASSUME NEW c \in Req, Issue(t, c)
      PROVE  UNCHANGED <<phase, closing, known, lock>> /\ Adds(inbox) /\ HeldAreOwn'
  <2>1. Request(c) \in Id /\ Request(c).req = c
    BY IdParts, KindsOfId
  <2>2. caller'[c] = t
    BY <1>1 DEF Issue, TypeOK
  <2>. QED
    BY <1>1, <2>1, <2>2, IngressTalks DEF Issue
<1>2. ASSUME NEW c \in Req, NEW ans, SendCancel(t, c, ans), caller'[c] = t
      PROVE  Adds(inbox) /\ HeldAreOwn'
  <2>1. CancelOf(c) \in Id /\ CancelOf(c).req = c
    BY IdParts, KindsOfId
  <2>. QED
    BY <1>2, <2>1, IngressTalks DEF SendCancel
<1>3. ASSUME NEW c \in Req, Cancel(t, c)
      PROVE  UNCHANGED <<phase, closing, known, lock>> /\ Adds(inbox) /\ HeldAreOwn'
  BY <1>2, <1>3 DEF Cancel
<1>4. ASSUME NEW id \in Id, Timeout(t, id)
      PROVE  UNCHANGED <<phase, closing, known, lock>> /\ Adds(inbox) /\ HeldAreOwn'
  <2>1. id.req \in Req /\ caller'[id.req] = t /\ UNCHANGED <<phase, closing, known, lock>>
    BY <1>4, IdParts DEF Timeout
  <2>2. CASE UNCHANGED <<waitingVars, inbox>>
    BY <2>1, <2>2, SameHeldOwn, NothingAdded DEF waitingVars
  <2>3. CASE \E ans : SendCancel(t, id.req, ans)
    BY <1>2, <2>1, <2>3
  <2>. QED
    BY <1>4, <2>1, <2>2, <2>3 DEF Timeout
<1>. QED
  BY <1>1, <1>3, <1>4 DEF Client

(* The owner's drain replies when a request is done.                       *)
LEMMA DrainTalks ==
  ASSUME TypeOK, BusInv, Onward, NEW w \in Tab, Drain(w)
  PROVE  UNCHANGED <<phase, closing, known, lock>> /\ Adds(inbox) /\ HeldAreOwn'
<1>. USE DEF waitingVars
<1>1. UNCHANGED <<phase, closing, known, lock, held, heldCancels>>
  BY DEF Drain, Begin, Execute, Refuse, GateCloseFails, Finish, Maintain, Maintained
<1>2. CASE \/ Begin(w) \/ Execute(w) \/ Refuse(w) \/ GateCloseFails(w)
           \/ Maintain(w) \/ Maintained(w)
  <2>1. UNCHANGED inbox
    BY <1>2 DEF Begin, Execute, Refuse, GateCloseFails, Maintain, Maintained
  <2>. QED
    BY <1>1, <2>1, SameHeldOwn, NothingAdded
<1>3. CASE Finish(w)
  <2>. DEFINE id == Request(active[w])
  <2>1. id \in Id /\ result[w] \in Answer \ {"idle", "pending"}
    BY <1>3, IdParts, AnswerValues DEF Finish, TypeOK
  <2>2. <<ReplyMsg(w, id, result[w])>> \in Seq(Chat')
    BY <2>1, CallsAreChat
  <2>3. CASE UNCHANGED inbox
    BY <1>1, <2>3, SameHeldOwn, NothingAdded
  <2>4. CASE inbox' = Post(inbox, caller[active[w]], <<ReplyMsg(w, id, result[w])>>)
    <3>1. Adds(inbox)
      BY <2>2, <2>4, PostAdds DEF TypeOK
    <3>. QED
      BY <1>1, <3>1, SameHeldOwn
  <2>. QED
    BY <1>3, <2>3, <2>4 DEF Finish, ReplyMsg
<1>. QED
  BY <1>2, <1>3 DEF Drain

(* A worker whose archive does not open, that closes, releases or dies.    *)
LEMMA GoneLeaves ==
  ASSUME TypeOK, BusInv, Onward, NEW t \in Tab, NEW ans, NEW box, Gone(t, ans, box),
         box = inbox \/ box = Broadcast(inbox, t, "released"),
         \A r \in Tab \ {t} : closing'[r] = closing[r]
  PROVE  Leaves(t) /\ HeldAreOwn'
<1>. USE DEF Begun, Over
<1>1. phase' = [phase EXCEPT ![t] = "closed"] /\ known' = [known EXCEPT ![t] = None]
      /\ inbox' = [box EXCEPT ![t] = <<>>] /\ lock' = IF lock = t THEN None ELSE lock
  BY DEF Gone
<1>2. ASSUME NEW r \in Tab \ {t}
      PROVE  \/ inbox'[r] = inbox[r]
             \/ inbox'[r] = inbox[r] \o <<Notice("released", t)>> /\ Live(r)
  <2>1. CASE box = inbox
    BY <1>1, <2>1
  <2>2. CASE box = Broadcast(inbox, t, "released")
    <3>1. inbox'[r] = box[r]
      BY <1>1
    <3>. QED
      BY <2>2, <3>1, InboxBroadcast
  <2>. QED
    BY <2>1, <2>2
<1>3. inbox'[t] = <<>>
  <2>1. box \in [Tab -> Seq(Message)]
    <3>1. Broadcast(inbox, t, "released") \in [Tab -> Seq(Message)]
      BY InboxBroadcast
    <3>. QED
      BY <3>1 DEF TypeOK
  <2>. QED
    BY <1>1, <2>1
<1>4. phase'[t] = "closed" /\ known'[t] = None /\ \A r \in Tab \ {t} : phase'[r] = phase[r] /\ known'[r] = known[r]
  BY <1>1 DEF TypeOK
<1>5. lock' \in {None, lock} /\ lock' # t
  BY <1>1, NoneAssumption
<1>6. Leaves(t)
  BY <1>2, <1>3, <1>4, <1>5 DEF Leaves, Live, DatabaseOpen
<1>7. HeldAreOwn'
  <2>1. \A u \in Tab : ToSet(held'[u]) \subseteq ToSet(held[u]) /\ heldCancels'[u] \subseteq heldCancels[u]
    BY DEF Gone, NothingWaits, TypeOK, ToSet
  <2>. QED
    BY <2>1, SameHeldOwn
<1>. QED
  BY <1>6, <1>7

LEMMA LeaveLeaves ==
  ASSUME TypeOK, BusInv, Onward, NEW t \in Tab,
         OpenFails(t) \/ Close(t) \/ Release(t) \/ Crash(t)
  PROVE  Leaves(t) /\ HeldAreOwn'
<1>. USE DEF Begun, Over
<1>1. CASE OpenFails(t)
  <2>1. phase' = [phase EXCEPT ![t] = "failed"] /\ known' = [known EXCEPT ![t] = None]
        /\ inbox' = [Broadcast(inbox, t, "released") EXCEPT ![t] = <<>>] /\ lock' = None
        /\ closing' = closing
    BY <1>1 DEF OpenFails
  <2>2. ASSUME NEW r \in Tab \ {t}
        PROVE  \/ inbox'[r] = inbox[r]
               \/ inbox'[r] = inbox[r] \o <<Notice("released", t)>> /\ Live(r)
    <3>1. inbox'[r] = Broadcast(inbox, t, "released")[r]
      BY <2>1
    <3>. QED
      BY <3>1, InboxBroadcast
  <2>3. inbox'[t] = <<>>
    <3>1. Broadcast(inbox, t, "released") \in [Tab -> Seq(Message)]
      BY BroadcastType DEF TypeOK
    <3>. QED
      BY <2>1, <3>1
  <2>4. Leaves(t)
    BY <2>1, <2>2, <2>3, NoneAssumption DEF Leaves, Live, DatabaseOpen, TypeOK
  <2>5. \A u \in Tab : ToSet(held'[u]) \subseteq ToSet(held[u]) /\ heldCancels'[u] \subseteq heldCancels[u]
    BY <1>1 DEF OpenFails, NothingWaits, TypeOK, ToSet
  <2>. QED
    BY <2>4, <2>5, SameHeldOwn
<1>2. CASE Close(t)
  <2>1. closing' = [closing EXCEPT ![t] = TRUE]
    BY <1>2 DEF Close
  <2>2. CASE Holds(t)
    <3>1. inbox' = [inbox EXCEPT ![t] = <<>>] /\ UNCHANGED <<phase, held, heldCancels, known, lock>>
      BY <1>2, <2>2 DEF Close, waitingVars
    <3>2. Leaves(t)
      BY <2>1, <2>2, <3>1 DEF Leaves, Live, DatabaseOpen, Holds, BusInv, TypeOK
    <3>. QED
      BY <3>1, <3>2, SameHeldOwn
  <2>3. CASE ~Holds(t)
    <3>1. Gone(t, FinalAnswers(t), inbox)
      BY <1>2, <2>3 DEF Close
    <3>2. \A r \in Tab \ {t} : closing'[r] = closing[r]
      BY <2>1 DEF TypeOK
    <3>. QED
      BY <3>1, <3>2, GoneLeaves
  <2>. QED
    BY <2>2, <2>3
<1>3. CASE Release(t)
  <2>1. Gone(t, FinalAnswers(t), Broadcast(inbox, t, "released")) /\ closing' = closing
    BY <1>3 DEF Release
  <2>. QED
    BY <2>1, GoneLeaves
<1>4. CASE Crash(t)
  <2>1. Gone(t, Settled(answer, Own(t), "UNKNOWN_OUTCOME"), inbox)
        /\ closing' = [closing EXCEPT ![t] = TRUE]
    BY <1>4 DEF Crash
  <2>2. \A r \in Tab \ {t} : closing'[r] = closing[r]
    BY <2>1 DEF TypeOK
  <2>. QED
    BY <2>1, <2>2, GoneLeaves
<1>. QED
  BY <1>1, <1>2, <1>3, <1>4

(* A tab that starts greets the others.                                    *)
LEMMA StartFinds ==
  ASSUME TypeOK, TypeOK', BusInv, DiscoveryInv, Onward, NEW t \in Tab, Start(t)
  PROVE  BusInv' /\ DiscoveryInv'
<1>. USE DEF clientVars, waitingVars, ownerVars, durable, Begun, Over
<1>. DEFINE hello == Notice("hello", t)
<1>1. phase[t] = "off" /\ phase' = [phase EXCEPT ![t] = "electing"]
      /\ UNCHANGED <<caller, closing, known, held, heldCancels, lock>>
      /\ inbox' = Broadcast(inbox, t, "hello")
  BY DEF Start
<1>2. hello \in Message /\ <<hello>> \in Seq(Message) /\ hello.type = "hello"
  BY DEF Notice, Msg, Message
<1>3. \A r \in Tab : inbox'[r] = IF r # t /\ Live(r) THEN inbox[r] \o <<hello>> ELSE inbox[r]
  BY <1>1, InboxBroadcast
<1>. HIDE DEF hello
<1>4. ~Live(t) /\ closing[t] = FALSE /\ inbox[t] = <<>> /\ inbox'[t] = <<>>
  <2>1. ~Live(t)
    BY <1>1 DEF Live
  <2>2. closing[t] = FALSE
    BY <1>1 DEF BusInv, TypeOK
  <2>. QED
    BY <1>3, <2>1, <2>2 DEF BusInv
<1>5. \A r \in Tab \ {t} : phase'[r] = phase[r]
  BY <1>1 DEF TypeOK
<1>6. BusInv'
  <2>1. ASSUME NEW r \in Tab
        PROVE  inbox'[r] \in Seq(Proper')
    <3>1. inbox[r] \in Seq(Proper')
      BY ProperBox DEF BusInv
    <3>2. hello \in Proper'
      BY <1>2 DEF Proper
    <3>3. inbox[r] \o <<hello>> \in Seq(Proper')
      BY <3>1, <3>2, OneMoreSet
    <3>. QED
      BY <1>3, <3>1, <3>3
  <2>2. \A r \in Tab : ~Live(r)' => inbox'[r] = <<>>
    BY <1>1, <1>3, <1>4, <1>5 DEF Live, BusInv
  <2>3. \A r \in Tab : lock' = r => Holds(r)'
    BY <1>1, <1>5 DEF BusInv, Holds
  <2>4. \A r \in Tab : closing'[r] => phase'[r] \in {"opening"} \cup Begun
    BY <1>1, <1>4, <1>5 DEF BusInv
  <2>5. \A r \in Tab : known'[r] # None => phase'[known'[r]] \in Begun
    BY <1>1 DEF BusInv, Onward, TypeOK
  <2>. QED
    BY <1>1, <2>1, <2>2, <2>3, <2>4, <2>5 DEF BusInv
<1>7. ASSUME NEW r \in Tab
      PROVE  /\ ToSet(inbox[r]) \subseteq ToSet(inbox'[r])
             /\ ToSet(inbox'[r]) \subseteq ToSet(inbox[r]) \cup {hello}
             /\ r # t /\ Live(r) => hello \in ToSet(inbox'[r])
             /\ \A w : LastWord(w, inbox[r]) => LastWord(w, inbox'[r])
  <2>1. inbox[r] \in Seq(Message) /\ <<hello>> \in Seq(Direct)
    BY <1>2 DEF TypeOK, Direct
  <2>2. ToSet(inbox[r] \o <<hello>>) = ToSet(inbox[r]) \cup {hello}
    BY <1>2, <2>1, OneMoreSet
  <2>. QED
    BY <1>3, <2>1, <2>2, LastWordConcat
<1>8. DiscoveryInv'
  <2>1. ASSUME NEW w \in Tab, DatabaseOpen(w)'
        PROVE  known'[w] = w /\ \A m \in ToSet(inbox'[w]) : m.type # "owner"
    <3>1. DatabaseOpen(w)
      BY <1>1, <1>5, <2>1 DEF DatabaseOpen, TypeOK
    <3>. QED
      BY <1>1, <1>2, <1>7, <3>1 DEF DiscoveryInv
  <2>2. ASSUME NEW r \in Tab, NEW w \in Tab, r # w, Live(r)', Serves(w)'
        PROVE  Finds(r, w)' /\ LastWord(w, inbox'[r])
    <3>1. w # t /\ Serves(w)
      BY <1>1, <1>5, <2>2 DEF Serves, Live, DatabaseOpen, TypeOK
    <3>2. CASE r = t
      <4>1. LastWord(w, inbox'[r])
        BY <1>4, <3>2 DEF LastWord
      <4>. QED
        BY <1>7, <3>1, <3>2, <4>1 DEF Finds, Serves, hello
    <3>3. CASE r # t
      <4>1. Live(r)
        BY <1>1, <1>5, <2>2, <3>3 DEF Live
      <4>2. Finds(r, w) /\ LastWord(w, inbox[r])
        BY <2>2, <3>1, <4>1 DEF DiscoveryInv
      <4>. QED
        BY <1>1, <1>7, <4>2 DEF Finds
    <3>. QED
      BY <3>2, <3>3
  <2>. QED
    BY <2>1, <2>2 DEF DiscoveryInv
<1>. QED
  BY <1>6, <1>8

(* A tab that is granted the lock is not the owner yet.                    *)
LEMMA GrantFinds ==
  ASSUME TypeOK, BusInv, DiscoveryInv, Onward, NEW t \in Tab, Grant(t)
  PROVE  BusInv' /\ DiscoveryInv'
<1>. USE DEF clientVars, waitingVars, ownerVars, durable, Begun, Over
<1>1. /\ phase[t] = "electing" /\ phase' = [phase EXCEPT ![t] = "opening"] /\ lock' = t
      /\ UNCHANGED <<caller, closing, known, held, heldCancels, inbox>>
  BY DEF Grant
<1>2. \A r \in Tab : phase'[r] = IF r = t THEN "opening" ELSE phase[r]
  BY <1>1 DEF TypeOK
<1>3. \A r \in Tab : (Live(r)' <=> Live(r)) /\ (DatabaseOpen(r)' <=> DatabaseOpen(r))
  BY <1>1, <1>2 DEF Live, DatabaseOpen
<1>4. BusInv'
  <2>1. \A r \in Tab : inbox'[r] \in Seq(Proper')
    BY <1>1, ProperBox DEF BusInv
  <2>2. \A r \in Tab : known'[r] # None => phase'[known'[r]] \in Begun
    BY <1>1 DEF BusInv, Onward, TypeOK
  <2>3. \A r \in Tab : (closing'[r] => phase'[r] \in {"opening"} \cup Begun) /\ (lock' = r => Holds(r)')
    BY <1>1, <1>2 DEF BusInv, Holds
  <2>. QED
    BY <1>1, <1>3, <2>1, <2>2, <2>3 DEF BusInv
<1>5. DiscoveryInv'
  BY <1>1, <1>3 DEF DiscoveryInv, Serves, Finds
<1>. QED
  BY <1>4, <1>5

(* A new owner has read all that was sent to it, and announces itself.     *)
LEMMA OpenFinds ==
  ASSUME TypeOK, TypeOK', ExclusionInv, BusInv, DiscoveryInv, Onward, Prompt,
         NEW t \in Tab, OpenOk(t)
  PROVE  BusInv' /\ DiscoveryInv'
<1>. USE DEF Begun, Over
<1>. DEFINE word == Notice("owner", t)
<1>1. /\ phase[t] = "opening" /\ ~closing[t] /\ phase' = [phase EXCEPT ![t] = "owner"]
      /\ known' = [known EXCEPT ![t] = t] /\ inbox[t] = <<>>
      /\ held' = [held EXCEPT ![t] = <<>>] /\ heldCancels' = [heldCancels EXCEPT ![t] = {}]
      /\ UNCHANGED <<caller, closing, lock>> /\ inbox' = Broadcast(inbox, t, "owner")
  BY DEF OpenOk
<1>2. \A r \in Tab : /\ phase'[r] = IF r = t THEN "owner" ELSE phase[r]
                     /\ known'[r] = IF r = t THEN t ELSE known[r]
  BY <1>1 DEF TypeOK
<1>3. \A r \in Tab : inbox'[r] = IF r # t /\ Live(r) THEN inbox[r] \o <<word>> ELSE inbox[r]
  BY <1>1, InboxBroadcast
<1>4. word \in Message /\ word.type = "owner" /\ word.from = t
  BY DEF Notice, Msg, Message
<1>. HIDE DEF word
<1>5. \A r \in Tab : Live(r)' <=> Live(r)
  BY <1>1, <1>2 DEF Live
<1>6. BusInv'
  <2>1. ASSUME NEW r \in Tab
        PROVE  inbox'[r] \in Seq(Proper')
    <3>1. inbox[r] \in Seq(Proper')
      BY ProperBox DEF BusInv
    <3>2. word \in Proper'
      BY <1>2, <1>4 DEF Proper
    <3>3. inbox[r] \o <<word>> \in Seq(Proper')
      BY <3>1, <3>2, OneMoreSet
    <3>. QED
      BY <1>3, <3>1, <3>3
  <2>2. \A r \in Tab : ~Live(r)' => inbox'[r] = <<>>
    BY <1>3, <1>5 DEF BusInv
  <2>3. \A r \in Tab : known'[r] # None => phase'[known'[r]] \in Begun
    <3>1. \A r \in Tab \ {t} : known'[r] = known[r] /\ (known[r] # None => known[r] \in Tab)
      BY <1>2 DEF TypeOK
    <3>. QED
      BY <1>2, <3>1 DEF BusInv, Onward
  <2>4. \A r \in Tab : (closing'[r] => phase'[r] \in {"opening"} \cup Begun) /\ (lock' = r => Holds(r)')
    BY <1>1, <1>2 DEF BusInv, Holds
  <2>5. HeldAreOwn'
    <3>1. \A u \in Tab : ToSet(held'[u]) \subseteq ToSet(held[u]) /\ heldCancels'[u] \subseteq heldCancels[u]
      BY <1>1 DEF TypeOK, ToSet
    <3>. QED
      BY <3>1, SameHeldOwn
  <2>. QED
    BY <2>1, <2>2, <2>3, <2>4, <2>5 DEF BusInv, HeldAreOwn
<1>7. \A w \in Tab : DatabaseOpen(w)' => w = t
  BY <1>1, <1>2 DEF DatabaseOpen, Holds, ExclusionInv
<1>8. DiscoveryInv'
  <2>1. known'[t] = t /\ \A m \in ToSet(inbox'[t]) : m.type # "owner"
    BY <1>1, <1>2, <1>3 DEF ToSet
  <2>2. ASSUME NEW r \in Tab, r # t, Live(r)'
        PROVE  Finds(r, t)' /\ LastWord(t, inbox'[r])
    <3>1. inbox[r] \in Seq(Message) /\ inbox'[r] = inbox[r] \o <<word>>
      BY <1>3, <1>5, <2>2 DEF TypeOK
    <3>2. word \in ToSet(inbox'[r])
      BY <1>4, <3>1, OneMoreSet
    <3>3. inbox'[r] = Append(inbox[r], word)
      BY <1>4, <3>1, AppendIsConcat
    <3>4. LastWord(t, inbox'[r])
      BY <3>1, <3>3, LastWordSaid DEF word
    <3>. QED
      BY <3>2, <3>4 DEF Finds, word
  <2>. QED
    BY <1>7, <2>1, <2>2 DEF DiscoveryInv, Serves
<1>. QED
  BY <1>6, <1>8

(* A worker takes the oldest message of its box.                           *)
Taken(r, m, box) ==
  /\ Live(r) /\ UNCHANGED <<caller, phase, closing, active, result, gateBroken, lock, durable>>
  /\ 1 \in DOMAIN inbox[r] /\ m = inbox[r][1]
  /\ box = [inbox EXCEPT ![r] = RemoveAt(@, 1)]
Handles(r, m, box) ==
  \/ ReceiveHello(r, m, box) \/ ReceiveOwner(r, m, box) \/ ReceiveReleased(r, m, box)
  \/ ReceiveCall(r, m, box) \/ ReceiveReply(r, m, box)

LEMMA ReceiveTakes ==
  ASSUME TypeOK, Prompt, NEW r \in Tab, Receive(r)
  PROVE  \E m, box : Taken(r, m, box) /\ Handles(r, m, box)
<1>1. PICK i \in Deliverable(r) :
        LET m == inbox[r][i]
            box == [inbox EXCEPT ![r] = RemoveAt(@, i)]
        IN Handles(r, m, box)
  BY DEF Receive, Handles
<1>2. i = 1 /\ 1 \in DOMAIN inbox[r]
  BY FirstIsTaken
<1>3. Taken(r, inbox[r][1], [inbox EXCEPT ![r] = RemoveAt(@, 1)])
  BY <1>2 DEF Receive, Taken
<1>. QED
  BY <1>1, <1>2, <1>3

(* What is left in the boxes then.                                         *)
LEMMA TakenLeaves ==
  ASSUME TypeOK, BusInv, NEW r \in Tab, NEW m, NEW box, Taken(r, m, box)
  PROVE  /\ m \in Proper /\ m \in Message /\ m \in ToSet(inbox[r])
         /\ box \in [Tab -> Seq(Message)] /\ \A q \in Tab \ {r} : box[q] = inbox[q]
         /\ \A q \in Tab : /\ box[q] \in Seq(Proper) /\ ToSet(box[q]) \subseteq ToSet(inbox[q])
                           /\ ToSet(inbox[q]) \subseteq ToSet(box[q]) \cup (IF q = r THEN {m} ELSE {})
                           /\ \A w : LastWord(w, inbox[q]) => LastWord(w, box[q])
         /\ \A w : LastWord(w, inbox[r]) /\ m.type = "owner" /\ m.from # w
              => Notice("owner", w) \in ToSet(box[r])
<1>1. /\ inbox[r] \in Seq(Proper) /\ inbox[r] \in Seq(Message)
      /\ 1 \in DOMAIN inbox[r] /\ m = inbox[r][1]
  BY DEF BusInv, TypeOK, Taken
<1>2. m \in Proper /\ m \in Message /\ m \in ToSet(inbox[r])
  BY <1>1 DEF ToSet
<1>3. /\ RemoveAt(inbox[r], 1) \in Seq(Proper) /\ RemoveAt(inbox[r], 1) \in Seq(Message)
      /\ ToSet(RemoveAt(inbox[r], 1)) \subseteq ToSet(inbox[r])
      /\ ToSet(inbox[r]) \subseteq ToSet(RemoveAt(inbox[r], 1)) \cup {m}
      /\ \A w : LastWord(w, inbox[r]) => LastWord(w, RemoveAt(inbox[r], 1))
  BY <1>1, RemoveAtType, RemoveSet, LastWordRemove
<1>4. \A q \in Tab : box[q] = IF q = r THEN RemoveAt(inbox[r], 1) ELSE inbox[q]
  BY DEF Taken, TypeOK
<1>5. box \in [Tab -> Seq(Message)]
  BY <1>3 DEF Taken, TypeOK
<1>6. ASSUME NEW w, LastWord(w, inbox[r]), m.type = "owner", m.from # w
      PROVE  Notice("owner", w) \in ToSet(box[r])
  <2>1. PICK j \in DOMAIN inbox[r] : 1 < j /\ inbox[r][j] = Notice("owner", w)
    BY <1>1, <1>6 DEF LastWord
  <2>2. Notice("owner", w) # m
    BY <1>6 DEF Notice, Msg
  <2>. QED
    BY <1>3, <1>4, <2>1, <2>2 DEF ToSet
<1>7. \A q \in Tab \ {r} : box[q] = inbox[q] /\ box[q] \in Seq(Proper)
  BY <1>4 DEF BusInv
<1>. QED
  BY <1>2, <1>3, <1>4, <1>5, <1>6, <1>7

(* Chat behind what is left keeps the bus proper,                          *)
LEMMA TakenTalk ==
  ASSUME TypeOK, TypeOK', BusInv, Onward, NEW r \in Tab, NEW m, NEW box, Taken(r, m, box),
         Adds(box), HeldAreOwn',
         \A t \in Tab : known'[t] \in {None, known[t]} \/ phase[known'[t]] \in Begun
  PROVE  BusInv'
<1>1. UNCHANGED <<phase, closing, lock>> /\ Live(r)
  BY DEF Taken
<1>2. ASSUME NEW q \in Tab
      PROVE  inbox'[q] \in Seq(Proper')
  <2>1. PICK msgs \in Seq(Chat') : inbox'[q] = box[q] \o msgs
    BY DEF Adds
  <2>2. box[q] \in Seq(Proper')
    BY TakenLeaves, ProperBox
  <2>3. msgs \in Seq(Proper')
    BY ChatTypes
  <2>. QED
    BY <2>1, <2>2, <2>3, ConcatProperties
<1>3. \A q \in Tab : ~Live(q)' => inbox'[q] = <<>>
  <2>1. ASSUME NEW q \in Tab, ~Live(q)'
        PROVE  inbox'[q] = <<>>
    <3>1. ~Live(q) /\ q # r
      BY <1>1, <2>1 DEF Live
    <3>. QED
      BY <3>1, TakenLeaves DEF Adds, BusInv
  <2>. QED
    BY <2>1
<1>4. \A t \in Tab : known'[t] # None => phase'[known'[t]] \in Begun
  BY <1>1 DEF BusInv
<1>. QED
  BY <1>1, <1>2, <1>3, <1>4 DEF BusInv, HeldAreOwn, Holds

(* and discovery going, if what was taken is accounted for.                *)
LEMMA TakenFind ==
  ASSUME TypeOK, TypeOK', BusInv, DiscoveryInv, NEW r \in Tab, NEW m, NEW box, Taken(r, m, box),
         Adds(box), m.type # "hello" \/ ~DatabaseOpen(r),
         \A t \in Tab \ {r} : known'[t] = known[t],
         DatabaseOpen(r) => known'[r] = r,
         \A w \in Tab \ {r} : Serves(w) =>
           \/ known'[r] = w \/ Notice("owner", w) \in ToSet(box[r])
           \/ (known[r] = w => known'[r] = w) /\ m.type # "owner"
  PROVE  DiscoveryInv'
<1>1. UNCHANGED <<phase, closing>> /\ Live(r)
  BY DEF Taken
<1>2. ASSUME NEW q \in Tab
      PROVE  /\ ToSet(box[q]) \subseteq ToSet(inbox'[q])
             /\ \A n \in ToSet(inbox'[q]) : n \in ToSet(box[q]) \/ n.type # "owner"
             /\ \A w : LastWord(w, inbox[q]) => LastWord(w, inbox'[q])
  <2>1. PICK msgs \in Seq(Chat') : inbox'[q] = box[q] \o msgs
    BY DEF Adds
  <2>2. msgs \in Seq(Direct) /\ msgs \in Seq(Message) /\ box[q] \in Seq(Message)
    BY ChatTypes, TakenLeaves
  <2>3. ToSet(inbox'[q]) = ToSet(box[q]) \cup ToSet(msgs)
    BY <2>1, <2>2, ConcatSet
  <2>4. \A n \in ToSet(msgs) : n.type # "owner"
    BY <2>2 DEF ToSet, Direct
  <2>5. \A w : LastWord(w, box[q]) => LastWord(w, inbox'[q])
    BY <2>1, <2>2, LastWordConcat
  <2>. QED
    BY <2>3, <2>4, <2>5, TakenLeaves
<1>3. ASSUME NEW w \in Tab, DatabaseOpen(w)'
      PROVE  known'[w] = w /\ \A n \in ToSet(inbox'[w]) : n.type # "owner"
  <2>1. DatabaseOpen(w)
    BY <1>1, <1>3 DEF DatabaseOpen
  <2>2. known[w] = w /\ \A n \in ToSet(inbox[w]) : n.type # "owner"
    BY <2>1 DEF DiscoveryInv
  <2>3. ToSet(box[w]) \subseteq ToSet(inbox[w])
    BY TakenLeaves
  <2>. QED
    BY <1>2, <2>1, <2>2, <2>3
<1>4. ASSUME NEW t \in Tab, NEW w \in Tab, t # w, Live(t)', Serves(w)'
      PROVE  Finds(t, w)' /\ LastWord(w, inbox'[t])
  <2>1. Live(t) /\ Serves(w) /\ DatabaseOpen(w)
    BY <1>1, <1>4 DEF Live, Serves, DatabaseOpen
  <2>2. Finds(t, w) /\ LastWord(w, inbox[t])
    BY <1>4, <2>1 DEF DiscoveryInv
  <2>0. /\ \A q \in Tab \ {r} : box[q] = inbox[q]
        /\ \A n \in ToSet(inbox[r]) : n \in ToSet(box[r]) \/ n = m
    <3>1. ToSet(inbox[r]) \subseteq ToSet(box[r]) \cup {m}
      BY TakenLeaves
    <3>. QED
      BY <3>1, TakenLeaves
  <2>3. Notice("hello", t) \in ToSet(inbox[w]) => Notice("hello", t) \in ToSet(box[w])
    <3>1. CASE w # r
      BY <3>1, TakenLeaves
    <3>2. CASE w = r /\ m.type # "hello"
      <4>1. Notice("hello", t).type = "hello"
        BY DEF Notice, Msg
      <4>. QED
        BY <2>0, <3>2, <4>1
    <3>. QED
      BY <2>1, <3>1, <3>2
  <2>4. Notice("owner", w) \in ToSet(inbox[t]) /\ (t # r \/ m.type # "owner")
          => Notice("owner", w) \in ToSet(box[t])
    <3>1. Notice("owner", w).type = "owner"
      BY DEF Notice, Msg
    <3>. QED
      BY <2>0, <3>1
  <2>5. Finds(t, w)'
    <3>1. \/ known'[t] = w \/ Notice("owner", w) \in ToSet(box[t])
          \/ Notice("hello", t) \in ToSet(box[w])
      BY <1>4, <2>1, <2>2, <2>3, <2>4 DEF Finds
    <3>. QED
      BY <1>2, <3>1 DEF Finds
  <2>. QED
    BY <1>2, <2>2, <2>5
<1>. QED
  BY <1>3, <1>4 DEF DiscoveryInv

(* Replies carry answers,                                                  *)
LEMMA RepliesAnswer ==
  ASSUME TypeOK, NEW w \in Tab, NEW id \in Id
  PROVE  /\ \A q \in ToSet(Replies(w, id)) : q.id \in Id /\ q.value \in Answer \ {"idle", "pending"}
         /\ ReplyMsgs(w, Replies(w, id)) \in Seq(Chat')
<1>1. Request(id.req) \in Id /\ id.req \in Req
  BY IdParts
<1>2. CancelOutcome(w, id.req) \in Answer \ {"idle", "pending"}
  BY CancelOutcomeType DEF CancelOutcome
<1>3. {"OVERLOADED", "CANCELLED", "cancelled_before_commit"} \subseteq Answer \ {"idle", "pending"}
  BY AnswerValues
<1>. DEFINE S == {q \in Reply : q.value \in Answer \ {"idle", "pending"}}
<1>4. \A i \in Id, v \in Answer \ {"idle", "pending"} : Answered(i, v) \in S
  BY DEF Answered, Reply
<1>5. Replies(w, id) \in Seq(S)
  <2>1. /\ Answered(id, "OVERLOADED") \in S /\ Answered(Request(id.req), "CANCELLED") \in S
        /\ Answered(id, "cancelled_before_commit") \in S
        /\ Answered(id, CancelOutcome(w, id.req)) \in S
    BY <1>1, <1>2, <1>3, <1>4
  <2>. HIDE DEF S
  <2>. QED
    BY <2>1 DEF Replies
<1>6. \A i \in DOMAIN Replies(w, id) : Replies(w, id)[i] \in S
  BY <1>5
<1>7. \A q \in ToSet(Replies(w, id)) : q \in S
  BY <1>6 DEF ToSet
<1>8. \A q \in S : q.id \in Id /\ q.value \in Answer \ {"idle", "pending"}
  BY DEF Reply
<1>. HIDE DEF S
<1>9. ReplyMsgs(w, Replies(w, id)) \in Seq(Chat')
  <2>1. \A i \in 1 .. Len(Replies(w, id)) : Replies(w, id)[i] \in S
    BY <1>5
  <2>2. \A i \in 1 .. Len(Replies(w, id)) :
          Msg("reply", w, Replies(w, id)[i].id, Replies(w, id)[i].value) \in Chat'
    BY <1>8, <2>1, CallsAreChat DEF ReplyMsg
  <2>. QED
    BY <1>5, <2>2 DEF ReplyMsgs
<1>. QED
  BY <1>7, <1>8, <1>9

(* what a worker held it sends as its own,                                 *)
LEMMA HeldIsChat ==
  ASSUME TypeOK, BusInv, Onward, NEW r \in Tab, NEW cancels \in Orders(heldCancels[r])
  PROVE  CallMsgs(r, held[r]) \o CancelMsgs(r, cancels) \in Seq(Chat')
<1>1. cancels \in Seq(Req) /\ \A i \in DOMAIN cancels : cancels[i] \in heldCancels[r]
  BY OrdersType DEF TypeOK, Orders
<1>2. held[r] \in Seq(Req) /\ \A i \in DOMAIN held[r] : held[r][i] \in ToSet(held[r])
  BY DEF TypeOK, ToSet
<1>3. \A c \in Req : c \in ToSet(held[r]) \cup heldCancels[r] => caller'[c] = r
  BY NoneAssumption DEF BusInv, Onward
<1>4. \A c \in Req : caller'[c] = r => CallMsg(r, Request(c)) \in Chat' /\ CallMsg(r, CancelOf(c)) \in Chat'
  BY IdParts, KindsOfId, CallsAreChat
<1>5. CallMsgs(r, held[r]) \in Seq(Chat')
  <2>1. \A i \in 1 .. Len(held[r]) : CallMsg(r, Request(held[r][i])) \in Chat'
    BY <1>2, <1>3, <1>4
  <2>. QED
    BY <1>2, <2>1 DEF CallMsgs
<1>6. CancelMsgs(r, cancels) \in Seq(Chat')
  <2>1. \A i \in 1 .. Len(cancels) : CallMsg(r, CancelOf(cancels[i])) \in Chat'
    BY <1>1, <1>3, <1>4
  <2>. QED
    BY <1>1, <2>1 DEF CancelMsgs
<1>. QED
  BY <1>5, <1>6, ConcatProperties

LEMMA HandlesChat ==
  ASSUME TypeOK, BusInv, Onward, NEW r \in Tab, NEW m, NEW box, Taken(r, m, box),
         Handles(r, m, box), ~ReceiveHello(r, m, box)
  PROVE  Adds(box) /\ HeldAreOwn'
<1>1. box \in [Tab -> Seq(Message)] /\ m \in Message /\ m \in Proper
  BY TakenLeaves
<1>2. CASE inbox' = box /\ UNCHANGED <<held, heldCancels>>
  <2>1. Adds(box)
    <3>1. \A q \in Tab : inbox'[q] = box[q] \o <<>>
      BY <1>1, <1>2
    <3>2. <<>> \in Seq(Chat')
      OBVIOUS
    <3>. QED
      BY <1>2, <3>1, <3>2 DEF Adds
  <2>. QED
    BY <1>2, <2>1, SameHeldOwn
<1>3. CASE OwnerFound(r, m.from, box)
  <2>1. PICK cancels \in Orders(heldCancels[r]) :
          inbox' = Post(box, m.from, CallMsgs(r, held[r]) \o CancelMsgs(r, cancels))
    BY <1>3 DEF OwnerFound
  <2>2. Adds(box)
    BY <1>1, <2>1, HeldIsChat, PostAdds
  <2>3. \A u \in Tab : ToSet(held'[u]) \subseteq ToSet(held[u]) /\ heldCancels'[u] \subseteq heldCancels[u]
    BY <1>3 DEF OwnerFound, TypeOK, ToSet
  <2>. QED
    BY <2>2, <2>3, SameHeldOwn
<1>4. CASE ReceiveCall(r, m, box) /\ inbox' = Post(box, m.from, ReplyMsgs(r, Replies(r, m.id)))
  <2>1. m.id \in Id
    BY <1>1, <1>4, MessageParts DEF ReceiveCall
  <2>2. Adds(box)
    BY <1>1, <1>4, <2>1, RepliesAnswer, PostAdds
  <2>. QED
    BY <1>4, <2>2, SameHeldOwn DEF ReceiveCall, waitingVars
<1>. QED
  BY <1>2, <1>3, <1>4 DEF Handles, ReceiveOwner, ReceiveReleased, OwnerLost, ReceiveCall,
                          ReceiveReply, waitingVars

(* An owner that is greeted introduces itself to everybody.                *)
LEMMA IntroducedFinds ==
  ASSUME TypeOK, TypeOK', ExclusionInv, BusInv, DiscoveryInv, Onward,
         NEW r \in Tab, NEW m, NEW box, Taken(r, m, box), DatabaseOpen(r),
         inbox' = Broadcast(box, r, "owner"), UNCHANGED <<known, held, heldCancels>>
  PROVE  BusInv' /\ DiscoveryInv'
<1>. DEFINE word == Notice("owner", r)
<1>1. UNCHANGED <<caller, phase, closing, lock>> /\ Live(r)
  BY DEF Taken
<1>2. box \in [Tab -> Seq(Message)] /\ \A q \in Tab \ {r} : box[q] = inbox[q]
  BY TakenLeaves
<1>3. \A q \in Tab : inbox'[q] = IF q # r /\ Live(q) THEN box[q] \o <<word>> ELSE box[q]
  BY <1>2, BroadcastIs
<1>4. word \in Message /\ word.type = "owner" /\ word.from = r
  BY DEF Notice, Msg, Message
<1>. HIDE DEF word
<1>5. BusInv'
  <2>1. ASSUME NEW q \in Tab
        PROVE  inbox'[q] \in Seq(Proper')
    <3>1. box[q] \in Seq(Proper')
      BY TakenLeaves, ProperBox
    <3>2. word \in Proper'
      BY <1>1, <1>4 DEF Proper, DatabaseOpen, Begun
    <3>3. box[q] \o <<word>> \in Seq(Proper')
      BY <3>1, <3>2, OneMoreSet
    <3>. QED
      BY <1>3, <3>1, <3>3
  <2>2. \A q \in Tab : ~Live(q)' => inbox'[q] = <<>>
    BY <1>1, <1>2, <1>3 DEF Live, BusInv
  <2>. QED
    BY <1>1, <2>1, <2>2 DEF BusInv, Holds
<1>6. \A w \in Tab : DatabaseOpen(w) => w = r
  BY DEF DatabaseOpen, Holds, ExclusionInv
<1>7. DiscoveryInv'
  <2>1. known'[r] = r /\ \A n \in ToSet(inbox'[r]) : n.type # "owner"
    <3>1. ToSet(box[r]) \subseteq ToSet(inbox[r])
      BY TakenLeaves
    <3>2. known[r] = r /\ \A n \in ToSet(inbox[r]) : n.type # "owner"
      BY DEF DiscoveryInv
    <3>. QED
      BY <1>3, <3>1, <3>2
  <2>2. ASSUME NEW t \in Tab, t # r, Live(t)'
        PROVE  Finds(t, r)' /\ LastWord(r, inbox'[t])
    <3>1. box[t] \in Seq(Message) /\ inbox'[t] = box[t] \o <<word>>
      BY <1>1, <1>2, <1>3, <2>2 DEF Live
    <3>2. word \in ToSet(inbox'[t])
      <4>1. ToSet(box[t] \o <<word>>) = ToSet(box[t]) \cup {word}
        BY <1>4, <3>1, OneMoreSet
      <4>. QED
        BY <3>1, <4>1
    <3>3. inbox'[t] = Append(box[t], word)
      BY <1>4, <3>1, AppendIsConcat
    <3>4. LastWord(r, inbox'[t])
      BY <3>1, <3>3, LastWordSaid DEF word
    <3>. QED
      BY <3>2, <3>4 DEF Finds, word
  <2>3. \A w \in Tab : DatabaseOpen(w)' => w = r
    BY <1>1, <1>6 DEF DatabaseOpen
  <2>. QED
    BY <2>1, <2>2, <2>3 DEF DiscoveryInv, Serves
<1>. QED
  BY <1>5, <1>7

(* Handling a message, the oldest first, keeps the owner to be found.      *)
LEMMA ReceiveFinds ==
  ASSUME TypeOK, TypeOK', ExclusionInv, BusInv, DiscoveryInv, Onward, Prompt,
         NEW r \in Tab, Receive(r)
  PROVE  BusInv' /\ DiscoveryInv'
<1>1. PICK m, box : Taken(r, m, box) /\ Handles(r, m, box)
  BY ReceiveTakes
<1>2. /\ m \in Proper /\ m \in Message /\ m \in ToSet(inbox[r])
      /\ box \in [Tab -> Seq(Message)] /\ UNCHANGED <<phase, closing>>
  <2>1. UNCHANGED <<phase, closing>>
    BY <1>1 DEF Taken
  <2>. QED
    BY <1>1, <2>1, TakenLeaves
<1>3. m.from \in Tab
  BY <1>2, MessageParts
<1>4. CASE ReceiveHello(r, m, box) /\ DatabaseOpen(r)
  <2>1. known[r] = r
    BY <1>4 DEF DiscoveryInv
  <2>2. inbox' = Broadcast(box, r, "owner") /\ UNCHANGED <<known, held, heldCancels>>
    BY <1>4, <2>1 DEF ReceiveHello, Introduces, waitingVars
  <2>. QED
    BY <1>1, <1>4, <2>2, IntroducedFinds
<1>5. CASE ReceiveHello(r, m, box) /\ ~DatabaseOpen(r)
  <2>1. inbox' = box /\ UNCHANGED <<known, held, heldCancels>> /\ m.type = "hello"
    BY <1>5 DEF ReceiveHello, Introduces, waitingVars
  <2>2. Adds(box)
    <3>1. \A q \in Tab : inbox'[q] = box[q] \o <<>>
      BY <1>2, <2>1
    <3>2. <<>> \in Seq(Chat')
      OBVIOUS
    <3>. QED
      BY <2>1, <3>1, <3>2 DEF Adds
  <2>3. HeldAreOwn'
    BY <2>1, SameHeldOwn
  <2>4. BusInv'
    BY <1>1, <2>1, <2>2, <2>3, TakenTalk
  <2>5. DiscoveryInv'
    BY <1>1, <1>5, <2>1, <2>2, TakenFind
  <2>. QED
    BY <2>4, <2>5
<1>6. CASE ~ReceiveHello(r, m, box)
  <2>1. Adds(box) /\ HeldAreOwn'
    BY <1>1, <1>6, HandlesChat
  <2>2. m.type # "hello"
    BY <1>1, <1>6 DEF Handles, ReceiveOwner, ReceiveReleased, ReceiveCall, ReceiveReply
  <2>3. CASE ReceiveOwner(r, m, box)
    <3>1. m.type = "owner" /\ known' = [known EXCEPT ![r] = m.from]
      BY <2>3 DEF ReceiveOwner, OwnerFound, TypeOK
    <3>2. phase[m.from] \in Begun
      BY <1>2, <3>1 DEF Proper
    <3>3. \A t \in Tab : known'[t] = IF t = r THEN m.from ELSE known[t]
      BY <3>1 DEF TypeOK
    <3>4. ~DatabaseOpen(r)
      BY <1>2, <3>1 DEF DiscoveryInv
    <3>5. \A w \in Tab \ {r} : Serves(w) => known'[r] = w \/ Notice("owner", w) \in ToSet(box[r])
      <4>1. ASSUME NEW w \in Tab \ {r}, Serves(w), m.from # w
            PROVE  Notice("owner", w) \in ToSet(box[r])
        <5>1. LastWord(w, inbox[r])
          BY <1>1, <4>1 DEF DiscoveryInv, Taken
        <5>. QED
          BY <1>1, <3>1, <4>1, <5>1, TakenLeaves
      <4>. QED
        BY <3>3, <4>1
    <3>6. BusInv'
      BY <1>1, <2>1, <3>2, <3>3, TakenTalk
    <3>7. DiscoveryInv'
      BY <1>1, <2>1, <2>2, <3>3, <3>4, <3>5, TakenFind
    <3>. QED
      BY <3>6, <3>7
  <2>4. CASE ReceiveReleased(r, m, box)
    <3>1. m.type = "released" /\ phase[m.from] \in Over
      BY <1>2, <2>4 DEF ReceiveReleased, Proper
    <3>2. \/ known' = known
          \/ known[r] = m.from /\ known' = [known EXCEPT ![r] = None]
      BY <2>4 DEF ReceiveReleased, OwnerLost
    <3>3. \A t \in Tab : known'[t] = known[t] \/ (t = r /\ known[t] = m.from /\ known'[t] = None)
      BY <3>2 DEF TypeOK
    <3>4. ~DatabaseOpen(m.from)
      BY <3>1 DEF DatabaseOpen, Over
    <3>5. DatabaseOpen(r) => known'[r] = r
      BY <3>3, <3>4 DEF DiscoveryInv
    <3>6. \A w \in Tab \ {r} : Serves(w) => (known[r] = w => known'[r] = w)
      BY <3>3, <3>4 DEF Serves
    <3>7. BusInv'
      BY <1>1, <2>1, <3>3, TakenTalk
    <3>8. DiscoveryInv'
      BY <1>1, <2>1, <2>2, <3>1, <3>3, <3>5, <3>6, TakenFind
    <3>. QED
      BY <3>7, <3>8
  <2>5. CASE ReceiveCall(r, m, box) \/ ReceiveReply(r, m, box)
    <3>1. known' = known /\ m.type # "owner"
      BY <2>5 DEF ReceiveCall, ReceiveReply
    <3>2. DatabaseOpen(r) => known'[r] = r
      BY <3>1 DEF DiscoveryInv
    <3>3. BusInv'
      BY <1>1, <2>1, <3>1, TakenTalk
    <3>4. DiscoveryInv'
      BY <1>1, <2>1, <2>2, <3>1, <3>2, TakenFind
    <3>. QED
      BY <3>3, <3>4
  <2>. QED
    BY <1>1, <1>6, <2>3, <2>4, <2>5 DEF Handles
<1>. QED
  BY <1>4, <1>5, <1>6

-----------------------------------------------------------------------------
(* Calls.  A call that was accounted for stays so when its tab keeps what  *)
(* it knows of it, and its owner, if it still serves, keeps the call.      *)
Expected(id) == caller[id.req] # None /\ Accounted(id, caller[id.req])

LEMMA ExpectedParts ==
  ASSUME TypeOK, CallsInv, NEW id \in Id, answer[id] = "pending"
  PROVE  /\ Expected(id) /\ id.req \in Req /\ caller[id.req] \in Tab
         /\ Onward => caller'[id.req] = caller[id.req]
BY IdParts DEF CallsInv, Expected, Onward, TypeOK

LEMMA CallStays ==
  ASSUME TypeOK, CallsInv, Onward, NEW id \in Id, answer[id] = "pending",
         NEW t \in Tab, caller[id.req] = t,
         phase'[t] \in {"electing", "opening", "owner"},
         known'[t] = known[t], sent'[id] = sent[id], id \in Held(t) => id \in Held(t)',
         \A w \in Tab : known[t] = w /\ Serves(w)' =>
           Serves(w) /\ (UnderWay(w, id) => UnderWay(w, id)')
  PROVE  Expected(id)'
<1>1. caller'[id.req] = t /\ Expected(id)
  BY ExpectedParts
<1>2. PICK w : w = known[t]
  OBVIOUS
<1>3. w \in Tab \cup {None}
  BY <1>2 DEF TypeOK
<1>4. /\ phase'[t] \in {"electing", "opening", "owner"}
      /\ \/ w = None /\ id \in Held(t)'
         \/ w # None /\ sent'[id] = w /\ (Serves(w)' => UnderWay(w, id)')
  BY <1>1, <1>2, <1>3 DEF Expected, Accounted
<1>5. known'[t] = w
  BY <1>2
<1>. QED
  BY <1>1, <1>4, <1>5, NoneAssumption DEF Expected, Accounted

LEMMA WayStays ==
  ASSUME NEW w, NEW id, UnderWay(w, id), caller'[id.req] = caller[id.req],
         ~IsCancel(id) /\ (id.req \in ToSet(queue[w]) \/ active[w] = id.req) => UnderWay(w, id)',
         ToSet(inbox[w]) \subseteq ToSet(inbox'[w]),
         ToSet(inbox[caller[id.req]]) \subseteq ToSet(inbox'[caller[id.req]])
  PROVE  UnderWay(w, id)'
BY DEF UnderWay

(* Chat adds to the boxes.                                                 *)
LEMMA AddsGrow ==
  ASSUME NEW box \in [Tab -> Seq(Message)], Adds(box), NEW r \in Tab
  PROVE  ToSet(box[r]) \subseteq ToSet(inbox'[r])
<1>1. PICK msgs \in Seq(Chat') : inbox'[r] = box[r] \o msgs
  BY DEF Adds
<1>2. msgs \in Seq(Message)
  BY ChatTypes
<1>3. ToSet(box[r] \o msgs) = ToSet(box[r]) \cup ToSet(msgs)
  BY <1>2, ConcatSet
<1>. QED
  BY <1>1, <1>3

(* What the owner's ingress makes of a call: it is queued or answered, and *)
(* what it takes out of the queue is answered.                             *)
LEMMA OwnerTakes ==
  ASSUME TypeOK, NEW w \in Tab, NEW id \in Id
  PROVE  /\ \A d \in ToSet(queue[w]) :
              \/ d \in ToSet(NewQueue(w, id))
              \/ d = id.req /\ \E q \in ToSet(Replies(w, id)) : q.id = Request(d)
         /\ \/ ~IsCancel(id) /\ id.req \in ToSet(NewQueue(w, id))
            \/ \E q \in ToSet(Replies(w, id)) : q.id = id
<1>. DEFINE c == id.req
<1>1. c \in Req /\ queue[w] \in Seq(Req)
  BY IdParts DEF TypeOK
<1>2. Load(w) \in Nat /\ MaxPending \in Nat
  <2>1. Len(queue[w]) \in Nat
    BY <1>1
  <2>2. Load(w) = Len(queue[w]) + 0 \/ Load(w) = Len(queue[w]) + 1
    BY DEF Load
  <2>. QED
    BY <2>1, <2>2, LimitAssumption
<1>3. CASE ~IsCancel(id) /\ Load(w) < MaxPending
  <2>1. NewQueue(w, id) = Append(queue[w], c)
    BY <1>3 DEF NewQueue
  <2>2. ToSet(NewQueue(w, id)) = ToSet(queue[w]) \cup {c}
    BY <1>1, <2>1, AppendElems
  <2>. QED
    BY <1>3, <2>2
<1>4. CASE ~IsCancel(id) /\ ~(Load(w) < MaxPending)
  <2>1. NewQueue(w, id) = queue[w]
    BY <1>4 DEF NewQueue
  <2>2. Replies(w, id) = <<Answered(id, "OVERLOADED")>>
    BY <1>2, <1>4 DEF Replies
  <2>3. Answered(id, "OVERLOADED") \in ToSet(Replies(w, id))
    BY <2>2 DEF ToSet
  <2>. QED
    BY <2>1, <2>3 DEF Answered
<1>5. CASE IsCancel(id) /\ Queued(w, c)
  <2>1. Position(w, c) \in DOMAIN queue[w] /\ queue[w][Position(w, c)] = c
    BY <1>5 DEF Queued, Position
  <2>2. NewQueue(w, id) = RemoveAt(queue[w], Position(w, c))
    BY <1>5 DEF NewQueue
  <2>3. ToSet(queue[w]) \subseteq ToSet(NewQueue(w, id)) \cup {c}
    BY <1>1, <2>1, <2>2, RemoveSet
  <2>4. Replies(w, id) = <<Answered(Request(c), "CANCELLED"), Answered(id, "cancelled_before_commit")>>
    BY <1>5 DEF Replies
  <2>5. /\ Answered(Request(c), "CANCELLED") \in ToSet(Replies(w, id))
        /\ Answered(id, "cancelled_before_commit") \in ToSet(Replies(w, id))
    <3>1. DOMAIN Replies(w, id) = {1, 2}
      BY <2>4
    <3>. QED
      BY <2>4, <3>1 DEF ToSet
  <2>. QED
    BY <2>3, <2>5 DEF Answered
<1>6. CASE IsCancel(id) /\ ~Queued(w, c)
  <2>1. NewQueue(w, id) = queue[w]
    BY <1>6 DEF NewQueue
  <2>2. Replies(w, id) = <<Answered(id, CancelOutcome(w, c))>>
    BY <1>6 DEF Replies
  <2>3. Answered(id, CancelOutcome(w, c)) \in ToSet(Replies(w, id))
    BY <2>2 DEF ToSet
  <2>. QED
    BY <2>1, <2>3 DEF Answered
<1>. QED
  BY <1>3, <1>4, <1>5, <1>6

(* A call that enters its worker is accounted for, or answered at once;    *)
(* the others are not disturbed.                                           *)
LEMMA IngressCalls ==
  ASSUME TypeOK, BusInv, CallsInv, Onward, UNCHANGED <<phase, closing, known, active>>,
         NEW t \in Tab, NEW id \in Id, Live(t), caller'[id.req] = t, NEW ans \in [Id -> Answer],
         \A i \in Id \ {id} : ans[i] = "pending" => answer[i] = "pending",
         Ingress(t, id, ans) \/ Refused(ans, id)
  PROVE  CallsInv'
<1>. DEFINE c == id.req
<1>. USE DEF waitingVars
<1>1. c \in Req /\ Request(c) \in Id
  BY IdParts
<1>2. Adds(inbox)
  BY IngressTalks
<1>3. \A r \in Tab : ToSet(inbox[r]) \subseteq ToSet(inbox'[r])
  BY <1>2, AddsGrow DEF TypeOK
<1>4. ASSUME NEW i \in Id, i # id, answer[i] = "pending", sent'[i] = sent[i],
             \A u \in Tab : caller[i.req] = u /\ i \in Held(u) => i \in Held(u)',
             \A w \in Tab : \A d \in ToSet(queue[w]) : d \in ToSet(queue'[w]) \/ i # Request(d)
      PROVE  Expected(i)'
  <2>1. PICK u \in Tab : caller[i.req] = u
    BY <1>4, ExpectedParts
  <2>2. Expected(i) /\ caller'[i.req] = u /\ i.req \in Req
    BY <1>4, <2>1, ExpectedParts
  <2>3. phase'[u] \in {"electing", "opening", "owner"} /\ known'[u] = known[u]
    BY <2>1, <2>2 DEF Expected, Accounted
  <2>4. ASSUME NEW w \in Tab, Serves(w)'
        PROVE  Serves(w) /\ (UnderWay(w, i) => UnderWay(w, i)')
    <3>1. ~IsCancel(i) => i = Request(i.req)
      BY KindsOfId
    <3>2. UnderWay(w, i) => UnderWay(w, i)'
      BY <1>3, <1>4, <2>1, <2>2, <3>1, WayStays DEF UnderWay
    <3>. QED
      BY <2>4, <3>2 DEF Serves, Live, DatabaseOpen
  <2>. QED
    BY <1>4, <2>1, <2>3, <2>4, CallStays
<1>0. UNCHANGED <<held, heldCancels>> => \A u : Held(u)' = Held(u)
  BY DEF Held
<1>5. SUFFICES ASSUME NEW i \in Id, answer'[i] = "pending"
               PROVE  Expected(i)'
  BY DEF CallsInv, Expected
<1>6. phase'[t] \in {"electing", "opening", "owner"}
  BY DEF Live
<1>7. CASE IngressFull(t, id, ans) \/ Refused(ans, id)
  <2>1. answer' = [ans EXCEPT ![id] = "OVERLOADED"] /\ UNCHANGED <<held, heldCancels, sent, queue>>
    BY <1>7 DEF IngressFull, Refused
  <2>2. i # id /\ answer[i] = "pending"
    BY <1>5, <2>1
  <2>. QED
    BY <1>0, <1>4, <2>1, <2>2
<1>8. CASE IngressNotDispatched(t, id, ans)
  <2>1. /\ answer' = [Settled(ans, {Request(c)}, "CANCELLED") EXCEPT ![id] = "not_dispatched"]
        /\ held' = [held EXCEPT ![t] = RemoveAt(@, HeldAt(t, c))]
        /\ UNCHANGED <<heldCancels, sent, queue>>
    BY <1>8 DEF IngressNotDispatched
  <2>2. i # id /\ i # Request(c) /\ ans[i] = "pending"
    BY <1>1, <1>5, <2>1 DEF Settled
  <2>3. held[t] \in Seq(Req) /\ HeldAt(t, c) \in DOMAIN held[t] /\ held[t][HeldAt(t, c)] = c
    BY <1>8 DEF IngressNotDispatched, IsHeld, HeldAt, TypeOK
  <2>4. ToSet(held[t]) \subseteq ToSet(RemoveAt(held[t], HeldAt(t, c))) \cup {c}
    BY <2>3, RemoveSet
  <2>5. \A u \in Tab : \A d \in ToSet(held[u]) : d \in ToSet(held'[u]) \/ d = c
    BY <2>1, <2>4 DEF TypeOK
  <2>6. ASSUME NEW u \in Tab, i \in Held(u)
        PROVE  i \in Held(u)'
    <3>1. Held(u)' = {Request(d) : d \in ToSet(held'[u])} \cup {CancelOf(d) : d \in heldCancels[u]}
      BY <2>1 DEF Held, ToSet
    <3>2. Held(u) = {Request(d) : d \in ToSet(held[u])} \cup {CancelOf(d) : d \in heldCancels[u]}
      BY DEF Held, ToSet
    <3>. QED
      BY <2>2, <2>5, <2>6, <3>1, <3>2
  <2>. QED
    BY <1>4, <2>1, <2>2, <2>6, ExpectedParts
<1>9. CASE IngressHeld(t, id, ans)
  <2>1. answer' = ans /\ known[t] = None /\ UNCHANGED <<sent, queue>>
    BY <1>9 DEF IngressHeld
  <2>2. ASSUME NEW u \in Tab
        PROVE  /\ ToSet(held[u]) \subseteq ToSet(held'[u]) /\ heldCancels[u] \subseteq heldCancels'[u]
               /\ u = t => IF IsCancel(id) THEN c \in heldCancels'[u] ELSE c \in ToSet(held'[u])
    <3>1. ToSet(Append(held[t], c)) = ToSet(held[t]) \cup {c}
      BY <1>1, AppendElems DEF TypeOK
    <3>2. CASE held' = [held EXCEPT ![t] = Append(@, c)] /\ UNCHANGED heldCancels /\ ~IsCancel(id)
      BY <3>1, <3>2 DEF TypeOK
    <3>3. CASE heldCancels' = [heldCancels EXCEPT ![t] = @ \cup {c}] /\ UNCHANGED held /\ IsCancel(id)
      BY <3>3 DEF TypeOK
    <3>. QED
      BY <1>9, <3>2, <3>3 DEF IngressHeld
  <2>3. \A u : /\ Held(u) = {Request(d) : d \in ToSet(held[u])} \cup {CancelOf(d) : d \in heldCancels[u]}
               /\ Held(u)' = {Request(d) : d \in ToSet(held'[u])} \cup {CancelOf(d) : d \in heldCancels'[u]}
    BY DEF Held, ToSet
  <2>4. \A u \in Tab : Held(u) \subseteq Held(u)'
    BY <2>2, <2>3
  <2>5. CASE i = id
    <3>1. id \in Held(t)'
      BY <2>2, <2>3, KindsOfId
    <3>. QED
      BY <1>6, <2>1, <2>5, <3>1, NoneAssumption DEF Expected, Accounted
  <2>6. CASE i # id
    BY <1>4, <1>5, <2>1, <2>4, <2>6, ExpectedParts
  <2>. QED
    BY <2>5, <2>6
<1>10. CASE IngressForwarded(t, id, ans)
  <2>1. /\ known[t] \in Tab \ {t} /\ answer' = ans /\ sent' = [sent EXCEPT ![id] = known[t]]
        /\ inbox' = Post(inbox, known[t], <<CallMsg(t, id)>>) /\ UNCHANGED <<held, heldCancels, queue>>
    BY <1>10 DEF IngressForwarded
  <2>2. CASE i = id
    <3>1. sent'[i] = known[t] /\ known'[t] = known[t] /\ known[t] # None
      BY <2>1, <2>2, NoneAssumption DEF TypeOK
    <3>2. ASSUME Serves(known[t])'
          PROVE  UnderWay(known[t], i)'
      <4>1. Live(known[t])
        BY <3>2 DEF Serves, Live
      <4>2. CallMsg(t, id) \in Message /\ <<CallMsg(t, id)>> \in Seq(Message)
        BY CallMsgType
      <4>3. inbox'[known[t]] = inbox[known[t]] \o <<CallMsg(t, id)>>
        <5>1. inbox \in [Tab -> Seq(Message)] /\ known[t] \in Tab
          BY <2>1 DEF TypeOK
        <5>2. Post(inbox, known[t], <<CallMsg(t, id)>>)[known[t]] = inbox[known[t]] \o <<CallMsg(t, id)>>
          BY <4>1, <4>2, <5>1, PostIs
        <5>. QED
          BY <2>1, <5>2
      <4>4. inbox[known[t]] \in Seq(Message)
        BY <2>1 DEF TypeOK
      <4>5. CallMsg(t, id) \in ToSet(inbox'[known[t]])
        BY <4>2, <4>3, <4>4, OneMoreSet
      <4>. QED
        BY <2>2, <4>5 DEF UnderWay
    <3>. QED
      BY <1>6, <2>2, <3>1, <3>2, NoneAssumption DEF Expected, Accounted
  <2>3. CASE i # id
    <3>1. sent'[i] = sent[i]
      BY <2>1, <2>3 DEF TypeOK
    <3>. QED
      BY <1>0, <1>4, <1>5, <2>1, <2>3, <3>1
  <2>. QED
    BY <2>2, <2>3
<1>11. CASE IngressLocal(t, id, ans)
  <2>. DEFINE replies == ToSet(Replies(t, id))
              now == {r.id : r \in replies}
  <2>1. /\ known[t] = t /\ queue' = [queue EXCEPT ![t] = NewQueue(t, id)]
        /\ UNCHANGED <<held, heldCancels, inbox>>
        /\ answer' = [k \in Id |-> IF k \in now /\ ans[k] = "pending"
                                   THEN (CHOOSE r \in replies : r.id = k).value
                                   ELSE ans[k]]
        /\ sent' = [k \in Id |-> CASE k \in now -> None
                                    [] k = id /\ k \notin now -> t
                                    [] OTHER -> sent[k]]
    BY <1>11 DEF IngressLocal
  <2>2. \A q \in replies : q.value # "pending"
    BY RepliesAnswer
  <2>3. i \notin now /\ ans[i] = "pending"
    <3>1. ASSUME i \in now, ans[i] = "pending"
          PROVE  FALSE
      <4>1. (CHOOSE r \in replies : r.id = i) \in replies
        BY <3>1
      <4>2. answer'[i] = (CHOOSE r \in replies : r.id = i).value
        BY <2>1, <3>1
      <4>. QED
        BY <1>5, <2>2, <4>1, <4>2
    <3>2. ans[i] = "pending"
      BY <1>5, <2>1, <3>1
    <3>. QED
      BY <3>1, <3>2
  <2>4. \A w \in Tab : queue'[w] = IF w = t THEN NewQueue(t, id) ELSE queue[w]
    BY <2>1 DEF TypeOK
  <2>5. CASE i = id
    <3>1. \A q \in replies : q.id # id
      BY <2>3, <2>5
    <3>2. ~IsCancel(id) /\ c \in ToSet(queue'[t])
      BY <2>4, <3>1, OwnerTakes
    <3>3. sent'[i] = t /\ known'[t] = t
      BY <2>1, <2>3, <2>5
    <3>. QED
      BY <1>6, <2>5, <3>2, <3>3, NoneAssumption DEF Expected, Accounted, UnderWay
  <2>6. CASE i # id
    <3>1. sent'[i] = sent[i] /\ answer[i] = "pending"
      BY <2>1, <2>3, <2>6
    <3>2. ASSUME NEW w \in Tab, NEW d \in ToSet(queue[w]), i = Request(d)
          PROVE  d \in ToSet(queue'[w])
      <4>1. \A q \in replies : q.id # Request(d)
        BY <2>3, <3>2
      <4>. QED
        BY <2>4, <3>2, <4>1, OwnerTakes
    <3>. QED
      BY <1>0, <1>4, <2>1, <2>6, <3>1, <3>2
  <2>. QED
    BY <2>5, <2>6
<1>. QED
  BY <1>7, <1>8, <1>9, <1>10, <1>11 DEF Ingress

(* The steps of clients.                                                   *)
LEMMA ClientCalls ==
  ASSUME TypeOK, BusInv, CallsInv, Onward, NEW t \in Tab, Client(t)
  PROVE  CallsInv'
<1>1. ASSUME NEW c \in Req, NEW ans \in [Id -> Answer], SendCancel(t, c, ans), Live(t),
             caller'[c] = t, UNCHANGED <<phase, closing, known, active>>,
             \A i \in Id \ {CancelOf(c)} : ans[i] = "pending" => answer[i] = "pending"
      PROVE  CallsInv'
  <2>. DEFINE id == CancelOf(c)
              a == [ans EXCEPT ![id] = "pending"]
  <2>1. id \in Id /\ id.req = c
    BY IdParts, KindsOfId
  <2>2. a \in [Id -> Answer] /\ \A i \in Id \ {id} : a[i] = ans[i]
    BY AnswerValues
  <2>3. Ingress(t, id, a) \/ Refused(ans, id)
    BY <1>1 DEF SendCancel
  <2>. HIDE DEF id, a
  <2>4. CASE Ingress(t, id, a)
    BY <1>1, <2>1, <2>2, <2>4, IngressCalls DEF id
  <2>5. CASE Refused(ans, id)
    BY <1>1, <2>1, <2>5, IngressCalls DEF id
  <2>. QED
    BY <2>3, <2>4, <2>5
<1>2. ASSUME NEW c \in Req, Issue(t, c)
      PROVE  CallsInv'
  <2>. DEFINE id == Request(c)
              a == [answer EXCEPT ![id] = "pending"]
  <2>1. id \in Id /\ id.req = c
    BY IdParts, KindsOfId
  <2>2. a \in [Id -> Answer] /\ answer \in [Id -> Answer] /\ \A i \in Id \ {id} : a[i] = answer[i]
    BY AnswerValues DEF TypeOK
  <2>3. /\ Ingress(t, id, a) \/ Refused(answer, id)
        /\ Live(t) /\ caller'[c] = t /\ UNCHANGED <<phase, closing, known, active>>
    BY <1>2 DEF Issue, TypeOK
  <2>. HIDE DEF id, a
  <2>4. CASE Ingress(t, id, a)
    BY <2>1, <2>2, <2>3, <2>4, IngressCalls
  <2>5. CASE Refused(answer, id)
    BY <2>1, <2>2, <2>3, <2>5, IngressCalls
  <2>. QED
    BY <2>3, <2>4, <2>5
<1>3. ASSUME NEW c \in Req, Cancel(t, c)
      PROVE  CallsInv'
  BY <1>1, <1>3 DEF Cancel, TypeOK
<1>4. ASSUME NEW id \in Id, Timeout(t, id)
      PROVE  CallsInv'
  <2>. DEFINE a == [answer EXCEPT ![id] = "UNKNOWN_OUTCOME"]
  <2>1. a \in [Id -> Answer] /\ \A i \in Id : a[i] = "pending" => answer[i] = "pending" /\ i # id
    BY AnswerValues DEF TypeOK
  <2>2. id.req \in Req /\ caller[id.req] = t /\ UNCHANGED <<caller, phase, closing, known, active>>
    BY <1>4, IdParts DEF Timeout
  <2>3. CASE SendCancel(t, id.req, a) /\ Live(t)
    <3>. HIDE DEF a
    <3>. QED
      BY <1>1, <2>1, <2>2, <2>3
  <2>4. CASE answer' = a /\ UNCHANGED <<waitingVars, queue, aborted, inbox>>
    <3>1. ASSUME NEW i \in Id, answer'[i] = "pending"
          PROVE  Expected(i)'
      <4>1. answer[i] = "pending" /\ Expected(i)
        BY <2>1, <2>4, <3>1, ExpectedParts
      <4>. QED
        BY <2>2, <2>4, <4>1 DEF Expected, Accounted, UnderWay, Serves, Live, DatabaseOpen, Held, waitingVars
    <3>. QED
      BY <3>1 DEF CallsInv, Expected
  <2>. QED
    BY <1>4, <2>3, <2>4 DEF Timeout
<1>. QED
  BY <1>2, <1>3, <1>4, <1>1 DEF Client

(* Steps that leave what workers know of their calls alone, and keep what  *)
(* is under way.                                                           *)
LEMMA KeptCalls ==
  ASSUME TypeOK, CallsInv, Onward, UNCHANGED <<known, held, heldCancels>>,
         \A i \in Id : answer'[i] = "pending" => answer[i] = "pending" /\ sent'[i] = sent[i],
         \A u \in Tab : /\ phase[u] \in {"electing", "opening", "owner"}
                             => phase'[u] \in {"electing", "opening", "owner"}
                        /\ Serves(u)' => Serves(u)
                        /\ ToSet(inbox[u]) \subseteq ToSet(inbox'[u]),
         \A w \in Tab, i \in Id :
           /\ answer'[i] = "pending" /\ Serves(w)' /\ ~IsCancel(i)
           /\ i.req \in ToSet(queue[w]) \/ active[w] = i.req
           => UnderWay(w, i)'
  PROVE  CallsInv'
<1>1. ASSUME NEW i \in Id, answer'[i] = "pending"
      PROVE  Expected(i)'
  <2>1. answer[i] = "pending" /\ sent'[i] = sent[i]
    BY <1>1
  <2>2. PICK u \in Tab : caller[i.req] = u
    BY <2>1, ExpectedParts
  <2>3. Expected(i) /\ caller'[i.req] = u
    BY <2>1, <2>2, ExpectedParts
  <2>4. phase'[u] \in {"electing", "opening", "owner"}
    BY <2>2, <2>3 DEF Expected, Accounted
  <2>5. ASSUME NEW w \in Tab, Serves(w)'
        PROVE  Serves(w) /\ (UnderWay(w, i) => UnderWay(w, i)')
    BY <1>1, <2>2, <2>3, <2>5, WayStays
  <2>6. i \in Held(u) => i \in Held(u)'
    BY DEF Held
  <2>. QED
    BY <2>1, <2>2, <2>4, <2>5, <2>6, CallStays
<1>. QED
  BY <1>1 DEF CallsInv, Expected

LEMMA StartCalls ==
  ASSUME TypeOK, CallsInv, Onward, NEW t \in Tab, Start(t) \/ Grant(t)
  PROVE  CallsInv'
<1>. USE DEF clientVars, waitingVars, ownerVars, durable
<1>1. /\ UNCHANGED <<caller, answer, sent, known, held, heldCancels, queue, active, closing>>
      /\ phase[t] \in {"off", "electing"} /\ phase'[t] \in {"electing", "opening"}
      /\ \A u \in Tab \ {t} : phase'[u] = phase[u]
  BY DEF Start, Grant, TypeOK
<1>2. ASSUME NEW r \in Tab
      PROVE  ToSet(inbox[r]) \subseteq ToSet(inbox'[r])
  <2>1. CASE Start(t)
    <3>1. inbox[r] \in Seq(Message) /\ Notice("hello", t) \in Message
      BY DEF TypeOK, Notice, Msg, Message
    <3>2. ToSet(inbox[r] \o <<Notice("hello", t)>>) = ToSet(inbox[r]) \cup {Notice("hello", t)}
      BY <3>1, OneMoreSet
    <3>3. inbox'[r] \in {inbox[r], inbox[r] \o <<Notice("hello", t)>>}
      BY <2>1, InboxBroadcast DEF Start
    <3>. QED
      BY <3>2, <3>3
  <2>2. CASE Grant(t)
    BY <2>2 DEF Grant
  <2>. QED
    BY <2>1, <2>2
<1>3. \A w \in Tab : Serves(w)' => Serves(w)
  BY <1>1 DEF Serves, Live, DatabaseOpen
<1>4. \A w \in Tab, i \in Id : ~IsCancel(i) /\ (i.req \in ToSet(queue[w]) \/ active[w] = i.req)
         => UnderWay(w, i)'
  BY <1>1 DEF UnderWay
<1>5. \A u \in Tab : phase[u] \in {"electing", "opening", "owner"}
                       => phase'[u] \in {"electing", "opening", "owner"}
  BY <1>1
<1>. QED
  BY <1>1, <1>2, <1>3, <1>4, <1>5, KeptCalls

(* While an owner serves, whoever waits for an answer listens: only a      *)
(* worker that holds the archive keeps calls waiting while it closes.      *)
LEMMA CallerListens ==
  ASSUME TypeOK, ExclusionInv, BusInv, CallsInv, NEW id \in Id, answer[id] = "pending",
         NEW w \in Tab, Serves(w), NEW s \in Tab, caller[id.req] = s, s # w
  PROVE  Live(s)
<1>1. phase[s] \in {"electing", "opening", "owner"}
  BY ExpectedParts DEF Expected, Accounted
<1>2. ~Holds(s)
  BY DEF Serves, Live, DatabaseOpen, Holds, ExclusionInv
<1>. QED
  BY <1>1, <1>2 DEF BusInv, Begun, Live, Holds, TypeOK

(* The steps of the drain.                                                 *)
LEMMA DrainCalls ==
  ASSUME TypeOK, ExclusionInv, BusInv, CallsInv, Onward, NEW w \in Tab, Drain(w)
  PROVE  CallsInv'
<1>. USE DEF clientVars, waitingVars, ownerVars, durable
<1>1. /\ UNCHANGED <<caller, phase, closing, known, held, heldCancels, lock>>
      /\ Adds(inbox)
  <2>1. UNCHANGED <<caller, phase, closing, known, held, heldCancels, lock>>
    BY DEF Drain, Begin, Execute, Refuse, GateCloseFails, Finish, Maintain, Maintained
  <2>. QED
    BY <2>1, DrainTalks
<1>2. ASSUME NEW u \in Tab
      PROVE  /\ phase[u] \in {"electing", "opening", "owner"}
                  => phase'[u] \in {"electing", "opening", "owner"}
             /\ Serves(u)' => Serves(u)
             /\ ToSet(inbox[u]) \subseteq ToSet(inbox'[u])
  <2>1. ToSet(inbox[u]) \subseteq ToSet(inbox'[u])
    BY <1>1, AddsGrow DEF TypeOK
  <2>. QED
    BY <1>1, <2>1 DEF Serves, Live, DatabaseOpen
<1>3. CASE Begin(w)
  <2>1. /\ UNCHANGED <<answer, sent>>
        /\ queue[w] \in Seq(Req) /\ queue[w] # <<>>
        /\ active' = [active EXCEPT ![w] = queue[w][1]] /\ active[w] = 0
        /\ queue' = [queue EXCEPT ![w] = RemoveAt(queue[w], 1)]
    BY <1>3 DEF Begin, NextWork, TypeOK
  <2>2. 1 \in DOMAIN queue[w]
    BY <2>1
  <2>3. ToSet(queue[w]) \subseteq ToSet(RemoveAt(queue[w], 1)) \cup {queue[w][1]}
    BY <2>1, <2>2, RemoveSet
  <2>4. /\ queue'[w] = RemoveAt(queue[w], 1) /\ active'[w] = queue[w][1]
        /\ \A u \in Tab \ {w} : queue'[u] = queue[u] /\ active'[u] = active[u]
    BY <2>1 DEF TypeOK
  <2>5. ASSUME NEW u \in Tab, NEW i \in Id, ~IsCancel(i),
               i.req \in ToSet(queue[u]) \/ active[u] = i.req
        PROVE  UnderWay(u, i)'
    <3>1. CASE u = w
      <4>1. i.req # 0
        BY IdParts, CallsAssumption DEF Req
      <4>2. i.req \in ToSet(queue'[w]) \/ active'[w] = i.req
        BY <2>1, <2>3, <2>4, <2>5, <3>1, <4>1
      <4>. QED
        BY <2>5, <3>1, <4>2 DEF UnderWay
    <3>2. CASE u # w
      BY <2>4, <2>5, <3>2 DEF UnderWay
    <3>. QED
      BY <3>1, <3>2
  <2>. QED
    BY <1>1, <1>2, <2>1, <2>5, KeptCalls
<1>4. CASE Execute(w) \/ Refuse(w) \/ GateCloseFails(w) \/ Maintain(w) \/ Maintained(w)
  <2>1. UNCHANGED <<answer, sent, queue, active>>
    BY <1>4 DEF Execute, Refuse, GateCloseFails, Maintain, Maintained
  <2>2. \A u \in Tab, i \in Id : ~IsCancel(i) /\ (i.req \in ToSet(queue[u]) \/ active[u] = i.req)
           => UnderWay(u, i)'
    BY <2>1 DEF UnderWay
  <2>. QED
    BY <1>1, <1>2, <2>1, <2>2, KeptCalls
<1>5. CASE Finish(w)
  <2>. DEFINE id == Request(active[w])
              s == caller[active[w]]
  <2>1. /\ active[w] \in Req /\ id \in Id /\ id.req = active[w] /\ ~IsCancel(id)
        /\ result[w] \in {"OK", "CANCELLED", "FAILED"}
        /\ result[w] \in Answer /\ result[w] # "pending"
    BY <1>5, IdParts, KindsOfId, AnswerValues DEF Finish, TypeOK
  <2>2. /\ queue' = queue /\ active'[w] = 0 /\ \A u \in Tab \ {w} : active'[u] = active[u]
    BY <1>5 DEF Finish, TypeOK
  <2>3. \/ s = w /\ answer' = Settled(answer, {id}, result[w]) /\ sent' = Unsent({id})
        \/ /\ s # w /\ UNCHANGED <<answer, sent>>
           /\ inbox' = Post(inbox, s, <<ReplyMsg(w, id, result[w])>>)
    BY <1>5 DEF Finish, ReplyMsg
  <2>4. \A i \in Id : ~IsCancel(i) /\ i.req = active[w] => i = id
    BY KindsOfId
  <2>. HIDE DEF id, s
  <2>5. ASSUME NEW i \in Id, answer'[i] = "pending"
        PROVE  answer[i] = "pending" /\ sent'[i] = sent[i] /\ (s = w => i # id)
    BY <2>1, <2>3, <2>5 DEF Settled, Unsent, TypeOK
  <2>6. ASSUME NEW u \in Tab, NEW i \in Id, answer'[i] = "pending", Serves(u)', ~IsCancel(i),
               i.req \in ToSet(queue[u]) \/ active[u] = i.req
        PROVE  UnderWay(u, i)'
    <3>1. CASE i.req \in ToSet(queue'[u]) \/ active'[u] = i.req
      BY <2>6, <3>1 DEF UnderWay
    <3>2. CASE u = w /\ active[w] = i.req
      <4>1. i = id /\ s # w /\ answer[id] = "pending" /\ Serves(w)
        BY <1>2, <2>4, <2>5, <2>6, <3>2
      <4>2. s \in Tab /\ caller[id.req] = s /\ caller'[id.req] = s
        BY <1>1, <2>1, <4>1, ExpectedParts DEF s
      <4>3. Live(s)
        BY <2>1, <4>1, <4>2, CallerListens
      <4>4. ReplyMsg(w, id, result[w]) \in Message /\ <<ReplyMsg(w, id, result[w])>> \in Seq(Message)
        BY <2>1 DEF ReplyMsg, Msg, Message
      <4>5. inbox'[s] = inbox[s] \o <<ReplyMsg(w, id, result[w])>>
        <5>1. inbox' = Post(inbox, s, <<ReplyMsg(w, id, result[w])>>)
          BY <2>3, <4>1
        <5>. QED
          BY <4>2, <4>3, <4>4, <5>1, PostIs DEF TypeOK
      <4>6. ReplyMsg(w, id, result[w]) \in ToSet(inbox'[s])
        BY <4>2, <4>4, <4>5, OneMoreSet DEF TypeOK
      <4>. QED
        BY <2>1, <3>2, <4>1, <4>2, <4>6 DEF UnderWay
    <3>. QED
      BY <2>2, <2>6, <3>1, <3>2
  <2>. QED
    BY <1>1, <1>2, <2>5, <2>6, KeptCalls
<1>. QED
  BY <1>3, <1>4, <1>5 DEF Drain

(* A worker that leaves answers everything that waits in it; nobody else   *)
(* waits for it, unless it has the archive open and is served no more.     *)
Settles(t) ==
  /\ UNCHANGED caller
  /\ \A i \in Id : answer'[i] = "pending" => answer[i] = "pending" /\ sent'[i] = sent[i]
  /\ \A u \in Tab \ {t} : held'[u] = held[u] /\ heldCancels'[u] = heldCancels[u]
                          /\ queue'[u] = queue[u] /\ active'[u] = active[u]
  /\ \/ \A i \in Id : answer'[i] = "pending" => caller[i.req] # t
     \/ /\ Holds(t) /\ UNCHANGED <<phase, known, held, heldCancels>>

LEMMA LeaveSettles ==
  ASSUME TypeOK, NEW t \in Tab, OpenFails(t) \/ Close(t) \/ Release(t) \/ Crash(t)
  PROVE  Settles(t)
<1>. USE DEF clientVars, waitingVars, ownerVars, durable
<1>1. ASSUME NEW i \in Id, NEW ans \in [Id -> Answer],
             answer' = Settled(ans, Own(t), "UNKNOWN_OUTCOME"), NothingWaits(t),
             \A k \in Id : ans[k] = "pending" => answer[k] = "pending", answer'[i] = "pending"
      PROVE  answer[i] = "pending" /\ sent'[i] = sent[i] /\ caller[i.req] # t
  <2>1. i \notin Own(t) /\ ans[i] = "pending"
    BY <1>1 DEF Settled
  <2>. QED
    BY <1>1, <2>1 DEF Own, NothingWaits, Unsent
<1>2. ASSUME NEW value \in {"FAILED", "CLOSED"}, NEW ids
      PROVE  /\ Settled(answer, ids, value) \in [Id -> Answer]
             /\ \A k \in Id : Settled(answer, ids, value)[k] = "pending" => answer[k] = "pending"
  <2>1. answer \in [Id -> Answer] /\ value \in Answer
    BY AnswerValues DEF TypeOK
  <2>2. Settled(answer, ids, value) \in [Id -> Answer]
    BY <2>1, SettledType
  <2>3. \A k \in Id : Settled(answer, ids, value)[k] = "pending" => answer[k] = "pending"
    BY <1>2 DEF Settled
  <2>. QED
    BY <2>2, <2>3
<1>3. answer \in [Id -> Answer]
  BY DEF TypeOK
<1>4. CASE OpenFails(t)
  <2>1. answer' = Settled(Settled(answer, Waiting(t), "FAILED"), Own(t), "UNKNOWN_OUTCOME") /\ NothingWaits(t)
    BY <1>4 DEF OpenFails
  <2>2. \A i \in Id : answer'[i] = "pending" => answer[i] = "pending" /\ sent'[i] = sent[i] /\ caller[i.req] # t
    BY <1>1, <1>2, <2>1
  <2>3. UNCHANGED <<caller, queue, active>>
    BY <1>4 DEF OpenFails
  <2>4. \A u \in Tab \ {t} : held'[u] = held[u] /\ heldCancels'[u] = heldCancels[u]
    BY <2>1 DEF NothingWaits, TypeOK
  <2>. QED
    BY <2>2, <2>3, <2>4 DEF Settles
<1>5. CASE Close(t) /\ Holds(t)
  BY <1>5 DEF Close, Settles
<1>6. CASE (Close(t) /\ ~Holds(t)) \/ Release(t)
  <2>1. answer' = Settled(Settled(answer, Held(t), "CLOSED"), Own(t), "UNKNOWN_OUTCOME") /\ NothingWaits(t)
    BY <1>6 DEF Close, Release, Gone, FinalAnswers
  <2>2. \A i \in Id : answer'[i] = "pending" => answer[i] = "pending" /\ sent'[i] = sent[i] /\ caller[i.req] # t
    BY <1>1, <1>2, <2>1
  <2>3. UNCHANGED <<caller, queue, active>>
    BY <1>6 DEF Close, Release
  <2>4. \A u \in Tab \ {t} : held'[u] = held[u] /\ heldCancels'[u] = heldCancels[u]
    BY <2>1 DEF NothingWaits, TypeOK
  <2>. QED
    BY <2>2, <2>3, <2>4 DEF Settles
<1>7. CASE Crash(t)
  <2>1. answer' = Settled(answer, Own(t), "UNKNOWN_OUTCOME") /\ NothingWaits(t)
    BY <1>7 DEF Crash, Gone
  <2>2. \A i \in Id : answer'[i] = "pending" => answer[i] = "pending" /\ sent'[i] = sent[i] /\ caller[i.req] # t
    BY <1>1, <1>3, <2>1
  <2>3. caller' = caller /\ \A u \in Tab \ {t} : queue'[u] = queue[u] /\ active'[u] = active[u]
    BY <1>7 DEF Crash, TypeOK
  <2>4. \A u \in Tab \ {t} : held'[u] = held[u] /\ heldCancels'[u] = heldCancels[u]
    BY <2>1 DEF NothingWaits, TypeOK
  <2>. QED
    BY <2>2, <2>3, <2>4 DEF Settles
<1>. QED
  BY <1>4, <1>5, <1>6, <1>7

LEMMA LeaveCalls ==
  ASSUME TypeOK, ExclusionInv, BusInv, CallsInv, Onward, NEW t \in Tab, Leaves(t), Settles(t)
  PROVE  CallsInv'
<1>1. ASSUME NEW r \in Tab \ {t}
      PROVE  ToSet(inbox[r]) \subseteq ToSet(inbox'[r])
  <2>1. CASE inbox'[r] = inbox[r] \o <<Notice("released", t)>>
    <3>1. inbox[r] \in Seq(Message) /\ Notice("released", t) \in Message
      BY DEF TypeOK, Notice, Msg, Message
    <3>2. ToSet(inbox[r] \o <<Notice("released", t)>>) = ToSet(inbox[r]) \cup {Notice("released", t)}
      BY <3>1, OneMoreSet
    <3>. QED
      BY <2>1, <3>2
  <2>. QED
    BY <2>1 DEF Leaves
<1>2. SUFFICES ASSUME NEW i \in Id, answer'[i] = "pending"
               PROVE  Expected(i)'
  BY DEF CallsInv, Expected
<1>3. answer[i] = "pending" /\ sent'[i] = sent[i]
  BY <1>2 DEF Settles
<1>4. PICK u \in Tab : caller[i.req] = u
  BY <1>3, ExpectedParts
<1>5. Expected(i) /\ caller'[i.req] = u
  BY <1>3, <1>4, ExpectedParts
<1>6. ASSUME NEW w \in Tab, Serves(w)'
      PROVE  w # t /\ Serves(w) /\ Holds(w) /\ queue'[w] = queue[w] /\ active'[w] = active[w]
  BY <1>6 DEF Leaves, Settles, Serves, Live, DatabaseOpen, Holds
<1>7. CASE u # t
  <2>1. /\ phase'[u] \in {"electing", "opening", "owner"} /\ known'[u] = known[u]
        /\ i \in Held(u) => i \in Held(u)'
    BY <1>4, <1>5, <1>7 DEF Expected, Accounted, Leaves, Settles, Held
  <2>2. ASSUME NEW w \in Tab, Serves(w)'
        PROVE  Serves(w) /\ (UnderWay(w, i) => UnderWay(w, i)')
    BY <1>1, <1>4, <1>5, <1>6, <1>7, <2>2 DEF UnderWay
  <2>. QED
    BY <1>3, <1>4, <2>1, <2>2, CallStays
<1>8. CASE u = t
  <2>1. Holds(t) /\ UNCHANGED <<phase, known, held, heldCancels>>
    BY <1>2, <1>4, <1>8 DEF Settles
  <2>2. ASSUME NEW w \in Tab, Serves(w)'
        PROVE  FALSE
    BY <1>6, <2>1, <2>2 DEF ExclusionInv
  <2>3. phase'[t] \in {"electing", "opening", "owner"}
    BY <2>1 DEF Holds
  <2>4. i \in Held(u) => i \in Held(u)'
    BY <2>1 DEF Held
  <2>. QED
    BY <1>3, <1>4, <1>8, <2>1, <2>2, <2>3, <2>4, CallStays
<1>. QED
  BY <1>7, <1>8

(* A worker that becomes the owner queues the requests it held, answers    *)
(* the cancellations it held, and the calls it had sent to anybody else.   *)
LEMMA OpenCalls ==
  ASSUME TypeOK, ExclusionInv, BusInv, CallsInv, Onward, NEW t \in Tab, OpenOk(t)
  PROVE  CallsInv'
<1>. DEFINE cancels == {CancelOf(c) : c \in heldCancels[t]}
<1>1. /\ phase[t] = "opening" /\ known[t] # t
      /\ \A w \in Tab : Holds(w) => w = t
  BY NoneAssumption DEF OpenOk, ExclusionInv, DatabaseOpen, Holds
<1>2. /\ UNCHANGED <<caller, closing, active>>
      /\ phase'[t] = "owner" /\ known'[t] = t /\ queue'[t] = held[t]
      /\ \A u \in Tab \ {t} : /\ phase'[u] = phase[u] /\ known'[u] = known[u]
                              /\ held'[u] = held[u] /\ heldCancels'[u] = heldCancels[u]
  BY DEF OpenOk, TypeOK
<1>3. \A i \in Id : /\ answer'[i] = CASE answer[i] = "pending" /\ i \in cancels -> CancelOutcome(t, i.req)
                                     [] answer[i] = "pending" /\ i \in Stale(t, t) \ cancels -> "UNKNOWN_OUTCOME"
                                     [] OTHER -> answer[i]
                    /\ sent'[i] = CASE i \in Held(t) \ cancels -> t
                                    [] i \in Stale(t, t) \ Held(t) -> None
                                    [] OTHER -> sent[i]
  BY DEF OpenOk
<1>4. \A c : CancelOutcome(t, c) # "pending"
  BY DEF CancelOutcome
<1>5. Held(t) = {Request(c) : c \in ToSet(held[t])} \cup cancels
  BY DEF Held, ToSet
<1>6. \A i \in Held(t) : caller[i.req] = t
  BY <1>5, KindsOfId DEF BusInv
<1>. HIDE DEF cancels
<1>7. SUFFICES ASSUME NEW i \in Id, answer'[i] = "pending"
               PROVE  Expected(i)'
  BY DEF CallsInv, Expected
<1>8. answer[i] = "pending" /\ i \notin cancels /\ i \notin Stale(t, t)
  BY <1>3, <1>4, <1>7
<1>9. PICK u \in Tab : caller[i.req] = u
  BY <1>8, ExpectedParts
<1>10. Expected(i) /\ caller'[i.req] = u
  BY <1>8, <1>9, ExpectedParts
<1>11. CASE u = t
  <2>1. i \in Held(t)
    <3>1. CASE known[t] # None /\ sent[i] = known[t]
      <4>1. i \in Sent(t) /\ sent[i] # t
        BY <1>1, <1>9, <1>11, <3>1 DEF Sent, Own
      <4>. QED
        BY <1>8, <4>1 DEF Stale
    <3>. QED
      BY <1>9, <1>10, <1>11, <3>1 DEF Expected, Accounted
  <2>2. sent'[i] = t
    BY <1>3, <1>8, <2>1
  <2>3. ~IsCancel(i) /\ i.req \in ToSet(queue'[t])
    BY <1>2, <1>5, <1>8, <2>1, KindsOfId
  <2>4. UnderWay(t, i)'
    BY <2>3 DEF UnderWay
  <2>. QED
    BY <1>2, <1>10, <1>11, <2>2, <2>4, NoneAssumption DEF Expected, Accounted
<1>12. CASE u # t
  <2>1. i \notin Held(t) /\ sent'[i] = sent[i]
    BY <1>3, <1>6, <1>8, <1>9, <1>12
  <2>2. /\ phase'[u] \in {"electing", "opening", "owner"} /\ known'[u] = known[u]
        /\ i \in Held(u) => i \in Held(u)'
    BY <1>2, <1>9, <1>10, <1>12 DEF Expected, Accounted, Held
  <2>3. ASSUME NEW w \in Tab, known[u] = w, Serves(w)'
        PROVE  FALSE
    <3>1. CASE w = t
      BY <1>1, <2>3, <3>1, NoneAssumption DEF BusInv, Begun
    <3>2. CASE w # t
      BY <1>1, <1>2, <2>3, <3>2 DEF Serves, DatabaseOpen, Holds
    <3>. QED
      BY <3>1, <3>2
  <2>. QED
    BY <1>8, <1>9, <2>1, <2>2, <2>3, CallStays
<1>. QED
  BY <1>11, <1>12

(* An order of a set of requests leaves none of them out,                  *)
LEMMA OrdersAll ==
  ASSUME NEW S \in SUBSET Req, NEW s \in Orders(S), NEW c \in S
  PROVE  \E i \in DOMAIN s : s[i] = c
<1>0. IsFiniteSet(Req)
  BY CallsAssumption, FS_Interval DEF Req
<1>1. IsFiniteSet(S) /\ Cardinality(S) \in Nat
  BY <1>0, FS_Subset, FS_CardinalityType
<1>2. s \in [1 .. Cardinality(S) -> S] /\ \A i, j \in DOMAIN s : i # j => s[i] # s[j]
  BY DEF Orders
<1>3. s \in Injection(1 .. Cardinality(S), S)
  BY <1>2 DEF Injection, IsInjective
<1>4. IsFiniteSet(1 .. Cardinality(S)) /\ Cardinality(1 .. Cardinality(S)) = Cardinality(S)
  <2>1. \A n \in Nat : IsFiniteSet(1 .. n) /\ Cardinality(1 .. n) = n
    BY FS_Interval
  <2>. QED
    BY <1>1, <2>1
<1>5. s \in Surjection(1 .. Cardinality(S), S)
  BY <1>1, <1>3, <1>4, FS_Injection
<1>. QED
  BY <1>5 DEF Surjection

(* so an owner that is found is sent everything that was held.             *)
LEMMA HeldIsPosted ==
  ASSUME TypeOK, NEW r \in Tab, NEW cancels \in Orders(heldCancels[r]), NEW id \in Held(r)
  PROVE  CallMsg(r, id) \in ToSet(CallMsgs(r, held[r]) \o CancelMsgs(r, cancels))
<1>1. held[r] \in Seq(Req) /\ heldCancels[r] \in SUBSET Req
  BY DEF TypeOK
<1>2. cancels \in Seq(Req)
  BY <1>1, OrdersType
<1>3. CallMsgs(r, held[r]) \in Seq(Message) /\ CancelMsgs(r, cancels) \in Seq(Message)
  BY <1>1, <1>2, CallMsgsType
<1>4. ToSet(CallMsgs(r, held[r]) \o CancelMsgs(r, cancels)) =
        ToSet(CallMsgs(r, held[r])) \cup ToSet(CancelMsgs(r, cancels))
  BY <1>3, ConcatSet
<1>5. CASE \E i \in DOMAIN held[r] : id = Request(held[r][i])
  <2>1. CallMsg(r, id) \in ToSet(CallMsgs(r, held[r]))
    BY <1>5 DEF CallMsgs, ToSet
  <2>. QED
    BY <1>4, <2>1
<1>6. CASE \E c \in heldCancels[r] : id = CancelOf(c)
  <2>1. PICK i \in DOMAIN cancels : id = CancelOf(cancels[i])
    BY <1>1, <1>6, OrdersAll
  <2>2. CallMsg(r, id) \in ToSet(CancelMsgs(r, cancels))
    BY <2>1 DEF CancelMsgs, ToSet
  <2>. QED
    BY <1>4, <2>2
<1>. QED
  BY <1>5, <1>6 DEF Held

-----------------------------------------------------------------------------
(* Handling a message keeps a call under way, unless it is that call or    *)
(* its reply.                                                              *)
LEMMA TakenWay ==
  ASSUME TypeOK, BusInv, NEW r \in Tab, NEW m, NEW box, Taken(r, m, box),
         \A q \in Tab : ToSet(box[q]) \subseteq ToSet(inbox'[q]),
         NEW w \in Tab, NEW i \in Id, NEW u \in Tab, caller[i.req] = u, UnderWay(w, i),
         ~IsCancel(i) /\ i.req \in ToSet(queue[w]) => UnderWay(w, i)',
         m = CallMsg(u, i) => w # r,
         m.type = "reply" => m.id # i
  PROVE  UnderWay(w, i)'
<1>1. \A q \in Tab : ToSet(inbox[q]) \subseteq ToSet(inbox'[q]) \cup (IF q = r THEN {m} ELSE {})
  <2>1. \A q \in Tab : ToSet(inbox[q]) \subseteq ToSet(box[q]) \cup (IF q = r THEN {m} ELSE {})
    BY TakenLeaves
  <2>. QED
    BY <2>1
<1>2. UNCHANGED <<caller, active>>
  BY DEF Taken
<1>3. CASE ~IsCancel(i) /\ (i.req \in ToSet(queue[w]) \/ active[w] = i.req)
  BY <1>2, <1>3 DEF UnderWay
<1>4. CASE CallMsg(u, i) \in ToSet(inbox[w])
  <2>1. CallMsg(u, i) \in ToSet(inbox'[w])
    BY <1>1, <1>4
  <2>2. caller'[i.req] = u
    BY <1>2
  <2>. QED
    BY <2>1, <2>2 DEF UnderWay
<1>5. CASE \E v \in Answer : ReplyMsg(w, i, v) \in ToSet(inbox[u])
  <2>1. PICK v \in Answer : ReplyMsg(w, i, v) \in ToSet(inbox[u])
    BY <1>5
  <2>2. ReplyMsg(w, i, v) # m
    BY DEF ReplyMsg, Msg
  <2>3. ReplyMsg(w, i, v) \in ToSet(inbox'[u])
    BY <1>1, <2>1, <2>2
  <2>4. caller'[i.req] = u
    BY <1>2
  <2>. QED
    BY <2>3, <2>4 DEF UnderWay
<1>. QED
  BY <1>3, <1>4, <1>5 DEF UnderWay

(* What its tab knows of a call stays, and its owner keeps it.             *)
LEMMA TakenCall ==
  ASSUME TypeOK, BusInv, CallsInv, Onward, NEW r \in Tab, NEW m, NEW box, Taken(r, m, box),
         \A q \in Tab : ToSet(box[q]) \subseteq ToSet(inbox'[q]),
         queue' = queue, m.type # "call",
         NEW i \in Id, answer[i] = "pending", m.type = "reply" => m.id # i, sent'[i] = sent[i],
         NEW u \in Tab, caller[i.req] = u, known'[u] = known[u],
         held'[u] = held[u], heldCancels'[u] = heldCancels[u]
  PROVE  Expected(i)'
<1>1. UNCHANGED <<phase, closing, active>> /\ phase[u] \in {"electing", "opening", "owner"}
  BY ExpectedParts DEF Taken, Expected, Accounted
<1>2. ASSUME NEW w \in Tab, Serves(w)'
      PROVE  Serves(w) /\ (UnderWay(w, i) => UnderWay(w, i)')
  <2>1. m # CallMsg(u, i)
    BY DEF CallMsg, Msg
  <2>2. ~IsCancel(i) /\ i.req \in ToSet(queue[w]) => UnderWay(w, i)'
    BY DEF UnderWay
  <2>3. UnderWay(w, i) => UnderWay(w, i)'
    BY <2>1, <2>2, TakenWay
  <2>. QED
    BY <1>1, <1>2, <2>3 DEF Serves, Live, DatabaseOpen
<1>3. i \in Held(u) => i \in Held(u)'
  BY DEF Held
<1>. QED
  BY <1>1, <1>2, <1>3, CallStays

(* An owner that is lost or found.                                         *)
LEMMA OwnerLostCalls ==
  ASSUME TypeOK, BusInv, CallsInv, Onward, NEW r \in Tab, NEW m, NEW box, Taken(r, m, box),
         m.type = "released", known[r] # None, OwnerLost(r, box), queue' = queue
  PROVE  CallsInv'
<1>1. \A q \in Tab : ToSet(box[q]) \subseteq ToSet(inbox'[q])
  BY DEF OwnerLost
<1>2. SUFFICES ASSUME NEW i \in Id, answer'[i] = "pending"
               PROVE  Expected(i)'
  BY DEF CallsInv, Expected
<1>3. answer[i] = "pending" /\ i \notin Sent(r) /\ sent'[i] = sent[i]
  BY <1>2 DEF OwnerLost, Settled, Unsent
<1>4. PICK u \in Tab : caller[i.req] = u
  BY <1>3, ExpectedParts
<1>5. u # r
  <2>1. CASE u = r
    <3>1. sent[i] # None
      BY <1>3, <1>4, <2>1, ExpectedParts DEF Expected, Accounted
    <3>. QED
      BY <1>3, <1>4, <2>1, <3>1 DEF Sent, Own
  <2>. QED
    BY <2>1
<1>6. known'[u] = known[u] /\ held'[u] = held[u] /\ heldCancels'[u] = heldCancels[u]
  BY <1>5 DEF OwnerLost, TypeOK
<1>. QED
  BY <1>1, <1>3, <1>4, <1>6, TakenCall

LEMMA OwnerFoundCalls ==
  ASSUME TypeOK, BusInv, CallsInv, Onward, NEW r \in Tab, NEW m, NEW box, Taken(r, m, box),
         m.type = "owner", NEW next \in Tab, next # r, known[r] # next,
         OwnerFound(r, next, box), queue' = queue, Adds(box)
  PROVE  CallsInv'
<1>1. box \in [Tab -> Seq(Message)] /\ \A q \in Tab : ToSet(box[q]) \subseteq ToSet(inbox'[q])
  BY TakenLeaves, AddsGrow
<1>2. /\ known'[r] = next
      /\ \A u \in Tab \ {r} : known'[u] = known[u] /\ held'[u] = held[u] /\ heldCancels'[u] = heldCancels[u]
      /\ \A i \in Id : sent'[i] = CASE i \in Held(r) -> next
                                    [] i \in Stale(r, next) \ Held(r) -> None
                                    [] OTHER -> sent[i]
  BY DEF OwnerFound, TypeOK
<1>3. SUFFICES ASSUME NEW i \in Id, answer'[i] = "pending"
               PROVE  Expected(i)'
  BY DEF CallsInv, Expected
<1>4. answer[i] = "pending" /\ i \notin Stale(r, next)
  BY <1>3 DEF OwnerFound, Settled
<1>5. PICK u \in Tab : caller[i.req] = u
  BY <1>4, ExpectedParts
<1>6. Expected(i) /\ caller'[i.req] = u
  BY <1>4, <1>5, ExpectedParts
<1>7. CASE u # r
  <2>1. i \notin Held(r)
    BY <1>5, <1>7, KindsOfId DEF Held, BusInv, ToSet
  <2>2. sent'[i] = sent[i]
    BY <1>2, <1>4, <2>1
  <2>. QED
    BY <1>1, <1>2, <1>4, <1>5, <1>7, <2>2, TakenCall
<1>8. CASE u = r
  <2>1. i \in Held(r)
    <3>1. CASE known[r] # None /\ sent[i] = known[r]
      <4>1. i \in Sent(r) /\ sent[i] # next
        BY <1>5, <1>8, <3>1 DEF Sent, Own
      <4>. QED
        BY <1>4, <4>1 DEF Stale
    <3>. QED
      BY <1>5, <1>6, <1>8, <3>1 DEF Expected, Accounted
  <2>2. sent'[i] = next
    BY <1>2, <2>1
  <2>3. ASSUME Serves(next)'
        PROVE  UnderWay(next, i)'
    <3>1. Live(next)
      BY <2>3 DEF Serves, Live, Taken
    <3>2. PICK cancels \in Orders(heldCancels[r]) :
            inbox' = Post(box, next, CallMsgs(r, held[r]) \o CancelMsgs(r, cancels))
      BY DEF OwnerFound
    <3>. DEFINE msgs == CallMsgs(r, held[r]) \o CancelMsgs(r, cancels)
    <3>3. CallMsg(r, i) \in ToSet(msgs)
      BY <2>1, HeldIsPosted
    <3>4. msgs \in Seq(Message)
      BY HeldIsChat, ChatTypes
    <3>5. Post(box, next, msgs)[next] = box[next] \o msgs
      BY <1>1, <3>1, <3>4, PostIs
    <3>6. inbox'[next] = box[next] \o msgs
      BY <3>2, <3>5
    <3>. HIDE DEF msgs
    <3>7. ToSet(box[next] \o msgs) = ToSet(box[next]) \cup ToSet(msgs)
      BY <1>1, <3>4, ConcatSet
    <3>. QED
      BY <1>6, <1>8, <3>3, <3>6, <3>7 DEF UnderWay
  <2>4. phase'[r] \in {"electing", "opening", "owner"}
    BY DEF Taken, Live
  <2>. QED
    BY <1>2, <1>6, <1>8, <2>2, <2>3, <2>4, NoneAssumption DEF Expected, Accounted
<1>. QED
  BY <1>7, <1>8

(* A call that reaches the owner is queued or answered.                    *)
LEMMA CallTaken ==
  ASSUME TypeOK, ExclusionInv, BusInv, DiscoveryInv, CallsInv, Onward,
         NEW r \in Tab, NEW m, NEW box, Taken(r, m, box), ReceiveCall(r, m, box)
  PROVE  CallsInv'
<1>1. /\ m.type = "call" /\ m.id \in Id /\ m.id.req \in Req /\ m = CallMsg(caller[m.id.req], m.id)
      /\ m.from \in Tab /\ m.from = caller[m.id.req]
  <2>1. m \in Proper /\ m \in Message /\ m.type = "call"
    BY TakenLeaves DEF ReceiveCall
  <2>2. m.id \in Id /\ m.from \in Tab /\ m = CallMsg(caller[m.id.req], m.id)
    BY <2>1, MessageParts DEF Proper
  <2>3. m.from = caller[m.id.req]
    BY <2>2 DEF CallMsg, Msg
  <2>. QED
    BY <2>1, <2>2, <2>3, IdParts
<1>2. box \in [Tab -> Seq(Message)] /\ Adds(box) /\ \A q \in Tab : ToSet(box[q]) \subseteq ToSet(inbox'[q])
  <2>1. ~ReceiveHello(r, m, box)
    BY <1>1 DEF ReceiveHello
  <2>2. Adds(box)
    BY <2>1, HandlesChat DEF Handles
  <2>. QED
    BY <2>2, TakenLeaves, AddsGrow
<1>3. /\ UNCHANGED <<caller, answer, phase, closing, known, held, heldCancels, sent, active>> /\ Live(r)
      /\ \A w \in Tab \ {r} : queue'[w] = queue[w]
  BY DEF Taken, ReceiveCall, waitingVars, TypeOK
<1>4. SUFFICES ASSUME NEW i \in Id, answer'[i] = "pending"
               PROVE  Expected(i)'
  BY DEF CallsInv, Expected
<1>5. answer[i] = "pending"
  BY <1>3, <1>4
<1>6. PICK u \in Tab : caller[i.req] = u
  BY <1>5, ExpectedParts
<1>7. phase'[u] \in {"electing", "opening", "owner"}
  BY <1>3, <1>5, <1>6, ExpectedParts DEF Expected, Accounted
<1>8. ASSUME NEW w \in Tab, Serves(w)', UnderWay(w, i)
      PROVE  UnderWay(w, i)'
  <2>1. Serves(w)
    BY <1>3, <1>8 DEF Serves, Live, DatabaseOpen
  <2>2. CASE w # r
    <3>1. ~IsCancel(i) /\ i.req \in ToSet(queue[w]) => UnderWay(w, i)'
      BY <1>3, <2>2 DEF UnderWay
    <3>2. m.type # "reply" /\ (m = CallMsg(u, i) => w # r)
      BY <1>1, <2>2
    <3>3. \A q \in Tab : ToSet(box[q]) \subseteq ToSet(inbox'[q])
      BY <1>2
    <3>. QED
      BY <1>6, <1>8, <3>1, <3>2, <3>3, TakenWay
  <2>3. CASE w = r
    <3>1. known[r] = r
      BY <2>1, <2>3 DEF Serves, DiscoveryInv
    <3>2. queue'[r] = NewQueue(r, m.id) /\ inbox' = Post(box, m.from, ReplyMsgs(r, Replies(r, m.id)))
      BY <3>1 DEF ReceiveCall, TypeOK
    <3>3. ASSUME NEW q \in ToSet(Replies(r, m.id)), q.id = i, m.from = u
          PROVE  UnderWay(w, i)'
      <4>. DEFINE msgs == ReplyMsgs(r, Replies(r, m.id))
      <4>1. Live(u)
        BY <1>3, <1>5, <1>6, <2>1, <2>3, CallerListens
      <4>2. msgs \in Seq(Message) /\ q.value \in Answer
        BY <1>1, RepliesAnswer, ChatTypes
      <4>3. ReplyMsg(r, i, q.value) \in ToSet(msgs)
        BY <3>3 DEF ReplyMsgs, ReplyMsg, ToSet
      <4>. HIDE DEF msgs
      <4>4. Post(box, u, msgs)[u] = box[u] \o msgs
        BY <1>2, <4>1, <4>2, PostIs
      <4>5. inbox'[u] = box[u] \o msgs
        BY <3>2, <3>3, <4>4 DEF msgs
      <4>6. ToSet(box[u] \o msgs) = ToSet(box[u]) \cup ToSet(msgs)
        BY <1>2, <4>2, ConcatSet
      <4>7. ReplyMsg(w, i, q.value) \in ToSet(inbox'[u])
        BY <2>3, <4>3, <4>5, <4>6
      <4>8. caller'[i.req] = u
        BY <1>3, <1>6
      <4>. QED
        BY <4>2, <4>7, <4>8 DEF UnderWay
    <3>4. CASE m = CallMsg(u, i)
      <4>1. m.id = i /\ m.from = u
        BY <3>4 DEF CallMsg, Msg
      <4>2. \/ ~IsCancel(i) /\ i.req \in ToSet(queue'[r])
            \/ \E q \in ToSet(Replies(r, m.id)) : q.id = i
        BY <1>1, <3>2, <4>1, OwnerTakes
      <4>. QED
        BY <2>3, <3>3, <4>1, <4>2 DEF UnderWay
    <3>5. ASSUME ~IsCancel(i), i.req \in ToSet(queue[w])
          PROVE  UnderWay(w, i)'
      <4>1. \/ i.req \in ToSet(queue'[r])
            \/ i.req = m.id.req /\ \E q \in ToSet(Replies(r, m.id)) : q.id = Request(i.req)
        BY <1>1, <2>3, <3>2, <3>5, OwnerTakes
      <4>2. i = Request(i.req)
        BY <3>5, KindsOfId
      <4>. QED
        BY <1>1, <1>6, <2>3, <3>3, <3>5, <4>1, <4>2 DEF UnderWay
    <3>. QED
      BY <1>1, <1>2, <1>6, <1>8, <3>4, <3>5, TakenWay
  <2>. QED
    BY <2>2, <2>3
<1>9. i \in Held(u) => i \in Held(u)'
  BY <1>3 DEF Held
<1>10. \A w \in Tab : Serves(w)' => Serves(w)
  BY <1>3 DEF Serves, Live, DatabaseOpen
<1>. QED
  BY <1>3, <1>5, <1>6, <1>7, <1>8, <1>9, <1>10, CallStays

LEMMA ReceiveCalls ==
  ASSUME TypeOK, ExclusionInv, BusInv, DiscoveryInv, CallsInv, Onward, Prompt,
         NEW r \in Tab, Receive(r)
  PROVE  CallsInv'
<1>. USE DEF waitingVars
<1>1. PICK m, box : Taken(r, m, box) /\ Handles(r, m, box)
  BY ReceiveTakes
<1>2. /\ m \in Proper /\ m \in Message /\ m \in ToSet(inbox[r]) /\ m.from \in Tab
      /\ box \in [Tab -> Seq(Message)]
  BY <1>1, TakenLeaves, MessageParts
<1>3. ASSUME UNCHANGED <<answer, known, held, heldCancels, sent, queue>>,
             \A q \in Tab : ToSet(box[q]) \subseteq ToSet(inbox'[q]),
             m.type \in {"hello", "owner", "released"}
      PROVE  CallsInv'
  <2>1. ASSUME NEW i \in Id, answer'[i] = "pending"
        PROVE  Expected(i)'
    <3>1. PICK u \in Tab : caller[i.req] = u
      BY <1>3, <2>1, ExpectedParts
    <3>. QED
      BY <1>1, <1>3, <2>1, <3>1, TakenCall
  <2>. QED
    BY <2>1 DEF CallsInv, Expected
<1>4. CASE ReceiveHello(r, m, box)
  <2>1. \A q \in Tab : ToSet(box[q]) \subseteq ToSet(inbox'[q])
    <3>1. CASE inbox' = Broadcast(box, r, "owner")
      <4>1. ASSUME NEW q \in Tab
            PROVE  ToSet(box[q]) \subseteq ToSet(inbox'[q])
        <5>1. /\ Notice("owner", r) \in Message
              /\ inbox'[q] = IF q # r /\ Live(q) THEN box[q] \o <<Notice("owner", r)>> ELSE box[q]
          BY <1>2, <3>1, BroadcastIs
        <5>2. ToSet(box[q] \o <<Notice("owner", r)>>) = ToSet(box[q]) \cup {Notice("owner", r)}
          BY <1>2, <5>1, OneMoreSet
        <5>. QED
          BY <5>1, <5>2
      <4>. QED
        BY <4>1
    <3>. QED
      BY <1>4, <3>1 DEF ReceiveHello
  <2>. QED
    BY <1>3, <1>4, <2>1 DEF ReceiveHello
<1>5. CASE ReceiveOwner(r, m, box)
  <2>1. CASE known[r] = m.from
    BY <1>3, <1>5, <2>1 DEF ReceiveOwner, OwnerFound
  <2>2. CASE known[r] # m.from
    <3>1. m.type = "owner" /\ OwnerFound(r, m.from, box) /\ queue' = queue
      BY <1>5, <2>2 DEF ReceiveOwner
    <3>2. m.from # r
      <4>1. inbox[r] \in Seq(Heard(r)) /\ 1 \in DOMAIN inbox[r] /\ m = inbox[r][1]
        BY <1>1 DEF ExclusionInv, Taken
      <4>2. m \in Heard(r)
        BY <4>1
      <4>. QED
        BY <3>1, <4>2 DEF Heard
    <3>3. Adds(box)
      BY <1>1, <3>1, HandlesChat DEF ReceiveHello
    <3>. QED
      BY <1>1, <1>2, <2>2, <3>1, <3>2, <3>3, OwnerFoundCalls
  <2>. QED
    BY <2>1, <2>2
<1>6. CASE ReceiveReleased(r, m, box)
  <2>1. CASE known[r] = m.from
    BY <1>1, <1>2, <1>6, <2>1, NoneAssumption, OwnerLostCalls DEF ReceiveReleased
  <2>2. CASE known[r] # m.from
    BY <1>3, <1>6, <2>2 DEF ReceiveReleased
  <2>. QED
    BY <2>1, <2>2
<1>7. CASE ReceiveCall(r, m, box)
  BY <1>1, <1>7, CallTaken
<1>8. CASE ReceiveReply(r, m, box)
  <2>1. m.type = "reply" /\ m.value # "pending" /\ inbox' = box
        /\ answer' = Settled(answer, {m.id}, m.value) /\ sent' = Unsent({m.id})
        /\ UNCHANGED <<known, held, heldCancels, queue>>
    BY <1>2, <1>8 DEF ReceiveReply, Proper
  <2>2. ASSUME NEW i \in Id, answer'[i] = "pending"
        PROVE  Expected(i)'
    <3>1. answer[i] = "pending" /\ i # m.id /\ sent'[i] = sent[i]
      BY <2>1, <2>2 DEF Settled, Unsent
    <3>2. PICK u \in Tab : caller[i.req] = u
      BY <3>1, ExpectedParts
    <3>. QED
      BY <1>1, <2>1, <3>1, <3>2, TakenCall
  <2>. QED
    BY <2>2 DEF CallsInv, Expected
<1>. QED
  BY <1>1, <1>4, <1>5, <1>6, <1>7, <1>8 DEF Handles

-----------------------------------------------------------------------------
(* At the start nobody waits,                                              *)
LEMMA ProgressInit == Init => ProgressInv
<1>. SUFFICES ASSUME Init
              PROVE  ProgressInv
  OBVIOUS
<1>1. BusInv
  <2>1. \A r \in Tab : inbox[r] = <<>> /\ known[r] = None /\ held[r] = <<>> /\ heldCancels[r] = {}
                       /\ closing[r] = FALSE
    BY DEF Init
  <2>2. <<>> \in Seq(Proper) /\ ToSet(<<>>) = {}
    BY DEF ToSet
  <2>. QED
    BY <2>1, <2>2, NoneAssumption DEF Init, BusInv
<1>2. DiscoveryInv
  BY DEF Init, DiscoveryInv, Serves, DatabaseOpen
<1>3. CallsInv
  BY DEF Init, CallsInv
<1>. QED
  BY <1>1, <1>2, <1>3 DEF ProgressInv

(* and every step keeps whoever waits accounted for.                       *)
LEMMA ProgressStep ==
  ASSUME Prompt, TypeOK, TypeOK', ExclusionInv, ProgressInv, [Next]_vars
  PROVE  ProgressInv'
<1>1. BusInv /\ DiscoveryInv /\ CallsInv /\ Onward
  BY Onwards DEF ProgressInv
<1>2. CASE UNCHANGED vars
  <2>1. HeldAreOwn' /\ Adds(inbox)
    <3>1. UNCHANGED <<held, heldCancels, inbox>>
      BY <1>2 DEF vars, waitingVars
    <3>. QED
      BY <1>1, <3>1, SameHeldOwn, NothingAdded
  <2>2. BusInv' /\ DiscoveryInv'
    <3>1. UNCHANGED <<phase, closing, known, lock>>
      BY <1>2 DEF vars
    <3>. QED
      BY <1>1, <2>1, <3>1, AddsTalk, AddsFind
  <2>3. CallsInv'
    BY <1>1, <1>2 DEF vars, clientVars, waitingVars, ownerVars, CallsInv, Accounted, UnderWay,
                      Serves, Live, DatabaseOpen, Held
  <2>. QED
    BY <2>2, <2>3 DEF ProgressInv
<1>3. ASSUME NEW t \in Tab, Client(t)
      PROVE  ProgressInv'
  BY <1>1, <1>3, ClientTalks, AddsTalk, AddsFind, ClientCalls DEF ProgressInv
<1>4. ASSUME NEW t \in Tab, Drain(t)
      PROVE  ProgressInv'
  BY <1>1, <1>4, DrainTalks, AddsTalk, AddsFind, DrainCalls DEF ProgressInv
<1>5. ASSUME NEW t \in Tab, Start(t)
      PROVE  ProgressInv'
  BY <1>1, <1>5, StartFinds, StartCalls DEF ProgressInv
<1>6. ASSUME NEW t \in Tab, Grant(t)
      PROVE  ProgressInv'
  BY <1>1, <1>6, GrantFinds, StartCalls DEF ProgressInv
<1>7. ASSUME NEW t \in Tab, OpenOk(t)
      PROVE  ProgressInv'
  BY <1>1, <1>7, OpenFinds, OpenCalls DEF ProgressInv
<1>8. ASSUME NEW t \in Tab, Receive(t)
      PROVE  ProgressInv'
  BY <1>1, <1>8, ReceiveFinds, ReceiveCalls DEF ProgressInv
<1>9. ASSUME NEW t \in Tab, OpenFails(t) \/ Close(t) \/ Release(t) \/ Crash(t)
      PROVE  ProgressInv'
  <2>1. Leaves(t) /\ HeldAreOwn' /\ Settles(t)
    BY <1>1, <1>9, LeaveLeaves, LeaveSettles
  <2>. QED
    BY <1>1, <2>1, LeavesTalk, LeavesFind, LeaveCalls DEF ProgressInv
<1>. QED
  BY <1>2, <1>3, <1>4, <1>5, <1>6, <1>7, <1>8, <1>9 DEF Next, Election

(* When nobody has work left, the boxes are empty, whoever has the archive *)
(* serves it with nothing queued or running, and every open tab knows it:  *)
(* nothing is left for a call to wait for.                                 *)
LEMMA SilenceSettles ==
  ASSUME TypeOK, ExclusionInv, ProgressInv
  PROVE  SilentMeansSettled
<1>. SUFFICES ASSUME \A t \in Tab : ~HasWork(t)
              PROVE  /\ \A id \in Id : answer[id] # "pending"
                     /\ \A t, w \in Tab : Live(t) /\ Serves(w) => known[t] = w
  BY DEF SilentMeansSettled, Serves
<1>1. BusInv /\ DiscoveryInv /\ CallsInv
  BY DEF ProgressInv
<1>2. \A t \in Tab : inbox[t] = <<>>
  BY <1>1 DEF HasWork, BusInv
<1>3. \A t \in Tab : ToSet(inbox[t]) = {}
  BY <1>2 DEF ToSet
<1>4. ASSUME NEW t \in Tab, Holds(t)
      PROVE  Serves(t) /\ Drained(t)
  <2>1. CASE phase[t] = "opening"
    <3>1. Drained(t)
      BY <2>1 DEF ExclusionInv, DatabaseOpen, LeftBehind, Drained
    <3>2. closing[t] \in BOOLEAN
      BY DEF TypeOK
    <3>. QED
      BY <1>2, <1>4, <2>1, <3>1, <3>2 DEF HasWork
  <2>2. CASE phase[t] = "owner"
    <3>1. Drained(t)
      BY <2>2 DEF HasWork, DatabaseOpen
    <3>2. ~closing[t]
      BY <1>4, <3>1 DEF HasWork
    <3>. QED
      BY <2>2, <3>1, <3>2 DEF Serves, Live, DatabaseOpen
  <2>. QED
    BY <1>4, <2>1, <2>2 DEF Holds
<1>5. ASSUME NEW t \in Tab, NEW w \in Tab, Live(t), Serves(w)
      PROVE  known[t] = w
  BY <1>1, <1>3, <1>5 DEF DiscoveryInv, Finds, Serves
<1>6. ASSUME NEW id \in Id, answer[id] = "pending"
      PROVE  FALSE
  <2>1. PICK u \in Tab : caller[id.req] = u
    BY <1>1, <1>6, ExpectedParts
  <2>2. phase[u] \in {"electing", "opening", "owner"}
    BY <1>1, <1>6, <2>1, ExpectedParts DEF Expected, Accounted
  <2>3. Live(u)
    <3>1. CASE Holds(u)
      BY <1>4, <3>1 DEF Serves
    <3>2. CASE phase[u] = "electing"
      <4>1. closing[u] \in BOOLEAN
        BY DEF TypeOK
      <4>. QED
        BY <1>1, <3>2, <4>1 DEF BusInv, Begun, Live
    <3>. QED
      BY <2>2, <3>1, <3>2 DEF Holds
  <2>4. PICK h \in Tab : lock = h
    <3>1. lock # None
      BY <2>2, <2>3, NoneAssumption DEF HasWork, Holds, ExclusionInv
    <3>. QED
      BY <3>1 DEF TypeOK
  <2>5. Serves(h) /\ Drained(h)
    BY <1>1, <1>4, <2>4 DEF BusInv
  <2>6. known[u] = h
    BY <1>5, <2>3, <2>5
  <2>7. UnderWay(h, id)
    BY <1>1, <1>6, <2>1, <2>5, <2>6, NoneAssumption, ExpectedParts DEF Expected, Accounted
  <2>8. id.req # 0 /\ ToSet(queue[h]) = {} /\ active[h] = 0
    BY <2>5, IdParts, CallsAssumption DEF Req, Drained, ToSet
  <2>. QED
    BY <1>3, <2>1, <2>7, <2>8 DEF UnderWay
<1>. QED
  BY <1>5, <1>6

-----------------------------------------------------------------------------
(* Whatever crashes, closes or is taken over, a call that waits for an     *)
(* answer is held by a worker that looks for the owner, or was sent to the *)
(* owner its worker knows; and if that owner serves, the call is on its    *)
(* way there, queued or running, or its answer is on the way back.         *)
THEOREM Accounting ==
  ASSUME Prompt
  PROVE  Spec => []CallsInv
<1>1. ProgressInv => CallsInv
  BY DEF ProgressInv
<1>2. TypeOK /\ TypeOK' /\ ExclusionInv /\ ProgressInv /\ [Next]_vars => ProgressInv'
  BY ProgressStep
<1>. QED
  BY <1>1, <1>2, ProgressInit, ExclusionInit, ExclusionStep, Typing, PTL DEF Spec

(* An open tab knows the owner that serves, or is about to hear of it and  *)
(* of nobody else after it: no order of greetings, announcements and       *)
(* releases leaves it with an owner that is gone.                          *)
THEOREM Discovery ==
  ASSUME Prompt
  PROVE  Spec => []DiscoveryInv
<1>1. ProgressInv => DiscoveryInv
  BY DEF ProgressInv
<1>2. TypeOK /\ TypeOK' /\ ExclusionInv /\ ProgressInv /\ [Next]_vars => ProgressInv'
  BY ProgressStep
<1>. QED
  BY <1>1, <1>2, ProgressInit, ExclusionInit, ExclusionStep, Typing, PTL DEF Spec

(* The archive never falls silent on a caller: a call that is not answered *)
(* has a worker with something left to do, whatever happened before.       *)
THEOREM NeverSilent ==
  ASSUME Prompt
  PROVE  Spec => []SilentMeansSettled
<1>1. TypeOK /\ ExclusionInv /\ ProgressInv => SilentMeansSettled
  BY SilenceSettles
<1>2. TypeOK /\ TypeOK' /\ ExclusionInv /\ ProgressInv /\ [Next]_vars => ProgressInv'
  BY ProgressStep
<1>. QED
  BY <1>1, <1>2, ProgressInit, ExclusionInit, ExclusionStep, Typing, PTL DEF Spec
=============================================================================
