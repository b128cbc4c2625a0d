----------------------- MODULE ArchivePromiseProofs -----------------------
(***************************************************************************)
(* That the archive keeps the promises of OnceService: every step of the   *)
(* workers, the bus, the lock and the clients is a step of that service,   *)
(* for any number of tabs, requests, transactions and limits.              *)
(***************************************************************************)
EXTENDS ArchiveRuntimeProofs

-----------------------------------------------------------------------------
(* Order.  The requests of one caller keep the order in which they were    *)
(* issued, in each place and from place to place; only the calls that a    *)
(* closed owner left behind, which have no effect, may be overtaken.       *)
Before(c, d) == c < d /\ caller[c] = caller[d]
Stage(k) ==
  CASE k = "held" -> 1 [] k = "bus" -> 2 [] k = "queue" -> 3 [] k = "active" -> 4
StageInv ==
  \A c, d \in Req : Before(c, d) =>
    \A k, l \in Place, t, u \in Tab : c \in At(k, t) /\ d \in At(l, u) =>
      Stage(l) <= Stage(k) \/ LeftBehind(t) \/ LeftBehind(u)

(* No earlier request of its caller is left to execute once a request has  *)
(* taken effect.                                                           *)
LateInv ==
  \A c, d \in Req : Before(c, d) /\ d \in Done =>
    /\ \A k \in Place \ {"active"}, t \in Tab : c \in At(k, t) => LeftBehind(t)
    /\ \A t \in Tab : active[t] = c => result[t] # "running" \/ LeftBehind(t)
Stays == \A t \in Tab : LeftBehind(t) => LeftBehind(t)'

InOrder(cl, s) == \A i, j \in DOMAIN s : cl[s[i]] = cl[s[j]] /\ s[i] < s[j] => i < j
LineInv == \A t \in Tab : InOrder(caller, held[t]) /\ InOrder(caller, queue[t])

(* Requests on the bus come from their callers, in order, to the owner.    *)
Opened(ph, w) == ph[w] \in {"owner", "failed", "closed"}
CallsInOrder(cl, box) ==
  \A i, j \in DOMAIN box : \A c, d \in Req :
    IsRequestCall(box[i], c) /\ IsRequestCall(box[j], d) /\ cl[c] = cl[d] /\ c < d => i < j
FromCallers(cl, w, box) ==
  \A i \in DOMAIN box : \A c \in Req :
    IsRequestCall(box[i], c) => box[i].from = cl[c] /\ cl[c] # w
FromOwners(ph, box) ==
  \A i \in DOMAIN box : box[i].type = "owner" => Opened(ph, box[i].from)
Tidy(cl, ph, w, box) == CallsInOrder(cl, box) /\ FromCallers(cl, w, box) /\ FromOwners(ph, box)

RouteInv ==
  /\ \A c \in Issued, d \in Req : d < c => d \in Issued
  /\ \A t \in Tab : \A c \in ToSet(held[t]) : caller[c] = t
  /\ \A w \in Tab : Tidy(caller, phase, w, inbox[w])
  /\ \A w \in Tab : InBox(inbox[w]) # {} => DatabaseOpen(w)
  /\ \A t \in Tab : known[t] # None => held[t] = <<>> /\ Opened(phase, known[t])

OrderInv == StageInv /\ LateInv /\ LineInv /\ RouteInv

(* What callers are told to have taken effect has its receipt.             *)
Confirms(id, value) == value = IF IsCancel(id) THEN "committed" ELSE "OK"
ReceiptInv ==
  /\ \A id \in Id : Confirms(id, answer[id]) => HasReceipt(id.req)
  /\ \A t \in Tab : active[t] = 0 => result[t] = "running"
  /\ \A t \in Tab : active[t] # 0 /\ result[t] = "OK" => HasReceipt(active[t])
  /\ \A t \in Tab : \A i \in DOMAIN inbox[t] :
       inbox[t][i].type = "reply" /\ Confirms(inbox[t][i].id, inbox[t][i].value)
         => HasReceipt(inbox[t][i].id.req)

-----------------------------------------------------------------------------
(* Order in sequences.                                                     *)
LEMMA InOrderRemove ==
  ASSUME NEW cl, NEW S, NEW s \in Seq(S), NEW i \in DOMAIN s, InOrder(cl, s)
  PROVE  InOrder(cl, RemoveAt(s, i))
<1>. DEFINE r == RemoveAt(s, i)
            f(k) == IF k < i THEN k ELSE k + 1
<1>1. i \in 1 .. Len(s) /\ Len(s) \in Nat /\ DOMAIN s = 1 .. Len(s)
  OBVIOUS
<1>2. DOMAIN r = 1 .. Len(s) - 1 /\ \A k \in DOMAIN r : r[k] = s[f(k)]
  BY RemoveAtElems
<1>. HIDE DEF r
<1>3. \A k \in DOMAIN r : f(k) \in DOMAIN s
  BY <1>1, <1>2
<1>4. \A k, l \in DOMAIN r : f(k) < f(l) => k < l
  BY <1>1, <1>2
<1>. HIDE DEF f
<1>5. InOrder(cl, r)
  BY <1>2, <1>3, <1>4 DEF InOrder
<1>. QED
  BY <1>5 DEF r

(* Appending what comes last keeps the order.                              *)
LEMMA InOrderAppend ==
  ASSUME NEW cl, NEW s \in Seq(Req), NEW x \in Req, InOrder(cl, s),
         \A y \in ToSet(s) : cl[y] = cl[x] => y < x
  PROVE  InOrder(cl, Append(s, x))
<1>. DEFINE r == Append(s, x)
<1>1. Len(s) \in Nat /\ DOMAIN s = 1 .. Len(s) /\ \A k \in DOMAIN s : s[k] \in Req
  OBVIOUS
<1>2. /\ DOMAIN r = 1 .. Len(s) + 1 /\ r[Len(s) + 1] = x
      /\ \A k \in DOMAIN s : r[k] = s[k]
  OBVIOUS
<1>. HIDE DEF r
<1>3. \A y, z \in Req : y < z => ~(z < y) /\ ~(y = z)
  BY DEF Req
<1>4. ASSUME NEW i \in DOMAIN r, NEW j \in DOMAIN r, cl[r[i]] = cl[r[j]], r[i] < r[j]
      PROVE  i < j
  <2>1. CASE i \in DOMAIN s /\ j \in DOMAIN s
    BY <1>2, <1>4, <2>1 DEF InOrder
  <2>2. CASE i \notin DOMAIN s
    <3>1. i = Len(s) + 1 /\ r[i] = x
      BY <1>1, <1>2, <2>2
    <3>2. CASE j \in DOMAIN s
      <4>1. r[j] \in ToSet(s) /\ r[j] \in Req
        BY <1>1, <1>2, <3>2 DEF ToSet
      <4>2. r[j] < x
        BY <1>4, <3>1, <4>1
      <4>. QED
        BY <1>3, <1>4, <3>1, <4>1, <4>2
    <3>3. CASE j \notin DOMAIN s
      <4>1. r[j] = x
        BY <1>1, <1>2, <3>3
      <4>. QED
        BY <1>4, <3>1, <4>1 DEF Req
    <3>. QED
      BY <3>2, <3>3
  <2>3. CASE i \in DOMAIN s /\ j \notin DOMAIN s
    BY <1>1, <1>2, <2>3
  <2>. QED
    BY <2>1, <2>2, <2>3
<1>5. InOrder(cl, r)
  BY <1>4 DEF InOrder
<1>. QED
  BY <1>5 DEF r

(* The first of a sequence comes before the others of its caller.          *)
LEMMA InOrderFirst ==
  ASSUME NEW cl, NEW s \in Seq(Req), s # <<>>, InOrder(cl, s), Single(s),
         NEW y \in ToSet(RemoveAt(s, 1)), cl[y] = cl[s[1]]
  PROVE  s[1] < y
<1>1. Len(s) \in Nat /\ DOMAIN s = 1 .. Len(s) /\ 1 \in DOMAIN s /\ s[1] \in Req
  OBVIOUS
<1>2. y \in ToSet(s) \ {s[1]}
  BY <1>1, RemoveAtSingle
<1>3. PICK k \in DOMAIN s : y = s[k]
  BY <1>2 DEF ToSet
<1>4. y \in Req /\ y # s[1] /\ ~(k < 1)
  BY <1>1, <1>2, <1>3
<1>5. ~(y < s[1])
  BY <1>1, <1>3, <1>4 DEF InOrder
<1>. QED
  BY <1>1, <1>4, <1>5 DEF Req

(* Order in boxes.                                                         *)
LEMMA TidyRemove ==
  ASSUME NEW cl, NEW ph, NEW w, NEW box \in Seq(Message), NEW i \in DOMAIN box, Tidy(cl, ph, w, box)
  PROVE  Tidy(cl, ph, w, RemoveAt(box, i))
<1>. DEFINE r == RemoveAt(box, i)
            f(k) == IF k < i THEN k ELSE k + 1
<1>1. i \in 1 .. Len(box) /\ Len(box) \in Nat /\ DOMAIN box = 1 .. Len(box)
  OBVIOUS
<1>2. DOMAIN r = 1 .. Len(box) - 1 /\ \A k \in DOMAIN r : r[k] = box[f(k)]
  BY RemoveAtElems
<1>. HIDE DEF r
<1>3. \A k \in DOMAIN r : f(k) \in DOMAIN box
  BY <1>1, <1>2
<1>4. \A k, l \in DOMAIN r : f(k) < f(l) => k < l
  BY <1>1, <1>2
<1>. HIDE DEF f
<1>5. CallsInOrder(cl, r)
  BY <1>2, <1>3, <1>4 DEF Tidy, CallsInOrder
<1>6. FromCallers(cl, w, r)
  BY <1>2, <1>3 DEF Tidy, FromCallers
<1>7. FromOwners(ph, r)
  BY <1>2, <1>3 DEF Tidy, FromOwners
<1>. QED
  BY <1>5, <1>6, <1>7 DEF Tidy, r

(* Posting messages keeps a box in order if their requests are the newest  *)
(* of their callers.                                                       *)
LEMMA TidyConcat ==
  ASSUME NEW cl, NEW ph, NEW w, NEW box \in Seq(Message), NEW msgs \in Seq(Message),
         Tidy(cl, ph, w, box), Tidy(cl, ph, w, msgs),
         \A c \in InBox(msgs), d \in InBox(box) : cl[c] = cl[d] => d < c
  PROVE  Tidy(cl, ph, w, box \o msgs)
<1>. DEFINE r == box \o msgs
<1>1. /\ Len(box) \in Nat /\ DOMAIN box = 1 .. Len(box)
      /\ Len(msgs) \in Nat /\ DOMAIN msgs = 1 .. Len(msgs)
  OBVIOUS
<1>2. /\ DOMAIN r = 1 .. Len(box) + Len(msgs)
      /\ \A k \in DOMAIN r : r[k] = IF k <= Len(box) THEN box[k] ELSE msgs[k - Len(box)]
  BY ConcatProperties
<1>. HIDE DEF r
<1>3. \A k \in DOMAIN r : \/ k \in DOMAIN box /\ r[k] = box[k]
                          \/ k \notin DOMAIN box /\ k - Len(box) \in DOMAIN msgs
                             /\ r[k] = msgs[k - Len(box)]
  BY <1>1, <1>2
<1>4. FromCallers(cl, w, r) /\ FromOwners(ph, r)
  BY <1>3 DEF Tidy, FromCallers, FromOwners
<1>5. ASSUME NEW i \in DOMAIN r, NEW j \in DOMAIN r, NEW c \in Req, NEW d \in Req,
             IsRequestCall(r[i], c), IsRequestCall(r[j], d), cl[c] = cl[d], c < d
      PROVE  i < j
  <2>1. CASE i \in DOMAIN box /\ j \in DOMAIN box
    <3>1. r[i] = box[i] /\ r[j] = box[j]
      BY <1>3, <2>1
    <3>. QED
      BY <1>5, <2>1, <3>1 DEF Tidy, CallsInOrder
  <2>2. CASE i \notin DOMAIN box /\ j \notin DOMAIN box
    <3>1. i - Len(box) < j - Len(box)
      BY <1>3, <1>5, <2>2 DEF Tidy, CallsInOrder
    <3>. QED
      BY <1>1, <1>2, <3>1
  <2>3. CASE i \in DOMAIN box /\ j \notin DOMAIN box
    BY <1>1, <1>2, <2>3
  <2>4. CASE i \notin DOMAIN box /\ j \in DOMAIN box
    <3>1. c \in InBox(msgs)
      BY <1>3, <1>5, <2>4 DEF InBox
    <3>2. d \in InBox(box)
      <4>1. r[j] = box[j]
        BY <1>3, <2>4
      <4>. QED
        BY <1>5, <2>4, <4>1 DEF InBox
    <3>3. d < c
      BY <1>5, <3>1, <3>2
    <3>. QED
      BY <1>5, <3>3 DEF Req
  <2>. QED
    BY <2>1, <2>2, <2>3, <2>4
<1>6. CallsInOrder(cl, r)
  BY <1>5 DEF CallsInOrder
<1>. QED
  BY <1>4, <1>6 DEF Tidy, r

(* An empty box is in order.                                               *)
LEMMA TidyEmpty == \A cl, ph, w : Tidy(cl, ph, w, <<>>)
BY DEF Tidy, CallsInOrder, FromCallers, FromOwners

(* Issuing a request, and opening or leaving the archive, disturb no box.  *)
LEMMA TidyStays ==
  ASSUME NEW cl, NEW ph, NEW cl2, NEW ph2, NEW w, NEW box \in Seq(Message), Tidy(cl, ph, w, box),
         \A c \in InBox(box) : cl2[c] = cl[c],
         \A u \in Tab : Opened(ph, u) => Opened(ph2, u)
  PROVE  Tidy(cl2, ph2, w, box)
<1>1. \A i \in DOMAIN box : \A c \in Req : IsRequestCall(box[i], c) => cl2[c] = cl[c]
  BY DEF InBox
<1>2. CallsInOrder(cl2, box)
  BY <1>1 DEF Tidy, CallsInOrder
<1>3. FromCallers(cl2, w, box)
  BY <1>1 DEF Tidy, FromCallers
<1>4. \A i \in DOMAIN box : box[i].from \in Tab
  BY MessageParts
<1>5. FromOwners(ph2, box)
  BY <1>4 DEF Tidy, FromOwners
<1>. QED
  BY <1>2, <1>3, <1>5 DEF Tidy

(* What is posted.                                                         *)
LEMMA TidyPost ==
  ASSUME NEW cl, NEW ph, NEW w \in Tab, NEW box \in [Tab -> Seq(Message)], NEW to,
         NEW msgs \in Seq(Message), Tidy(cl, ph, w, box[w]), to = w => Tidy(cl, ph, w, msgs),
         to = w => \A c \in InBox(msgs), d \in InBox(box[w]) : cl[c] = cl[d] => d < c
  PROVE  Tidy(cl, ph, w, Post(box, to, msgs)[w])
<1>1. box[w] \in Seq(Message)
  OBVIOUS
<1>2. \/ Post(box, to, msgs)[w] = box[w]
      \/ w = to /\ Post(box, to, msgs)[w] = box[w] \o msgs
  BY DEF Post
<1>3. to = w => Tidy(cl, ph, w, box[w] \o msgs)
  BY <1>1, TidyConcat
<1>. QED
  BY <1>2, <1>3

(* The notices of the election keep boxes in order; that of an owner comes *)
(* from an opened archive.                                                 *)
LEMMA TidyBroadcast ==
  ASSUME NEW cl, NEW ph, NEW w \in Tab, NEW box \in [Tab -> Seq(Message)], NEW from \in Tab,
         NEW type \in {"hello", "owner", "released"}, type = "owner" => Opened(ph, from),
         Tidy(cl, ph, w, box[w])
  PROVE  Tidy(cl, ph, w, Broadcast(box, from, type)[w])
<1>. DEFINE m == Msg(type, from, NoId, "idle")
<1>1. m \in Message /\ m.type = type /\ m.from = from
  BY DEF Msg, NoId, Message
<1>. HIDE DEF m
<1>2. <<m>> \in Seq(Message) /\ DOMAIN <<m>> = {1} /\ <<m>>[1] = m
  BY <1>1
<1>3. \A c \in Req : ~IsRequestCall(m, c)
  BY <1>1 DEF IsRequestCall
<1>4. InBox(<<m>>) = {}
  BY <1>2, <1>3 DEF InBox
<1>5. Tidy(cl, ph, w, <<m>>)
  BY <1>1, <1>2, <1>3 DEF Tidy, CallsInOrder, FromCallers, FromOwners
<1>6. box[w] \in Seq(Message) /\ Append(box[w], m) = box[w] \o <<m>>
  BY <1>1, AppendIsConcat
<1>7. Tidy(cl, ph, w, box[w] \o <<m>>)
  BY <1>2, <1>4, <1>5, <1>6, TidyConcat
<1>8. Broadcast(box, from, type)[w] \in {box[w], box[w] \o <<m>>}
  BY <1>6 DEF Broadcast, m
<1>. QED
  BY <1>7, <1>8

(* A single call is in order when its caller sends it to somebody else.    *)
LEMMA TidyCall ==
  ASSUME NEW cl, NEW ph, NEW w, NEW from \in Tab, NEW id \in Id,
         ~IsCancel(id) => cl[id.req] = from, from # w
  PROVE  Tidy(cl, ph, w, <<CallMsg(from, id)>>)
<1>. DEFINE m == CallMsg(from, id)
<1>1. m.type = "call" /\ m.id = id /\ m.from = from
  BY DEF CallMsg, Msg
<1>. HIDE DEF m
<1>2. DOMAIN <<m>> = {1} /\ <<m>>[1] = m
  OBVIOUS
<1>3. \A c \in Req : IsRequestCall(m, c) => c = id.req /\ ~IsCancel(id)
  BY <1>1, KindsOfId DEF IsRequestCall
<1>4. CallsInOrder(cl, <<m>>)
  BY <1>2, <1>3 DEF CallsInOrder, Req
<1>5. FromCallers(cl, w, <<m>>) /\ FromOwners(ph, <<m>>)
  BY <1>1, <1>2, <1>3 DEF FromCallers, FromOwners
<1>. QED
  BY <1>4, <1>5 DEF Tidy, m

(* So is what a worker sends to an owner it has found.                     *)
LEMMA TidyHeld ==
  ASSUME NEW cl, NEW ph, NEW w, NEW from \in Tab, NEW reqs \in Seq(Req), NEW cancels \in Seq(Req),
         InOrder(cl, reqs), \A c \in ToSet(reqs) : cl[c] = from, from # w
  PROVE  Tidy(cl, ph, w, CallMsgs(from, reqs) \o CancelMsgs(from, cancels))
<1>. DEFINE a == CallMsgs(from, reqs)
            b == CancelMsgs(from, cancels)
<1>1. a \in Seq(Message) /\ b \in Seq(Message)
  BY CallMsgsType
<1>2. DOMAIN a = DOMAIN reqs
      /\ \A i \in DOMAIN a : a[i].type = "call" /\ a[i].id = Request(reqs[i]) /\ a[i].from = from
  BY DEF CallMsgs, CallMsg, Msg
<1>3. \A i \in DOMAIN b : b[i].type = "call" /\ b[i].id = CancelOf(cancels[i])
  BY DEF CancelMsgs, CallMsg, Msg
<1>. HIDE DEF a, b
<1>4. \A i \in DOMAIN a : \A c \in Req : IsRequestCall(a[i], c) => c = reqs[i] /\ cl[c] = from
  BY <1>2, KindsOfId DEF IsRequestCall, ToSet
<1>5. \A i \in DOMAIN b : \A c \in Req : ~IsRequestCall(b[i], c)
  BY <1>3, KindsOfId DEF IsRequestCall
<1>6. CallsInOrder(cl, a)
  BY <1>2, <1>4 DEF CallsInOrder, InOrder
<1>7. FromCallers(cl, w, a) /\ FromOwners(ph, a)
  BY <1>2, <1>4 DEF FromCallers, FromOwners
<1>8. Tidy(cl, ph, w, b)
  BY <1>3, <1>5 DEF Tidy, CallsInOrder, FromCallers, FromOwners
<1>9. InBox(b) = {}
  BY <1>5 DEF InBox
<1>10. Tidy(cl, ph, w, a \o b)
  BY <1>1, <1>6, <1>7, <1>8, <1>9, TidyConcat DEF Tidy
<1>. QED
  BY <1>10 DEF a, b

(* Replies are no calls and announce no owner.                             *)
LEMMA TidyReplies ==
  ASSUME NEW cl, NEW ph, NEW w, NEW msgs, \A i \in DOMAIN msgs : msgs[i].type = "reply"
  PROVE  Tidy(cl, ph, w, msgs)
BY DEF Tidy, CallsInOrder, FromCallers, FromOwners, IsRequestCall

-----------------------------------------------------------------------------
(* The places in the order a request passes through them.                  *)
LEMMA Stages ==
  /\ \A k \in Place : Stage(k) \in 1 .. 4
  /\ Stage("held") = 1 /\ Stage("bus") = 2 /\ Stage("queue") = 3 /\ Stage("active") = 4
BY DEF Stage, Place

(* A step that moves requests on to one place, or issues one there, keeps  *)
(* the order if no earlier request of the same caller is left behind.      *)
LEMMA MoveOrders ==
  ASSUME TypeOK, RefusalInv, OrderInv, NEW G \in SUBSET Req, NEW k0 \in Place, NEW t0,
         Places(G, k0, t0), Works(G), \A c \in Issued : caller'[c] = caller[c],
         Stays,
         \A c \in G : \/ \E k \in Place \ {"active"}, t \in Tab :
                           c \in At(k, t) /\ Stage(k) <= Stage(k0) /\ ~LeftBehind(t)
                      \/ c \notin Issued /\ \A d \in Issued : d < c,
         \A c \in Req \ G, d \in G, k \in Place, t \in Tab :
           Before(c, d)' /\ c \in At(k, t)' => Stage(k0) <= Stage(k) \/ LeftBehind(t)'
  PROVE  StageInv' /\ LateInv'
<1>1. Done' = Done /\ Done \subseteq Issued
  BY DEF Works, durable, Done, RefusalInv, FreshInv
<1>2. \A k \in Place, t \in Tab : \A c \in At(k, t) : c \in Issued
  BY DEF RefusalInv, FreshInv
<1>3. \A c, d \in Issued : Before(c, d)' => Before(c, d)
  BY DEF Before
<1>4. ASSUME NEW c \in Req, NEW d \in Req, Before(c, d)', NEW k \in Place, NEW l \in Place,
             NEW t \in Tab, NEW u \in Tab, c \in At(k, t)', d \in At(l, u)'
      PROVE  Stage(l) <= Stage(k) \/ LeftBehind(t)' \/ LeftBehind(u)'
  <2>1. CASE c \notin G /\ d \notin G
    <3>1. c \in At(k, t) /\ d \in At(l, u)
      BY <1>4, <2>1 DEF Places
    <3>2. Before(c, d)
      BY <1>2, <1>3, <1>4, <3>1
    <3>. QED
      BY <3>1, <3>2 DEF OrderInv, StageInv, Stays
  <2>2. CASE c \in G /\ d \in G
    <3>1. k = k0 /\ l = k0
      BY <1>4, <2>2 DEF Places
    <3>. QED
      BY <3>1, Stages
  <2>3. CASE c \notin G /\ d \in G
    <3>1. l = k0
      BY <1>4, <2>3 DEF Places
    <3>. QED
      BY <1>4, <2>3, <3>1
  <2>4. CASE c \in G /\ d \notin G
    <3>1. k = k0 /\ d \in At(l, u) /\ d \in Issued
      BY <1>2, <1>4, <2>4 DEF Places
    <3>2. c \in Issued
      <4>1. ~(d < c)
        BY <1>4 DEF Before, Req
      <4>. QED
        BY <1>2, <2>4, <3>1, <4>1
    <3>3. PICK k1 \in Place \ {"active"}, t1 \in Tab : 
                 c \in At(k1, t1) /\ Stage(k1) <= Stage(k0) /\ ~LeftBehind(t1)
      BY <2>4, <3>2
    <3>4. Before(c, d)
      BY <1>3, <1>4, <3>1, <3>2
    <3>5. Stage(l) <= Stage(k1) \/ LeftBehind(u)'
      BY <3>1, <3>3, <3>4 DEF OrderInv, StageInv, Stays
    <3>. QED
      BY <3>1, <3>3, <3>5, Stages
  <2>. QED
    BY <2>1, <2>2, <2>3, <2>4
<1>5. StageInv'
  BY <1>4 DEF StageInv
<1>6. ASSUME NEW c \in Req, NEW d \in Req, Before(c, d)', d \in Done'
      PROVE  /\ \A k \in Place \ {"active"}, t \in Tab : c \in At(k, t)' => LeftBehind(t)'
             /\ \A t \in Tab : active'[t] = c => result'[t] # "running" \/ LeftBehind(t)'
  <2>1. d \in Issued /\ d \in Done
    BY <1>1, <1>6
  <2>2. ~(d < c)
    BY <1>6 DEF Before, Req
  <2>3. CASE c \notin Issued
    <3>1. c \notin G
      <4>1. \A k \in Place, t \in Tab : c \notin At(k, t)
        BY <1>2, <2>3
      <4>. QED
        BY <2>1, <2>2, <4>1
    <3>2. \A k \in Place, t \in Tab : c \notin At(k, t)'
      BY <1>2, <2>3, <3>1 DEF Places
    <3>3. \A t \in Tab : active'[t] # c
      BY <3>2, AtEachNext DEF Place, Req
    <3>. QED
      BY <3>2, <3>3
  <2>4. CASE c \in Issued
    <3>1. Before(c, d)
      BY <1>3, <1>6, <2>1, <2>4
    <3>2. /\ \A k \in Place \ {"active"}, t \in Tab : c \in At(k, t) => LeftBehind(t)
          /\ \A t \in Tab : active[t] = c => result[t] # "running" \/ LeftBehind(t)
      BY <2>1, <3>1 DEF OrderInv, LateInv
    <3>3. c \notin G
      BY <2>4, <3>2
    <3>4. \A k \in Place \ {"active"}, t \in Tab : c \in At(k, t)' => LeftBehind(t)'
      BY <3>2, <3>3 DEF Places, Stays
    <3>5. \A t \in Tab : active'[t] = c => result'[t] # "running" \/ LeftBehind(t)'
      BY <3>2, <3>3 DEF Works, Stays, Req
    <3>. QED
      BY <3>4, <3>5
  <2>. QED
    BY <2>3, <2>4
<1>7. LateInv'
  BY <1>6 DEF LateInv
<1>. QED
  BY <1>5, <1>7

(* What is left behind stays so while nothing turns or opens again.        *)
LEMMA StaysBehind ==
  ASSUME UNCHANGED turn, \A t \in Tab : phase[t] = "closed" => phase'[t] = "closed"
  PROVE  Stays
BY DEF Stays, LeftBehind

(* A step that moves nothing on.                                           *)
LEMMA IdleOrders ==
  ASSUME TypeOK, RefusalInv, OrderInv, UNCHANGED caller, \A t \in Tab : Shrinks(t), Works({}),
         Stays,
         \A t \in Tab : Opened(phase, t) => Opened(phase', t),
         \A t \in Tab : InOrder(caller, held'[t]) /\ InOrder(caller, queue'[t]),
         \A t \in Tab : Tidy(caller, phase', t, inbox'[t]),
         \A t \in Tab : InBox(inbox'[t]) # {} => phase'[t] = "owner",
         \A t \in Tab : known'[t] # None =>
           held'[t] = <<>> /\ (known'[t] = known[t] \/ Opened(phase', known'[t]))
  PROVE  OrderInv'
<1>1. Places({}, "held", "held")
  BY ShrinksPlaces
<1>2. StageInv' /\ LateInv'
  BY <1>1, MoveOrders DEF Place
<1>3. LineInv'
  BY DEF LineInv
<1>4. RouteInv'
  <2>1. Issued' = Issued /\ \A c \in Issued, d \in Req : d < c => d \in Issued
    BY DEF Issued, OrderInv, RouteInv
  <2>2. \A t \in Tab : \A c \in ToSet(held'[t]) : caller'[c] = t
    BY DEF Shrinks, OrderInv, RouteInv
  <2>3. \A w \in Tab : InBox(inbox'[w]) # {} => DatabaseOpen(w)'
    BY DEF DatabaseOpen
  <2>4. \A t \in Tab : known'[t] # None => held'[t] = <<>> /\ Opened(phase', known'[t])
    <3>1. ASSUME NEW t \in Tab, known'[t] # None, known'[t] = known[t]
          PROVE  Opened(phase', known'[t])
      <4>1. known[t] \in Tab /\ Opened(phase, known[t])
        BY <3>1 DEF TypeOK, OrderInv, RouteInv
      <4>. QED
        BY <3>1, <4>1
    <3>. QED
      BY <3>1
  <2>. QED
    BY <2>1, <2>2, <2>3, <2>4 DEF RouteInv
<1>. QED
  BY <1>2, <1>3, <1>4 DEF OrderInv

-----------------------------------------------------------------------------
(* A call enters a worker: a request is the newest of all.                 *)
Admits(t, id) ==
  /\ UNCHANGED <<phase, turn, known, active, result, durable>>
  /\ \A c \in Issued : caller'[c] = caller[c]
  /\ Issued' = Issued \cup {id.req}
  /\ IF IsCancel(id)
     THEN id.req \in Issued
     ELSE /\ caller'[id.req] = t /\ id.req \notin Issued
          /\ \A d \in Issued : d < id.req
          /\ \A d \in Req : d < id.req => d \in Issued

(* Admitting a call leaves what is in order in order.                      *)
LEMMA AdmitsStays ==
  ASSUME TypeOK, RefusalInv, OrderInv, NEW t \in Tab, NEW id \in Id, Admits(t, id), NEW u \in Tab
  PROVE  /\ InOrder(caller', held[u]) /\ InOrder(caller', queue[u])
         /\ Tidy(caller', phase', u, inbox[u])
<1>1. At("held", u) \subseteq Issued /\ At("queue", u) \subseteq Issued /\ At("bus", u) \subseteq Issued
  BY DEF RefusalInv, FreshInv, Place
<1>2. \A c \in ToSet(held[u]) \cup ToSet(queue[u]) \cup InBox(inbox[u]) : caller'[c] = caller[c]
  BY <1>1, AtEach DEF Admits
<1>3. InOrder(caller', held[u]) /\ InOrder(caller', queue[u])
  BY <1>2 DEF OrderInv, LineInv, InOrder, ToSet
<1>4. Tidy(caller', phase', u, inbox[u])
  <2>1. inbox[u] \in Seq(Message) /\ Tidy(caller, phase, u, inbox[u]) /\ phase' = phase
    BY DEF TypeOK, OrderInv, RouteInv, Admits
  <2>. QED
    BY <1>2, <2>1, TidyStays
<1>. QED
  BY <1>3, <1>4

(* A request that enters one place, behind its caller's earlier ones,      *)
(* keeps the order.                                                        *)
LEMMA EnterOrders ==
  ASSUME TypeOK, RefusalInv, OrderInv, NEW t \in Tab, NEW id \in Id, Admits(t, id),
         NEW G, G = {} \/ (~IsCancel(id) /\ G = {id.req}), NEW k0 \in Place, NEW t0,
         Places(G, k0, t0), Works(G),
         \A c \in Req \ G, d \in G, k \in Place, u \in Tab :
           Before(c, d)' /\ c \in At(k, u)' => Stage(k0) <= Stage(k) \/ LeftBehind(u),
         \A u \in Tab : InOrder(caller', held'[u]) /\ InOrder(caller', queue'[u])
                        /\ Tidy(caller', phase', u, inbox'[u]),
         \A u \in Tab : InBox(inbox'[u]) # {} => DatabaseOpen(u),
         \A u \in Tab : \A c \in ToSet(held'[u]) : c \in ToSet(held[u]) \/ (c \in G /\ u = t),
         \A u \in Tab : known[u] # None => held'[u] = <<>>
  PROVE  OrderInv'
<1>1. G \in SUBSET Req
  BY IdParts
<1>2. \A c \in G : c \notin Issued /\ \A d \in Issued : d < c
  BY DEF Admits
<1>3. \A c \in Issued : caller'[c] = caller[c]
  BY DEF Admits
<1>4. StageInv' /\ LateInv'
  <2>1. Stays /\ \A u \in Tab : LeftBehind(u)' <=> LeftBehind(u)
    BY DEF Admits, Stays, LeftBehind
  <2>. QED
    BY <1>1, <1>2, <1>3, <2>1, MoveOrders
<1>5. LineInv'
  BY DEF LineInv
<1>6. RouteInv'
  <2>1. ASSUME NEW c \in Issued', NEW d \in Req, d < c PROVE d \in Issued'
    <3>1. CASE c \in Issued
      BY <2>1, <3>1 DEF Admits, OrderInv, RouteInv
    <3>2. CASE c \notin Issued
      <4>1. c = id.req
        BY <2>1, <3>2 DEF Admits
      <4>2. CASE IsCancel(id)
        BY <3>2, <4>1, <4>2 DEF Admits
      <4>3. CASE ~IsCancel(id)
        BY <2>1, <4>1, <4>3 DEF Admits
      <4>. QED
        BY <4>2, <4>3
    <3>. QED
      BY <3>1, <3>2
  <2>2. ASSUME NEW u \in Tab, NEW c \in ToSet(held'[u]) PROVE caller'[c] = u
    <3>1. CASE c \in ToSet(held[u])
      <4>1. c \in Issued
        BY <3>1, AtEach DEF RefusalInv, FreshInv, Place
      <4>. QED
        BY <1>3, <3>1, <4>1 DEF OrderInv, RouteInv
    <3>2. CASE c \in G /\ u = t
      BY <3>2 DEF Admits
    <3>. QED
      BY <2>2, <3>1, <3>2
  <2>3. \A w \in Tab : InBox(inbox'[w]) # {} => DatabaseOpen(w)'
    BY DEF DatabaseOpen, Admits
  <2>4. \A u \in Tab : known'[u] # None => held'[u] = <<>> /\ Opened(phase', known'[u])
    BY DEF Admits, OrderInv, RouteInv
  <2>. QED
    BY <2>1, <2>2, <2>3, <2>4 DEF RouteInv
<1>. QED
  BY <1>4, <1>5, <1>6 DEF OrderInv

(* What an owner makes of its queue keeps the order.                       *)
LEMMA NewQueueOrders ==
  ASSUME TypeOK, NEW w \in Tab, NEW id \in Id, NEW cl, InOrder(cl, queue[w]),
         ~IsCancel(id) => \A y \in ToSet(queue[w]) : cl[y] = cl[id.req] => y < id.req
  PROVE  InOrder(cl, NewQueue(w, id))
<1>1. queue[w] \in Seq(Req) /\ id.req \in Req
  BY IdParts DEF TypeOK
<1>2. CASE IsCancel(id) /\ Queued(w, id.req)
  <2>1. Position(w, id.req) \in DOMAIN queue[w]
    BY <1>2 DEF Queued, Position
  <2>2. NewQueue(w, id) = RemoveAt(queue[w], Position(w, id.req))
    BY <1>2 DEF NewQueue
  <2>. QED
    BY <1>1, <2>1, <2>2, InOrderRemove
<1>3. CASE ~IsCancel(id) /\ Load(w) < MaxPending
  <2>1. NewQueue(w, id) = Append(queue[w], id.req)
    BY <1>3 DEF NewQueue
  <2>2. InOrder(cl, Append(queue[w], id.req))
    BY <1>1, <1>3, InOrderAppend
  <2>. QED
    BY <2>1, <2>2
<1>4. CASE ~(IsCancel(id) /\ Queued(w, id.req)) /\ ~(~IsCancel(id) /\ Load(w) < MaxPending)
  <2>1. NewQueue(w, id) = queue[w]
    BY <1>4 DEF NewQueue
  <2>. QED
    BY <2>1
<1>. QED
  BY <1>2, <1>3, <1>4

(* A request on the bus is at the one open database, and not of its tab.   *)
LEMMA OnBus ==
  ASSUME TypeOK, ExclusionInv, OrderInv, NEW w \in Tab, NEW c \in At("bus", w)
  PROVE  /\ c \in Req /\ caller[c] # w /\ DatabaseOpen(w)
         /\ \A u \in Tab : Holds(u) => u = w
<1>1. c \in InBox(inbox[w])
  BY AtEach
<1>2. PICK i \in DOMAIN inbox[w] : IsRequestCall(inbox[w][i], c)
  BY <1>1 DEF InBox
<1>3. c \in Req /\ DatabaseOpen(w)
  BY <1>1 DEF InBox, OrderInv, RouteInv
<1>4. caller[c] # w
  BY <1>2, <1>3 DEF OrderInv, RouteInv, Tidy, FromCallers
<1>5. \A u \in Tab : Holds(u) => u = w
  BY <1>3 DEF ExclusionInv, Holds, DatabaseOpen
<1>. QED
  BY <1>3, <1>4, <1>5

(* Nothing of a caller waits elsewhere when its worker forwards a call,    *)
(* and nothing before the queue when its worker is the owner.              *)
LEMMA NotBehind ==
  ASSUME TypeOK, ExclusionInv, OrderInv, NEW t \in Tab, known[t] # None,
         NEW c, caller[c] = t, NEW k \in Place, NEW u \in Tab, c \in At(k, u)
  PROVE  k # "held" /\ (known[t] = t => k # "bus")
<1>1. k # "held"
  <2>1. ASSUME k = "held" PROVE FALSE
    <3>1. c \in ToSet(held[u])
      BY <2>1, AtEach
    <3>2. u = t
      BY <3>1 DEF OrderInv, RouteInv
    <3>3. held[t] = <<>>
      BY DEF OrderInv, RouteInv
    <3>. QED
      BY <3>1, <3>2, <3>3 DEF ToSet
  <2>. QED
    BY <2>1
<1>2. ASSUME known[t] = t, k = "bus" PROVE FALSE
  <2>1. Holds(t)
    BY <1>2 DEF ExclusionInv, Holds, DatabaseOpen
  <2>. QED
    BY <1>2, <2>1, OnBus
<1>. QED
  BY <1>1, <1>2

-----------------------------------------------------------------------------
(* A new request is newer than all that are anywhere.                      *)
LEMMA AdmitsNewest ==
  ASSUME TypeOK, RefusalInv, NEW t \in Tab, NEW id \in Id, Admits(t, id), ~IsCancel(id)
  PROVE  /\ id.req \in Req /\ caller'[id.req] = t
         /\ \A k \in Place, u \in Tab : \A y \in At(k, u) :
              y < id.req /\ y # id.req /\ caller'[y] = caller[y]
<1>1. id.req \in Req /\ caller'[id.req] = t
  BY IdParts DEF Admits
<1>2. \A k \in Place, u \in Tab : At(k, u) \subseteq Issued
  BY DEF RefusalInv, FreshInv
<1>. QED
  BY <1>1, <1>2 DEF Admits

(* A call that is refused, or a cancellation that waits, moves nothing.    *)
LEMMA QuietOrders ==
  ASSUME TypeOK, RefusalInv, OrderInv, NEW t \in Tab, NEW id \in Id, Admits(t, id),
         UNCHANGED <<held, queue, aborted, inbox>>
  PROVE  OrderInv'
<1>1. \A u \in Tab : Shrinks(u)
  BY DEF Shrinks, Admits
<1>2. Places({}, "held", t)
  BY <1>1, ShrinksPlaces
<1>3. Works({})
  BY DEF Works, Admits
<1>4. \A u \in Tab : InOrder(caller', held'[u]) /\ InOrder(caller', queue'[u])
                     /\ Tidy(caller', phase', u, inbox'[u])
  BY AdmitsStays
<1>5. /\ \A u \in Tab : InBox(inbox'[u]) # {} => DatabaseOpen(u)
      /\ \A u \in Tab : known[u] # None => held'[u] = <<>>
  BY DEF OrderInv, RouteInv
<1>6. "held" \in Place
  BY DEF Place
<1>. QED
  BY <1>2, <1>3, <1>4, <1>5, <1>6, EnterOrders

(* A request that was never sent leaves the held ones.                     *)
LEMMA NotDispatchedOrders ==
  ASSUME TypeOK, RefusalInv, OrderInv, NEW t \in Tab, NEW id \in Id, Admits(t, id),
         NEW ans, IngressNotDispatched(t, id, ans)
  PROVE  OrderInv'
<1>1. UNCHANGED <<active, result, durable, queue, aborted, inbox>>
  BY DEF Admits, IngressNotDispatched
<1>2. held[t] \in Seq(Req) /\ HeldAt(t, id.req) \in DOMAIN held[t] /\ Single(held[t])
  BY DEF IngressNotDispatched, IsHeld, HeldAt, TypeOK, RefusalInv, OneTime
<1>3. /\ held'[t] = RemoveAt(held[t], HeldAt(t, id.req))
      /\ \A u \in Tab \ {t} : held'[u] = held[u]
  BY DEF IngressNotDispatched, TypeOK
<1>4. ToSet(held'[t]) \subseteq ToSet(held[t])
  BY <1>2, <1>3, RemoveAtSingle
<1>5. \A u \in Tab : ToSet(held'[u]) \subseteq ToSet(held[u])
  BY <1>3, <1>4
<1>6. \A u \in Tab : Shrinks(u)
  BY <1>1, <1>5 DEF Shrinks
<1>7. Places({}, "held", t)
  BY <1>6, ShrinksPlaces
<1>8. Works({})
  BY <1>1 DEF Works
<1>9. ASSUME NEW u \in Tab
      PROVE  InOrder(caller', held'[u]) /\ InOrder(caller', queue'[u])
             /\ Tidy(caller', phase', u, inbox'[u])
  <2>1. InOrder(caller', held[u]) /\ InOrder(caller', queue[u])
        /\ Tidy(caller', phase', u, inbox[u])
    BY AdmitsStays
  <2>2. InOrder(caller', held'[u])
    BY <1>2, <1>3, <2>1, InOrderRemove
  <2>. QED
    BY <1>1, <2>1, <2>2
<1>10. held[t] # <<>> /\ known[t] = None
  BY <1>2 DEF OrderInv, RouteInv
<1>11. \A u \in Tab : InBox(inbox'[u]) # {} => DatabaseOpen(u)
  BY <1>1 DEF OrderInv, RouteInv
<1>12. \A u \in Tab : known[u] # None => held'[u] = <<>>
  BY <1>3, <1>10 DEF OrderInv, RouteInv
<1>13. "held" \in Place
  BY DEF Place
<1>. QED
  BY <1>5, <1>7, <1>8, <1>9, <1>11, <1>12, <1>13, EnterOrders

(* A new request is held behind the others of its tab.                     *)
LEMMA HeldOrders ==
  ASSUME TypeOK, RefusalInv, OrderInv, NEW t \in Tab, NEW id \in Id, Admits(t, id),
         NEW ans, IngressHeld(t, id, ans)
  PROVE  OrderInv'
<1>1. UNCHANGED <<active, result, durable, queue, aborted, inbox>> /\ known[t] = None
  BY DEF Admits, IngressHeld
<1>2. CASE IsCancel(id)
  BY <1>1, <1>2, QuietOrders DEF IngressHeld
<1>3. CASE ~IsCancel(id)
  <2>. DEFINE c == id.req
              G == {c}
  <2>1. /\ held[t] \in Seq(Req) /\ held'[t] = Append(held[t], c)
        /\ \A u \in Tab \ {t} : held'[u] = held[u]
    BY <1>3 DEF IngressHeld, TypeOK
  <2>2. /\ c \in Req /\ caller'[c] = t
        /\ \A k \in Place, u \in Tab : \A y \in At(k, u) :
             y < c /\ y # c /\ caller'[y] = caller[y]
    BY <1>3, AdmitsNewest
  <2>3. ToSet(held'[t]) = ToSet(held[t]) \cup {c}
    BY <2>1, <2>2, AppendElems
  <2>4. ASSUME NEW k \in Place, NEW u \in Tab, NEW d \in At(k, u)'
        PROVE  d \in At(k, u) \/ (d = c /\ k = "held" /\ u = t)
    <3>1. CASE k = "held"
      <4>1. d \in ToSet(held'[u])
        BY <2>4, <3>1, AtEachNext
      <4>. QED
        BY <2>1, <2>3, <3>1, <4>1, AtEach
    <3>2. CASE k # "held"
      BY <1>1, <2>4, <3>2, AtEach, AtEachNext DEF Place
    <3>. QED
      BY <3>1, <3>2
  <2>5. Places(G, "held", t)
    BY <2>2, <2>4 DEF Places
  <2>6. Works(G)
    BY <1>1 DEF Works
  <2>7. ASSUME NEW u \in Tab
        PROVE  InOrder(caller', held'[u]) /\ InOrder(caller', queue'[u])
               /\ Tidy(caller', phase', u, inbox'[u])
    <3>1. InOrder(caller', held[u]) /\ InOrder(caller', queue[u])
          /\ Tidy(caller', phase', u, inbox[u])
      BY AdmitsStays
    <3>2. CASE u = t
      <4>1. \A y \in ToSet(held[t]) : y < c
        BY <2>2, AtEach DEF Place
      <4>2. InOrder(caller', Append(held[t], c))
        BY <2>1, <2>2, <3>1, <3>2, <4>1, InOrderAppend
      <4>. QED
        BY <1>1, <2>1, <3>1, <3>2, <4>2
    <3>3. CASE u # t
      BY <1>1, <2>1, <3>1, <3>3
    <3>. QED
      BY <3>2, <3>3
  <2>8. \A d \in Req \ G, e \in G, k \in Place, u \in Tab :
          Before(d, e)' /\ d \in At(k, u)' => Stage("held") <= Stage(k)
    BY Stages
  <2>9. \A u \in Tab : InBox(inbox'[u]) # {} => DatabaseOpen(u)
    BY <1>1 DEF OrderInv, RouteInv
  <2>10. \A u \in Tab : known[u] # None => held'[u] = <<>>
    BY <1>1, <2>1 DEF OrderInv, RouteInv
  <2>11. \A u \in Tab : \A d \in ToSet(held'[u]) : d \in ToSet(held[u]) \/ (d \in G /\ u = t)
    BY <2>1, <2>3
  <2>12. "held" \in Place
    BY DEF Place
  <2>. QED
    BY <1>3, <2>5, <2>6, <2>7, <2>8, <2>9, <2>10, <2>11, <2>12, EnterOrders
<1>. QED
  BY <1>2, <1>3

(* A call goes to the owner that its worker knows.                         *)
LEMMA ForwardedOrders ==
  ASSUME TypeOK, ExclusionInv, RefusalInv, OrderInv, NEW t \in Tab, NEW id \in Id,
         Admits(t, id), NEW ans, IngressForwarded(t, id, ans)
  PROVE  OrderInv'
<1>. DEFINE w == known[t]
            G == IF IsCancel(id) THEN {} ELSE {id.req}
            msgs == <<CallMsg(t, id)>>
<1>1. /\ UNCHANGED <<active, result, durable, queue, aborted, held>> /\ w \in Tab /\ w # t
      /\ w # None /\ inbox' = Post(inbox, w, msgs) /\ inbox \in [Tab -> Seq(Message)]
  BY NoneAssumption DEF Admits, IngressForwarded, TypeOK
<1>2. msgs \in Seq(Message) /\ InBox(msgs) = G
  BY CallBox
<1>3. \A c \in G : /\ c = id.req /\ c \in Req /\ caller'[c] = t
                   /\ \A k \in Place, u \in Tab : \A y \in At(k, u) :
                        y < c /\ y # c /\ caller'[y] = caller[y]
  BY AdmitsNewest
<1>5. Tidy(caller', phase', w, msgs)
  BY <1>1, TidyCall DEF Admits
<1>. HIDE DEF msgs
<1>6. Live(w) => DatabaseOpen(w)
  BY <1>1 DEF OrderInv, RouteInv, Opened, Live, DatabaseOpen
<1>. HIDE DEF w
<1>7. ASSUME NEW u \in Tab
      PROVE  /\ \A d \in InBox(inbox'[u]) : d \in InBox(inbox[u]) \/ (d \in G /\ u = w)
             /\ Tidy(caller', phase', u, inbox'[u])
             /\ InBox(inbox'[u]) # {} => DatabaseOpen(u)
  <2>1. InBox(Post(inbox, w, msgs)[u]) \subseteq
          InBox(inbox[u]) \cup (IF u = w THEN InBox(msgs) ELSE {})
    BY <1>1, <1>2, PostBox
  <2>2. Tidy(caller', phase', u, inbox[u])
    BY AdmitsStays
  <2>3. \A c \in InBox(msgs), d \in InBox(inbox[u]) : d < c
    BY <1>2, <1>3, AtEach DEF Place
  <2>4. Tidy(caller', phase', u, Post(inbox, w, msgs)[u])
    BY <1>1, <1>2, <1>5, <2>2, <2>3, TidyPost
  <2>5. InBox(inbox[u]) # {} => DatabaseOpen(u)
    BY DEF OrderInv, RouteInv
  <2>6. Post(inbox, w, msgs)[u] = inbox[u] \/ (u = w /\ Live(w))
    BY <1>1 DEF Post
  <2>7. InBox(inbox'[u]) # {} => DatabaseOpen(u)
    BY <1>1, <1>6, <2>5, <2>6
  <2>8. \A d \in InBox(inbox'[u]) : d \in InBox(inbox[u]) \/ (d \in G /\ u = w)
    BY <1>1, <1>2, <2>1
  <2>9. Tidy(caller', phase', u, inbox'[u])
    BY <1>1, <2>4
  <2>. QED
    BY <2>7, <2>8, <2>9
<1>8. ASSUME NEW k \in Place, NEW u \in Tab, NEW d \in At(k, u)'
      PROVE  d \in At(k, u) \/ (d \in G /\ k = "bus" /\ u = w)
  BY <1>1, <1>7, <1>8, AtEach, AtEachNext DEF Place
<1>9. Places(G, "bus", w)
  BY <1>3, <1>8 DEF Places
<1>10. Works(G)
  BY <1>1 DEF Works
<1>11. ASSUME NEW c \in Req \ G, NEW d \in G, NEW k \in Place, NEW u \in Tab,
              Before(c, d)', c \in At(k, u)'
       PROVE  Stage("bus") <= Stage(k)
  <2>1. c \in At(k, u)
    BY <1>8, <1>11
  <2>2. caller[c] = t
    BY <1>3, <1>11, <2>1 DEF Before
  <2>3. k # "held"
    BY <1>1, <2>1, <2>2, NotBehind DEF w
  <2>. QED
    BY <2>3, Stages DEF Place
<1>12. \A u \in Tab : InOrder(caller', held'[u]) /\ InOrder(caller', queue'[u])
  BY <1>1, AdmitsStays
<1>13. /\ \A u \in Tab : \A c \in ToSet(held'[u]) : c \in ToSet(held[u])
       /\ \A u \in Tab : known[u] # None => held'[u] = <<>>
  BY <1>1 DEF OrderInv, RouteInv
<1>14. "bus" \in Place /\ (G = {} \/ (~IsCancel(id) /\ G = {id.req}))
  BY DEF Place
<1>. HIDE DEF G
<1>. QED
  BY <1>7, <1>9, <1>10, <1>11, <1>12, <1>13, <1>14, EnterOrders

(* The owner's own request is queued behind the others of its tab.         *)
LEMMA LocalOrders ==
  ASSUME TypeOK, ExclusionInv, RefusalInv, OrderInv, NEW t \in Tab, NEW id \in Id,
         Admits(t, id), NEW ans, IngressLocal(t, id, ans)
  PROVE  OrderInv'
<1>. DEFINE G == IF IsCancel(id) THEN {} ELSE {id.req}
<1>1. /\ UNCHANGED <<active, result, durable, held, inbox>> /\ known[t] = t
      /\ queue' = [queue EXCEPT ![t] = NewQueue(t, id)]
      /\ aborted' = [aborted EXCEPT ![t] = NewAborted(t, id)]
  BY DEF Admits, IngressLocal
<1>2. /\ queue'[t] = NewQueue(t, id) /\ aborted'[t] = NewAborted(t, id)
      /\ \A u \in Tab \ {t} : queue'[u] = queue[u] /\ aborted'[u] = aborted[u]
  BY <1>1 DEF TypeOK
<1>3. \A c \in G : /\ c = id.req /\ c \in Req /\ caller'[c] = t
                   /\ \A k \in Place, u \in Tab : \A y \in At(k, u) :
                        y < c /\ y # c /\ caller'[y] = caller[y]
  BY AdmitsNewest
<1>4. ~IsCancel(id) => id.req \notin Done /\ id.req \notin ToSet(queue[t])
  <2>1. ~IsCancel(id) => id.req \in Req \ Issued
    BY IdParts DEF Admits
  <2>. QED
    BY <2>1, Unissued, AtEach DEF Place
<1>5. /\ ToSet(NewQueue(t, id)) \subseteq ToSet(queue[t]) \cup G
      /\ aborted[t] = TRUE => NewAborted(t, id) = TRUE
  BY <1>4, OwnerAccepts
<1>6. ASSUME NEW k \in Place, NEW u \in Tab, NEW d \in At(k, u)'
      PROVE  d \in At(k, u) \/ (d \in G /\ k = "queue" /\ u = t)
  <2>1. CASE k = "queue"
    <3>1. d \in ToSet(queue'[u])
      BY <1>6, <2>1, AtEachNext
    <3>. HIDE DEF G
    <3>. QED
      BY <1>2, <1>5, <2>1, <3>1, AtEach
  <2>2. CASE k # "queue"
    BY <1>1, <1>6, <2>2, AtEach, AtEachNext DEF Place
  <2>. QED
    BY <2>1, <2>2
<1>7. Places(G, "queue", t)
  BY <1>3, <1>6 DEF Places
<1>8. Works(G)
  BY <1>1, <1>2, <1>5 DEF Works
<1>9. ASSUME NEW c \in Req \ G, NEW d \in G, NEW k \in Place, NEW u \in Tab,
             Before(c, d)', c \in At(k, u)'
      PROVE  Stage("queue") <= Stage(k)
  <2>1. c \in At(k, u)
    BY <1>6, <1>9
  <2>2. caller[c] = t
    BY <1>3, <1>9, <2>1 DEF Before
  <2>3. k # "held" /\ k # "bus"
    BY <1>1, <2>1, <2>2, NotBehind, NoneAssumption
  <2>. QED
    BY <2>3, Stages DEF Place
<1>10. \A u \in Tab : InOrder(caller', held[u]) /\ InOrder(caller', queue[u])
                      /\ Tidy(caller', phase', u, inbox[u])
  BY AdmitsStays
<1>11. InOrder(caller', NewQueue(t, id))
  <2>1. ~IsCancel(id) => \A y \in ToSet(queue[t]) : y < id.req
    BY <1>3, AtEach DEF Place
  <2>. QED
    BY <1>10, <2>1, NewQueueOrders
<1>12. \A u \in Tab : InOrder(caller', held'[u]) /\ InOrder(caller', queue'[u])
                      /\ Tidy(caller', phase', u, inbox'[u])
  BY <1>1, <1>2, <1>10, <1>11
<1>13. /\ \A u \in Tab : InBox(inbox'[u]) # {} => DatabaseOpen(u)
       /\ \A u \in Tab : \A c \in ToSet(held'[u]) : c \in ToSet(held[u])
       /\ \A u \in Tab : known[u] # None => held'[u] = <<>>
  BY <1>1 DEF OrderInv, RouteInv
<1>14. "queue" \in Place /\ (G = {} \/ (~IsCancel(id) /\ G = {id.req}))
  BY DEF Place
<1>. HIDE DEF G
<1>. QED
  BY <1>7, <1>8, <1>9, <1>12, <1>13, <1>14, EnterOrders

(* A call that enters its worker keeps the order, wherever it goes.        *)
LEMMA IngressOrders ==
  ASSUME TypeOK, ExclusionInv, RefusalInv, OrderInv, NEW t \in Tab, NEW id \in Id,
         Admits(t, id), NEW ans, Ingress(t, id, ans) \/ Refused(ans, id)
  PROVE  OrderInv'
<1>1. CASE IngressFull(t, id, ans) \/ Refused(ans, id)
  BY <1>1, QuietOrders DEF IngressFull, Refused, waitingVars
<1>. QED
  BY <1>1, NotDispatchedOrders, HeldOrders, ForwardedOrders, LocalOrders DEF Ingress

-----------------------------------------------------------------------------
(* The client.  Requests are issued in order, and a tab cancels its own.   *)
LEMMA IssueOrders ==
  ASSUME TypeOK, ExclusionInv, RefusalInv, OrderInv, NEW t \in Tab, NEW c \in Req, Issue(t, c)
  PROVE  OrderInv'
<1>. DEFINE id == Request(c)
<1>1. id \in Id /\ id.req = c /\ ~IsCancel(id)
  BY IdParts, KindsOfId
<1>2. /\ c \notin Issued /\ caller'[c] = t /\ \A d \in Req \ {c} : caller'[d] = caller[d]
      /\ UNCHANGED <<phase, turn, known, active, result, durable>>
  BY DEF Issue, Issued, TypeOK
<1>3. \A d \in Req : d < c => d \in Issued
  BY DEF Issue, Issued, Req
<1>4. ASSUME NEW d \in Issued PROVE d < c
  <2>1. ~(c < d)
    BY <1>2 DEF OrderInv, RouteInv
  <2>. QED
    BY <1>2, <2>1 DEF Issued, Req
<1>5. Issued' = Issued \cup {c} /\ \A d \in Issued : caller'[d] = caller[d]
  BY <1>2, NoneAssumption DEF Issued
<1>6. Admits(t, id)
  BY <1>1, <1>2, <1>3, <1>4, <1>5 DEF Admits
<1>. HIDE DEF id
<1>. QED
  BY <1>1, <1>6, IngressOrders DEF Issue, id

(* A step that moves nothing and leaves the workers as they are.           *)
LEMMA StillOrders ==
  ASSUME TypeOK, RefusalInv, OrderInv,
         UNCHANGED <<caller, phase, known, held, queue, active, result, aborted, durable>>,
         UNCHANGED turn \/ Stays,
         \A t \in Tab : /\ Tidy(caller, phase, t, inbox'[t])
                        /\ InBox(inbox'[t]) \subseteq InBox(inbox[t])
  PROVE  OrderInv'
<1>1. \A t \in Tab : Shrinks(t)
  BY DEF Shrinks
<1>2. Works({}) /\ Stays
  BY StaysBehind DEF Works
<1>3. \A t \in Tab : InOrder(caller, held'[t]) /\ InOrder(caller, queue'[t])
  BY DEF OrderInv, LineInv
<1>4. /\ \A t \in Tab : InBox(inbox'[t]) # {} => phase'[t] = "owner"
      /\ \A t \in Tab : known'[t] # None => held'[t] = <<>>
  BY DEF OrderInv, RouteInv, DatabaseOpen
<1>. QED
  BY <1>1, <1>2, <1>3, <1>4, IdleOrders

(* Nothing on the bus moves.                                               *)
LEMMA SameBusOrders ==
  ASSUME OrderInv, UNCHANGED inbox
  PROVE  \A t \in Tab : /\ Tidy(caller, phase, t, inbox'[t])
                        /\ InBox(inbox'[t]) \subseteq InBox(inbox[t])
BY DEF OrderInv, RouteInv

(* The client's steps keep the order of its requests.                      *)
LEMMA ClientOrders ==
  ASSUME TypeOK, ExclusionInv, RefusalInv, OrderInv, NEW t \in Tab, Client(t)
  PROVE  OrderInv'
<1>1. ASSUME NEW c \in Req, c \in Issued, NEW ans, SendCancel(t, c, ans),
             UNCHANGED <<caller, phase, turn, known, active, result, durable>>
      PROVE  OrderInv'
  <2>. DEFINE id == CancelOf(c)
  <2>1. id \in Id /\ id.req = c /\ IsCancel(id)
    BY IdParts, KindsOfId
  <2>2. Admits(t, id)
    BY <1>1, <2>1 DEF Admits, Issued
  <2>. HIDE DEF id
  <2>. QED
    BY <1>1, <2>1, <2>2, IngressOrders DEF SendCancel, id
<1>2. ASSUME NEW c \in Req, Cancel(t, c) PROVE OrderInv'
  BY <1>1, <1>2, NoneAssumption DEF Cancel, Issued
<1>3. ASSUME NEW id \in Id, Timeout(t, id) PROVE OrderInv'
  <2>1. /\ id.req \in Req /\ id.req \in Issued
        /\ UNCHANGED <<caller, phase, turn, known, active, result, durable>>
    BY <1>3, IdParts, NoneAssumption DEF Timeout, Issued
  <2>2. CASE \E ans : SendCancel(t, id.req, ans)
    BY <1>1, <2>1, <2>2
  <2>3. CASE UNCHANGED <<waitingVars, queue, aborted, inbox>>
    BY <2>1, <2>3, SameBusOrders, StillOrders DEF waitingVars
  <2>. QED
    BY <1>3, <2>2, <2>3 DEF Timeout
<1>. QED
  BY <1>2, <1>3, IssueOrders DEF Client

-----------------------------------------------------------------------------
(* Election.  Whoever opens the archive takes over what it held, and there *)
(* is no other owner whose queue a request of its caller might be in.      *)
LEMMA OpenOkOrders ==
  ASSUME TypeOK, ExclusionInv, RefusalInv, OrderInv, NEW t \in Tab, OpenOk(t)
  PROVE  OrderInv'
<1>. DEFINE G == ToSet(held[t])
<1>1. /\ UNCHANGED <<caller, active, result, aborted, turn, durable>> /\ phase[t] = "opening"
      /\ inbox' = Broadcast(inbox, t, "owner") /\ inbox \in [Tab -> Seq(Message)]
  BY DEF OpenOk, TypeOK
<1>2. /\ held[t] \in Seq(Req) /\ held'[t] = <<>> /\ queue'[t] = held[t]
      /\ \A u \in Tab \ {t} : held'[u] = held[u] /\ queue'[u] = queue[u]
      /\ phase'[t] = "owner" /\ \A u \in Tab \ {t} : phase'[u] = phase[u]
      /\ known'[t] = t /\ \A u \in Tab \ {t} : known'[u] = known[u]
  BY DEF OpenOk, TypeOK
<1>3. ASSUME NEW u \in Tab
      PROVE  InBox(inbox[u]) = {} /\ ((queue[u] = <<>> /\ active[u] = 0) \/ LeftBehind(u))
  <2>1. ~DatabaseOpen(u)
    BY <1>1 DEF ExclusionInv, Holds, DatabaseOpen
  <2>. QED
    BY <2>1 DEF ExclusionInv, OrderInv, RouteInv
<1>4. \A u \in Tab : InBox(inbox'[u]) = {}
  BY <1>1, <1>3, BroadcastBox
<1>5. ToSet(<<>>) = {}
  BY DEF ToSet
<1>6. ASSUME NEW k \in Place, NEW u \in Tab, NEW c \in At(k, u)'
      PROVE  \/ c \in At(k, u) /\ k = "held" /\ u # t
             \/ c \in At(k, u) /\ LeftBehind(u)
             \/ c \in G /\ k = "queue" /\ u = t
  <2>1. CASE k = "held"
    <3>1. c \in ToSet(held'[u])
      BY <1>6, <2>1, AtEachNext
    <3>2. u # t
      BY <1>2, <1>5, <3>1
    <3>. QED
      BY <1>2, <2>1, <3>1, <3>2, AtEach
  <2>2. CASE k = "queue"
    <3>1. c \in ToSet(queue'[u])
      BY <1>6, <2>2, AtEachNext
    <3>2. CASE u = t
      BY <1>2, <2>2, <3>1, <3>2
    <3>3. CASE u # t
      BY <1>2, <1>3, <1>5, <2>2, <3>1, <3>3, AtEach
    <3>. QED
      BY <3>2, <3>3
  <2>3. CASE k = "bus"
    BY <1>4, <1>6, <2>3, AtEachNext
  <2>4. CASE k = "active"
    <3>1. active[u] = c /\ active[u] # 0
      BY <1>1, <1>6, <2>4, AtEachNext
    <3>. QED
      BY <1>3, <2>4, <3>1, AtEach
  <2>. QED
    BY <2>1, <2>2, <2>3, <2>4 DEF Place
<1>7. \A c \in G : c \in At("held", t) /\ c \in Req /\ caller[c] = t
  BY <1>2, AtEach DEF ToSet, OrderInv, RouteInv
<1>8. \A c \in G, k \in Place, u \in Tab : c \in At(k, u) => k = "held" /\ u = t
  BY <1>7, WaitingIsOpen DEF Place
<1>9. Places(G, "queue", t)
  <2>1. ASSUME NEW k \in Place, NEW u \in Tab, NEW c \in At(k, u)', c \in G
        PROVE  k = "queue" /\ u = t
    <3>1. \/ c \in At(k, u) /\ u # t
          \/ c \in At(k, u) /\ LeftBehind(u)
          \/ k = "queue" /\ u = t
      BY <1>6, <2>1
    <3>2. ~LeftBehind(t)
      BY <1>1 DEF LeftBehind
    <3>. QED
      BY <1>8, <2>1, <3>1, <3>2
  <2>. QED
    BY <1>6, <2>1 DEF Places
<1>10. Works(G) /\ Stays /\ ~LeftBehind(t)
  BY <1>1, <1>2, StaysBehind DEF Works, LeftBehind
<1>11. ASSUME NEW c \in Req \ G, NEW d \in G, NEW k \in Place, NEW u \in Tab,
              Before(c, d)', c \in At(k, u)'
       PROVE  LeftBehind(u)'
  <2>1. SUFFICES ASSUME ~LeftBehind(u) PROVE FALSE
    BY <1>10 DEF Stays
  <2>2. c \in ToSet(held[u]) /\ u # t
    BY <1>6, <1>11, <2>1, AtEach
  <2>3. caller[c] = u
    BY <2>2 DEF OrderInv, RouteInv
  <2>. QED
    BY <1>1, <1>7, <1>11, <2>2, <2>3 DEF Before
<1>12. ASSUME NEW c \in G
       PROVE  \E k \in Place \ {"active"}, u \in Tab :
                c \in At(k, u) /\ Stage(k) <= Stage("queue") /\ ~LeftBehind(u)
  BY <1>7, <1>10, <1>12, Stages DEF Place
<1>13. StageInv' /\ LateInv'
  <2>1. G \in SUBSET Req /\ "queue" \in Place
    BY <1>7 DEF Place
  <2>2. \A c \in Issued : caller'[c] = caller[c]
    BY <1>1
  <2>. HIDE DEF G
  <2>. QED
    BY <1>9, <1>10, <1>11, <1>12, <2>1, <2>2, MoveOrders
<1>14. LineInv'
  <2>1. InOrder(caller, <<>>)
    BY DEF InOrder
  <2>. QED
    BY <1>1, <1>2, <2>1 DEF LineInv, OrderInv
<1>15. RouteInv'
  <2>1. Issued' = Issued /\ \A c \in Issued, d \in Req : d < c => d \in Issued
    BY <1>1 DEF Issued, OrderInv, RouteInv
  <2>2. ASSUME NEW u \in Tab, NEW c \in ToSet(held'[u]) PROVE caller'[c] = u
    <3>1. u # t
      BY <1>2, <1>5, <2>2
    <3>. QED
      BY <1>1, <1>2, <2>2, <3>1 DEF OrderInv, RouteInv
  <2>3. \A u \in Tab : Opened(phase, u) => Opened(phase', u)
    BY <1>2 DEF Opened
  <2>4. ASSUME NEW w \in Tab PROVE Tidy(caller', phase', w, inbox'[w])
    <3>1. inbox[w] \in Seq(Message) /\ Tidy(caller, phase, w, inbox[w])
      BY <1>1 DEF OrderInv, RouteInv
    <3>2. Tidy(caller, phase', w, inbox[w])
      BY <2>3, <3>1, TidyStays
    <3>3. Opened(phase', t)
      BY <1>2 DEF Opened
    <3>4. Tidy(caller, phase', w, Broadcast(inbox, t, "owner")[w])
      BY <1>1, <3>2, <3>3, TidyBroadcast
    <3>. QED
      BY <1>1, <3>4
  <2>5. ASSUME NEW u \in Tab, known'[u] # None
        PROVE  held'[u] = <<>> /\ Opened(phase', known'[u])
    <3>1. CASE u = t
      BY <1>2, <3>1 DEF Opened
    <3>2. CASE u # t
      <4>1. known[u] \in Tab /\ held[u] = <<>> /\ Opened(phase, known[u])
        BY <1>2, <2>5, <3>2 DEF TypeOK, OrderInv, RouteInv
      <4>. QED
        BY <1>2, <2>3, <3>2, <4>1
    <3>. QED
      BY <3>1, <3>2
  <2>. QED
    BY <1>4, <2>1, <2>2, <2>4, <2>5 DEF RouteInv
<1>. QED
  BY <1>13, <1>14, <1>15 DEF OrderInv

(* An archive that fails to open drops what its worker held.               *)
LEMMA OpenFailsOrders ==
  ASSUME TypeOK, RefusalInv, OrderInv, NEW t \in Tab, OpenFails(t)
  PROVE  OrderInv'
<1>1. UNCHANGED <<caller, queue, active, result, aborted, turn, durable>> /\ phase[t] = "opening"
  BY DEF OpenFails, ownerVars
<1>2. /\ held'[t] = <<>> /\ \A u \in Tab \ {t} : held'[u] = held[u]
      /\ phase'[t] = "failed" /\ \A u \in Tab \ {t} : phase'[u] = phase[u]
      /\ known'[t] = None /\ \A u \in Tab \ {t} : known'[u] = known[u]
  BY DEF OpenFails, NothingWaits, TypeOK
<1>3. \A u \in Tab : Opened(phase, u) => Opened(phase', u)
  BY <1>2 DEF Opened
<1>4. ASSUME NEW u \in Tab
      PROVE  /\ Tidy(caller, phase', u, inbox'[u])
             /\ InBox(inbox'[u]) \subseteq InBox(inbox[u])
             /\ InBox(inbox'[u]) # {} => phase'[u] = "owner"
  <2>1. inbox'[u] = (IF u = t THEN <<>> ELSE Broadcast(inbox, t, "released")[u])
    BY DEF OpenFails, Broadcast
  <2>2. CASE u = t
    BY <2>1, <2>2, EmptyBox, TidyEmpty
  <2>3. CASE u # t
    <3>1. inbox \in [Tab -> Seq(Message)] /\ inbox[u] \in Seq(Message)
          /\ Tidy(caller, phase, u, inbox[u]) /\ (InBox(inbox[u]) # {} => phase[u] = "owner")
      BY DEF TypeOK, OrderInv, RouteInv, DatabaseOpen
    <3>2. Tidy(caller, phase', u, inbox[u])
      BY <1>3, <3>1, TidyStays
    <3>3. Tidy(caller, phase', u, Broadcast(inbox, t, "released")[u])
      BY <3>1, <3>2, TidyBroadcast
    <3>4. InBox(Broadcast(inbox, t, "released")[u]) = InBox(inbox[u])
      BY <3>1, BroadcastBox
    <3>. QED
      BY <1>2, <2>1, <2>3, <3>1, <3>3, <3>4
  <2>. QED
    BY <2>2, <2>3
<1>5. ToSet(<<>>) = {} /\ InOrder(caller, <<>>)
  BY DEF ToSet, InOrder
<1>6. \A u \in Tab : Shrinks(u) /\ InOrder(caller, held'[u]) /\ InOrder(caller, queue'[u])
  BY <1>1, <1>2, <1>4, <1>5 DEF Shrinks, OrderInv, LineInv
<1>7. Works({}) /\ Stays
  BY <1>1, <1>2, StaysBehind DEF Works
<1>8. \A u \in Tab : known'[u] # None => held'[u] = <<>> /\ known'[u] = known[u]
  BY <1>2 DEF OrderInv, RouteInv
<1>. QED
  BY <1>1, <1>3, <1>4, <1>6, <1>7, <1>8, IdleOrders

(* Election keeps the order.                                               *)
LEMMA ElectionOrders ==
  ASSUME TypeOK, ExclusionInv, RefusalInv, OrderInv, NEW t \in Tab, Election(t)
  PROVE  OrderInv'
<1>1. ASSUME Start(t) \/ Grant(t) PROVE OrderInv'
  <2>1. /\ UNCHANGED <<caller, queue, active, result, aborted, turn, held, known, durable>>
        /\ phase[t] \in {"off", "electing"} /\ \A u \in Tab \ {t} : phase'[u] = phase[u]
        /\ inbox' \in {inbox, Broadcast(inbox, t, "hello")} /\ inbox \in [Tab -> Seq(Message)]
    BY <1>1 DEF Start, Grant, clientVars, waitingVars, ownerVars, TypeOK
  <2>2. ASSUME NEW u \in Tab
        PROVE  /\ Tidy(caller, phase', u, inbox'[u])
               /\ InBox(inbox'[u]) = InBox(inbox[u])
               /\ InBox(inbox'[u]) # {} => phase'[u] = "owner"
    <3>1. inbox[u] \in Seq(Message)
          /\ Tidy(caller, phase, u, inbox[u]) /\ (InBox(inbox[u]) # {} => phase[u] = "owner")
      BY <2>1 DEF OrderInv, RouteInv, DatabaseOpen
    <3>2. \A q \in Tab : Opened(phase, q) => Opened(phase', q)
      BY <2>1 DEF Opened
    <3>3. Tidy(caller, phase', u, inbox[u])
      BY <3>1, <3>2, TidyStays
    <3>4. Tidy(caller, phase', u, Broadcast(inbox, t, "hello")[u])
      BY <2>1, <3>3, TidyBroadcast
    <3>5. InBox(Broadcast(inbox, t, "hello")[u]) = InBox(inbox[u])
      BY <2>1, BroadcastBox
    <3>. QED
      BY <2>1, <3>1, <3>3, <3>4, <3>5
  <2>3. \A u \in Tab : Opened(phase, u) => Opened(phase', u)
    BY <2>1 DEF Opened
  <2>4. \A u \in Tab : Shrinks(u) /\ InOrder(caller, held'[u]) /\ InOrder(caller, queue'[u])
    BY <2>1, <2>2 DEF Shrinks, OrderInv, LineInv
  <2>5. Works({}) /\ Stays
    BY <2>1, StaysBehind DEF Works
  <2>6. \A u \in Tab : known'[u] # None => held'[u] = <<>> /\ known'[u] = known[u]
    BY <2>1 DEF OrderInv, RouteInv
  <2>. QED
    BY <2>1, <2>2, <2>3, <2>4, <2>5, <2>6, IdleOrders
<1>. QED
  BY <1>1, OpenOkOrders, OpenFailsOrders DEF Election

-----------------------------------------------------------------------------
(* The channel handler.  What is left when a message is taken from a box   *)
(* is in order.                                                            *)
LEMMA TakenTidy ==
  ASSUME TypeOK, RefusalInv, OrderInv, NEW r \in Tab, NEW i \in DOMAIN inbox[r]
  PROVE  LET box == [inbox EXCEPT ![r] = RemoveAt(@, i)]
         IN /\ box \in [Tab -> Seq(Message)]
            /\ \A t \in Tab : /\ Tidy(caller, phase, t, box[t])
                              /\ InBox(box[t]) \subseteq InBox(inbox[t])
<1>. DEFINE rest == RemoveAt(inbox[r], i)
            box == [inbox EXCEPT ![r] = rest]
<1>1. /\ box \in [Tab -> Seq(Message)]
      /\ \A t \in Tab : InBox(box[t]) \subseteq InBox(inbox[t])
  BY TakenBox
<1>2. \A t \in Tab : inbox[t] \in Seq(Message) /\ Tidy(caller, phase, t, inbox[t])
  BY DEF TypeOK, OrderInv, RouteInv
<1>3. Tidy(caller, phase, r, rest)
  BY <1>2, TidyRemove
<1>. HIDE DEF rest
<1>4. box[r] = rest /\ \A t \in Tab \ {r} : box[t] = inbox[t]
  BY DEF TypeOK
<1>. HIDE DEF box
<1>5. \A t \in Tab : Tidy(caller, phase, t, box[t])
  BY <1>2, <1>3, <1>4
<1>. QED
  BY <1>1, <1>5 DEF box, rest

(* Requests of one caller that are ahead of each other in stage.           *)
LEMMA Ahead ==
  ASSUME RefusalInv, OrderInv, NEW c \in Req, NEW d \in Req, caller[c] = caller[d],
         NEW k \in Place, NEW l \in Place, NEW t \in Tab, NEW u \in Tab,
         c \in At(k, t), d \in At(l, u), Stage(k) < Stage(l),
         ~LeftBehind(t), ~LeftBehind(u)
  PROVE  d < c
<1>1. k # l /\ ~(Stage(l) <= Stage(k))
  BY Stages
<1>2. c # d
  BY <1>1 DEF RefusalInv, OnePlace
<1>3. ~(c < d)
  BY <1>1 DEF OrderInv, StageInv, Before
<1>. QED
  BY <1>2, <1>3 DEF Req

(* A worker that finds the owner sends it what it held, in order.          *)
LEMMA OwnerFoundOrders ==
  ASSUME TypeOK, RefusalInv, OrderInv, NEW r \in Tab, NEW next \in Tab \ {r},
         Opened(phase, next), NEW box \in [Tab -> Seq(Message)],
         \A t \in Tab : /\ Tidy(caller, phase, t, box[t])
                        /\ InBox(box[t]) \subseteq InBox(inbox[t]),
         UNCHANGED <<caller, phase, turn, active, result, aborted, queue, durable>>,
         Live(r), OwnerFound(r, next, box)
  PROVE  OrderInv'
<1>. DEFINE G == ToSet(held[r])
<1>1. PICK cancels \in Orders(heldCancels[r]) :
        inbox' = Post(box, next, CallMsgs(r, held[r]) \o CancelMsgs(r, cancels))
  BY DEF OwnerFound
<1>. DEFINE msgs == CallMsgs(r, held[r]) \o CancelMsgs(r, cancels)
<1>2. /\ held[r] \in Seq(Req) /\ Single(held[r]) /\ InOrder(caller, held[r])
      /\ cancels \in Seq(Req) /\ \A c \in ToSet(held[r]) : caller[c] = r
  BY OrdersType DEF TypeOK, RefusalInv, OneTime, OrderInv, LineInv, RouteInv
<1>3. msgs \in Seq(Message) /\ InBox(msgs) = G
  BY <1>2, HeldBox
<1>4. Tidy(caller, phase, next, msgs)
  BY <1>2, TidyHeld
<1>5. inbox' = Post(box, next, msgs)
  BY <1>1
<1>. HIDE DEF msgs
<1>6. \A c \in G : c \in Req /\ c \in At("held", r) /\ caller[c] = r
  BY <1>2, AtEach DEF ToSet
<1>7. \A c \in G, k \in Place, u \in Tab : c \in At(k, u) => k = "held" /\ u = r
  BY <1>6, WaitingIsOpen DEF Place
<1>8. /\ held'[r] = <<>> /\ \A u \in Tab \ {r} : held'[u] = held[u]
      /\ known'[r] = next /\ \A u \in Tab \ {r} : known'[u] = known[u]
  BY DEF OwnerFound, TypeOK
<1>9. ToSet(<<>>) = {} /\ InOrder(caller, <<>>)
  BY DEF ToSet, InOrder
<1>10. G \in SUBSET Req
  BY <1>6
<1>. HIDE DEF G
<1>11. Live(next) => DatabaseOpen(next)
  BY DEF Opened, Live, DatabaseOpen
<1>0. ~LeftBehind(r) /\ Stays
  BY StaysBehind DEF Live, LeftBehind
<1>12. ASSUME NEW u \in Tab
       PROVE  /\ \A c \in InBox(inbox'[u]) : c \in InBox(inbox[u]) \/ (c \in G /\ u = next)
              /\ Tidy(caller, phase, u, inbox'[u])
              /\ InBox(inbox'[u]) # {} => DatabaseOpen(u)
  <2>1. InBox(Post(box, next, msgs)[u]) \subseteq
          InBox(box[u]) \cup (IF u = next THEN InBox(msgs) ELSE {})
    BY <1>3, PostBox
  <2>2. ASSUME NEW c \in InBox(msgs), NEW d \in InBox(box[u]), caller[c] = caller[d]
        PROVE  d < c
    <3>1. c \in Req /\ c \in At("held", r)
      BY <1>3, <1>6
    <3>2. d \in Req /\ d \in At("bus", u)
      BY AtEach DEF InBox
    <3>3. ~LeftBehind(u)
      BY <2>2 DEF OrderInv, RouteInv, DatabaseOpen, LeftBehind
    <3>. QED
      BY <1>0, <2>2, <3>1, <3>2, <3>3, Ahead, Stages DEF Place
  <2>3. Tidy(caller, phase, u, Post(box, next, msgs)[u])
    BY <1>3, <1>4, <2>2, TidyPost
  <2>4. Post(box, next, msgs)[u] = box[u] \/ (u = next /\ Live(next))
    BY DEF Post
  <2>5. InBox(inbox[u]) # {} => DatabaseOpen(u)
    BY DEF OrderInv, RouteInv
  <2>6. InBox(inbox'[u]) # {} => DatabaseOpen(u)
    BY <1>5, <1>11, <2>4, <2>5
  <2>7. \A c \in InBox(inbox'[u]) : c \in InBox(inbox[u]) \/ (c \in G /\ u = next)
    BY <1>3, <1>5, <2>1
  <2>. QED
    BY <1>5, <2>3, <2>6, <2>7
<1>13. ASSUME NEW k \in Place, NEW u \in Tab, NEW c \in At(k, u)'
       PROVE  \/ c \in At(k, u) /\ ~(k = "held" /\ u = r)
              \/ c \in G /\ k = "bus" /\ u = next
  <2>1. CASE k = "held"
    <3>1. c \in ToSet(held'[u])
      BY <1>13, <2>1, AtEachNext
    <3>2. u # r
      BY <1>8, <1>9, <3>1
    <3>. QED
      BY <1>8, <2>1, <3>1, <3>2, AtEach
  <2>2. CASE k = "bus"
    BY <1>12, <1>13, <2>2, AtEach, AtEachNext
  <2>3. CASE k \in {"queue", "active"}
    BY <1>13, <2>3, AtEach, AtEachNext
  <2>. QED
    BY <2>1, <2>2, <2>3 DEF Place
<1>14. Places(G, "bus", next)
  BY <1>7, <1>13 DEF Places
<1>15. Works(G)
  BY DEF Works
<1>16. ASSUME NEW c \in Req \ G, NEW d \in G, NEW k \in Place, NEW u \in Tab,
              Before(c, d)', c \in At(k, u)'
       PROVE  Stage("bus") <= Stage(k)
  <2>1. caller[c] = r
    BY <1>6, <1>16 DEF Before
  <2>2. k # "held"
    <3>1. ASSUME k = "held" PROVE FALSE
      <4>1. c \in ToSet(held[u]) /\ u # r
        BY <1>13, <1>16, <3>1, AtEach
      <4>. QED
        BY <2>1, <4>1 DEF OrderInv, RouteInv
    <3>. QED
      BY <3>1
  <2>. QED
    BY <2>2, Stages DEF Place
<1>17. ASSUME NEW c \in G
       PROVE  \E k \in Place \ {"active"}, u \in Tab :
                c \in At(k, u) /\ Stage(k) <= Stage("bus") /\ ~LeftBehind(u)
  BY <1>0, <1>6, <1>17, Stages DEF Place
<1>18. StageInv' /\ LateInv'
  <2>1. "bus" \in Place
    BY DEF Place
  <2>. QED
    BY <1>0, <1>10, <1>14, <1>15, <1>16, <1>17, <2>1, MoveOrders
<1>19. LineInv'
  BY <1>8, <1>9 DEF LineInv, OrderInv
<1>20. RouteInv'
  <2>1. Issued' = Issued /\ \A c \in Issued, d \in Req : d < c => d \in Issued
    BY DEF Issued, OrderInv, RouteInv
  <2>2. \A u \in Tab : \A c \in ToSet(held'[u]) : caller'[c] = u
    BY <1>8, <1>9 DEF OrderInv, RouteInv
  <2>3. \A u \in Tab : InBox(inbox'[u]) # {} => DatabaseOpen(u)'
    BY <1>12 DEF DatabaseOpen
  <2>4. \A u \in Tab : known'[u] # None => held'[u] = <<>> /\ Opened(phase', known'[u])
    BY <1>8 DEF OrderInv, RouteInv
  <2>. QED
    BY <1>12, <2>1, <2>2, <2>3, <2>4 DEF RouteInv
<1>. QED
  BY <1>18, <1>19, <1>20 DEF OrderInv

(* A request arrives at the owner after the earlier ones of its caller.    *)
LEMMA ReceiveCallOrders ==
  ASSUME TypeOK, ExclusionInv, RefusalInv, OrderInv, NEW r \in Tab, NEW i \in Deliverable(r),
         known[r] = r, Live(r), UNCHANGED <<caller, phase, turn, active, result, durable>>,
         ReceiveCall(r, inbox[r][i], [inbox EXCEPT ![r] = RemoveAt(@, i)])
  PROVE  OrderInv'
<1>. DEFINE m == inbox[r][i]
            box == [inbox EXCEPT ![r] = RemoveAt(@, i)]
            msgs == ReplyMsgs(r, Replies(r, m.id))
            c == m.id.req
            G == IF IsCancel(m.id) THEN {} ELSE {c}
<1>0. i \in DOMAIN inbox[r]
  BY DEF Deliverable
<1>1. /\ m \in Message /\ box \in [Tab -> Seq(Message)]
      /\ \A t \in Tab : /\ Tidy(caller, phase, t, box[t])
                        /\ InBox(box[t]) \subseteq InBox(inbox[t])
      /\ \A d \in Req : IsRequestCall(m, d) => d \in InBox(inbox[r]) \ InBox(box[r])
  BY <1>0, TakenBox, TakenTidy
<1>. HIDE DEF m, box
<1>2. /\ m.type = "call" /\ m.id \in Id /\ c \in Req
      /\ queue' = [queue EXCEPT ![r] = NewQueue(r, m.id)]
      /\ aborted' = [aborted EXCEPT ![r] = NewAborted(r, m.id)]
      /\ inbox' = Post(box, m.from, msgs) /\ UNCHANGED <<held, known>>
  <2>1. ReceiveCall(r, m, box)
    BY DEF m, box
  <2>2. m.type = "call"
    BY <2>1 DEF ReceiveCall
  <2>3. m.id \in Id
    BY <1>1, <2>2, MessageParts
  <2>. QED
    BY <2>1, <2>2, <2>3, IdParts DEF ReceiveCall, waitingVars
<1>3. \A d \in G : /\ d = c /\ IsRequestCall(m, d) /\ d \in At("bus", r) /\ d \notin InBox(box[r])
  BY <1>1, <1>2, KindsOfId, AtEach DEF IsRequestCall
<1>4. \A d \in G : /\ d \notin Done
                   /\ \A k \in Place, u \in Tab : d \in At(k, u) => k = "bus" /\ u = r
  BY <1>2, <1>3, WaitingIsOpen DEF Place
<1>5. ~IsCancel(m.id) => c \notin Done /\ c \notin ToSet(queue[r])
  BY <1>4, AtEach DEF Place
<1>6. /\ ToSet(NewQueue(r, m.id)) \subseteq ToSet(queue[r]) \cup G
      /\ aborted[r] = TRUE => NewAborted(r, m.id) = TRUE
  BY <1>2, <1>5, OwnerAccepts
<1>7. /\ queue'[r] = NewQueue(r, m.id) /\ aborted'[r] = NewAborted(r, m.id)
      /\ \A u \in Tab \ {r} : queue'[u] = queue[u] /\ aborted'[u] = aborted[u]
  BY <1>2 DEF TypeOK
<1>8. msgs \in Seq(Message) /\ InBox(msgs) = {} /\ \A j \in DOMAIN msgs : msgs[j].type = "reply"
  <2>1. Replies(r, m.id) \in Seq(Reply)
    BY <1>2, IngressType
  <2>. QED
    BY <2>1, ReplyBox DEF ReplyMsgs, Msg
<1>. HIDE DEF msgs
<1>9. ASSUME NEW u \in Tab
      PROVE  /\ InBox(inbox'[u]) \subseteq InBox(box[u])
             /\ Tidy(caller, phase, u, inbox'[u])
  <2>1. InBox(Post(box, m.from, msgs)[u]) \subseteq
          InBox(box[u]) \cup (IF u = m.from THEN InBox(msgs) ELSE {})
    BY <1>1, <1>8, PostBox
  <2>2. Tidy(caller, phase, u, msgs)
    BY <1>8, TidyReplies
  <2>3. Tidy(caller, phase, u, Post(box, m.from, msgs)[u])
    BY <1>1, <1>8, <2>2, TidyPost
  <2>. QED
    BY <1>2, <1>8, <2>1, <2>3
<1>10. ASSUME NEW k \in Place, NEW u \in Tab, NEW d \in At(k, u)'
       PROVE  \/ d \in At(k, u) /\ (k = "bus" => d \in InBox(inbox'[u]))
              \/ d \in G /\ k = "queue" /\ u = r
  <2>1. CASE k = "queue"
    <3>1. d \in ToSet(queue'[u])
      BY <1>10, <2>1, AtEachNext
    <3>. HIDE DEF G
    <3>2. CASE u = r
      BY <1>6, <1>7, <2>1, <3>1, <3>2, AtEach
    <3>3. CASE u # r
      BY <1>7, <2>1, <3>1, <3>3, AtEach
    <3>. QED
      BY <3>2, <3>3
  <2>2. CASE k = "bus"
    <3>1. d \in InBox(inbox'[u])
      BY <1>10, <2>2, AtEachNext
    <3>2. d \in InBox(inbox[u])
      BY <1>1, <1>9, <3>1
    <3>3. d \in At(k, u)
      BY <2>2, <3>2, AtEach
    <3>. QED
      BY <3>1, <3>3
  <2>3. CASE k \in {"held", "active"}
    BY <1>2, <1>10, <2>3, AtEach, AtEachNext
  <2>. QED
    BY <2>1, <2>2, <2>3 DEF Place
<1>11. Places(G, "queue", r)
  <2>1. \A d \in G : d \notin InBox(inbox'[r])
    BY <1>3, <1>9
  <2>2. ASSUME NEW k \in Place, NEW u \in Tab, NEW d \in At(k, u)', d \in G
        PROVE  k = "queue" /\ u = r
    BY <1>4, <1>10, <2>1, <2>2
  <2>. QED
    BY <1>10, <2>2 DEF Places
<1>12. Works(G) /\ Stays /\ ~LeftBehind(r)
  BY <1>7, <1>6, StaysBehind DEF Works, Live, LeftBehind
<1>13. ASSUME NEW e \in Req \ G, NEW d \in G, NEW k \in Place, NEW u \in Tab,
              Before(e, d)', e \in At(k, u)'
       PROVE  Stage("queue") <= Stage(k) \/ LeftBehind(u)'
  <2>1. e \in At(k, u) /\ Before(e, d) /\ d \in Req /\ d \in At("bus", r)
    BY <1>2, <1>3, <1>10, <1>13 DEF Before
  <2>2. Stage("bus") <= Stage(k) \/ LeftBehind(u)'
    BY <1>12, <2>1 DEF OrderInv, StageInv, Stays, Place
  <2>3. k # "bus"
    <3>1. ASSUME k = "bus" PROVE FALSE
      <4>1. u = r
        <5>1. Holds(r)
          BY DEF ExclusionInv, Holds, DatabaseOpen
        <5>. QED
          BY <2>1, <3>1, <5>1, OnBus
      <4>2. PICK j \in DOMAIN inbox[r] : IsRequestCall(inbox[r][j], e)
        BY <2>1, <3>1, <4>1, AtEach DEF InBox
      <4>3. IsRequestCall(inbox[r][i], d)
        BY <1>3 DEF m
      <4>4. j < i /\ inbox[r][j].from = caller[e] /\ inbox[r][i].from = caller[d]
        BY <1>0, <2>1, <4>2, <4>3
           DEF OrderInv, RouteInv, Tidy, CallsInOrder, FromCallers, Before
      <4>5. j \in 1 .. i - 1
        BY <1>0, <4>4 DEF TypeOK
      <4>. QED
        BY <2>1, <4>4, <4>5 DEF Deliverable, Before
    <3>. QED
      BY <3>1
  <2>. QED
    BY <2>2, <2>3, Stages DEF Place
<1>14. ASSUME NEW d \in G
       PROVE  \E k \in Place \ {"active"}, u \in Tab :
                d \in At(k, u) /\ Stage(k) <= Stage("queue") /\ ~LeftBehind(u)
  BY <1>3, <1>12, <1>14, Stages DEF Place
<1>15. G \in SUBSET Req /\ "queue" \in Place
  BY <1>2 DEF Place
<1>16. InOrder(caller, NewQueue(r, m.id))
  <2>1. ASSUME ~IsCancel(m.id), NEW y \in ToSet(queue[r]), caller[y] = caller[c]
        PROVE  y < c
    <3>1. y \in Req /\ y \in At("queue", r)
      BY AtEach DEF TypeOK, ToSet
    <3>2. c \in At("bus", r)
      BY <1>3, <2>1
    <3>. QED
      BY <1>2, <1>12, <2>1, <3>1, <3>2, Ahead, Stages DEF Place
  <2>2. InOrder(caller, queue[r])
    BY DEF OrderInv, LineInv
  <2>. QED
    BY <1>2, <2>1, <2>2, NewQueueOrders
<1>17. StageInv' /\ LateInv'
  <2>. HIDE DEF G
  <2>. QED
    BY <1>11, <1>12, <1>13, <1>14, <1>15, MoveOrders
<1>18. LineInv'
  BY <1>2, <1>7, <1>16 DEF LineInv, OrderInv
<1>19. RouteInv'
  <2>1. Issued' = Issued /\ \A d \in Issued, e \in Req : e < d => e \in Issued
    BY DEF Issued, OrderInv, RouteInv
  <2>2. \A u \in Tab : InBox(inbox'[u]) # {} => DatabaseOpen(u)'
    BY <1>1, <1>9 DEF OrderInv, RouteInv, DatabaseOpen
  <2>3. /\ \A u \in Tab : \A d \in ToSet(held'[u]) : caller'[d] = u
        /\ \A u \in Tab : known'[u] # None => held'[u] = <<>> /\ Opened(phase', known'[u])
    BY <1>2 DEF OrderInv, RouteInv
  <2>. QED
    BY <1>9, <2>1, <2>2, <2>3 DEF RouteInv
<1>. QED
  BY <1>17, <1>18, <1>19 DEF OrderInv

(* Handling a message keeps the order.                                     *)
LEMMA ReceiveOrders ==
  ASSUME TypeOK, ExclusionInv, RefusalInv, OrderInv, NEW r \in Tab, Receive(r)
  PROVE  OrderInv'
<1>1. PICK i \in Deliverable(r) :
        LET m == inbox[r][i]
            box == [inbox EXCEPT ![r] = RemoveAt(@, i)]
        IN \/ ReceiveHello(r, m, box) \/ ReceiveOwner(r, m, box)
           \/ ReceiveReleased(r, m, box) \/ ReceiveCall(r, m, box)
           \/ ReceiveReply(r, m, box)
  BY DEF Receive
<1>. DEFINE m == inbox[r][i]
            box == [inbox EXCEPT ![r] = RemoveAt(@, i)]
<1>2. i \in DOMAIN inbox[r]
  BY DEF Deliverable
<1>3. UNCHANGED <<caller, phase, turn, active, result, durable>> /\ Live(r)
  BY DEF Receive
<1>4. /\ m \in Message /\ box \in [Tab -> Seq(Message)]
      /\ \A t \in Tab : /\ Tidy(caller, phase, t, box[t])
                        /\ InBox(box[t]) \subseteq InBox(inbox[t])
  BY <1>2, TakenBox, TakenTidy
<1>5. m.type = "owner" => m.from \in Tab \ {r} /\ Opened(phase, m.from)
  <2>1. m \in Heard(r)
    BY <1>2 DEF ExclusionInv
  <2>2. m.type = "owner" => Opened(phase, m.from)
    BY <1>2 DEF OrderInv, RouteInv, Tidy, FromOwners
  <2>. QED
    BY <1>4, <2>1, <2>2, MessageParts DEF Heard
<1>6. ASSUME known[r] = r, ReceiveCall(r, m, box) PROVE OrderInv'
  BY <1>3, <1>6, ReceiveCallOrders
<1>. HIDE DEF m, box
<1>7. ASSUME inbox' = box, UNCHANGED <<aborted, queue, held, known>> PROVE OrderInv'
  BY <1>3, <1>4, <1>7, StillOrders
<1>8. CASE ReceiveHello(r, m, box)
  <2>1. UNCHANGED <<known, aborted, queue, held>>
    BY <1>8 DEF ReceiveHello, waitingVars
  <2>2. CASE Introduces(r)
    <3>1. inbox' = Broadcast(box, r, "owner") /\ Opened(phase, r)
      BY <1>8, <2>2 DEF ReceiveHello, Introduces, DatabaseOpen, Opened
    <3>2. ASSUME NEW t \in Tab
          PROVE  Tidy(caller, phase, t, inbox'[t]) /\ InBox(inbox'[t]) \subseteq InBox(inbox[t])
      <4>1. Tidy(caller, phase, t, Broadcast(box, r, "owner")[t])
        BY <1>4, <3>1, TidyBroadcast
      <4>2. InBox(Broadcast(box, r, "owner")[t]) = InBox(box[t])
        BY <1>4, BroadcastBox
      <4>. QED
        BY <1>4, <3>1, <4>1, <4>2
    <3>. QED
      BY <1>3, <2>1, <3>2, StillOrders
  <2>3. CASE ~Introduces(r)
    BY <1>7, <1>8, <2>1, <2>3 DEF ReceiveHello
  <2>. QED
    BY <2>2, <2>3
<1>9. CASE ReceiveOwner(r, m, box)
  <2>1. CASE OwnerFound(r, m.from, box)
    BY <1>3, <1>4, <1>5, <1>9, <2>1, OwnerFoundOrders DEF ReceiveOwner
  <2>2. CASE inbox' = box /\ UNCHANGED <<known, waitingVars>>
    BY <1>7, <1>9, <2>2 DEF ReceiveOwner, waitingVars
  <2>. QED
    BY <1>9, <2>1, <2>2 DEF ReceiveOwner
<1>10. CASE ReceiveReleased(r, m, box)
  <2>1. /\ inbox' = box /\ UNCHANGED <<aborted, queue, held>>
        /\ \A t \in Tab : known'[t] = known[t] \/ known'[t] = None
    BY <1>10 DEF ReceiveReleased, OwnerLost, waitingVars, TypeOK
  <2>2. \A t \in Tab : Shrinks(t)
    BY <1>3, <1>4, <2>1 DEF Shrinks
  <2>3. Works({}) /\ Stays
    BY <1>3, <2>1, StaysBehind DEF Works
  <2>4. \A t \in Tab : /\ InOrder(caller, held'[t]) /\ InOrder(caller, queue'[t])
                       /\ InBox(inbox'[t]) # {} => phase'[t] = "owner"
                       /\ known'[t] # None => held'[t] = <<>> /\ known'[t] = known[t]
    BY <1>3, <1>4, <2>1 DEF OrderInv, LineInv, RouteInv, DatabaseOpen
  <2>. QED
    BY <1>3, <1>4, <2>1, <2>2, <2>3, <2>4, IdleOrders
<1>11. CASE ReceiveCall(r, m, box) /\ known[r] # r
  BY <1>7, <1>11 DEF ReceiveCall, waitingVars
<1>12. CASE ReceiveReply(r, m, box)
  BY <1>7, <1>12 DEF ReceiveReply
<1>. QED
  BY <1>1, <1>6, <1>8, <1>9, <1>10, <1>11, <1>12 DEF m, box

-----------------------------------------------------------------------------
(* The owner's drain takes the oldest request of its queue.                *)
LEMMA BeginOrders ==
  ASSUME TypeOK, ExclusionInv, RefusalInv, OrderInv, NEW w \in Tab, Begin(w)
  PROVE  OrderInv'
<1>. DEFINE c == queue[w][1]
            G == {c}
<1>1. UNCHANGED <<caller, phase, turn, known, result, aborted, held, inbox, durable>>
  BY DEF Begin, clientVars, waitingVars
<1>0. Stays /\ \A u \in Tab : LeftBehind(u)' <=> LeftBehind(u)
  BY <1>1 DEF Stays, LeftBehind
<1>2. /\ queue[w] \in Seq(Req) /\ queue[w] # <<>> /\ 1 \in DOMAIN queue[w] /\ c \in Req /\ c # 0
      /\ Single(queue[w]) /\ InOrder(caller, queue[w])
  <2>1. queue[w] \in Seq(Req) /\ queue[w] # <<>> /\ Single(queue[w]) /\ InOrder(caller, queue[w])
    BY DEF Begin, TypeOK, RefusalInv, OneTime, OrderInv, LineInv
  <2>2. 1 \in DOMAIN queue[w] /\ c \in Req
    BY <2>1
  <2>. QED
    BY <2>1, <2>2 DEF Req
<1>3. /\ queue'[w] = RemoveAt(queue[w], 1) /\ active'[w] = c
      /\ \A u \in Tab \ {w} : queue'[u] = queue[u] /\ active'[u] = active[u]
  BY DEF Begin, NextWork, TypeOK
<1>4. /\ ToSet(queue'[w]) = ToSet(queue[w]) \ {c} /\ InOrder(caller, queue'[w])
      /\ \A y \in ToSet(queue'[w]) : caller[y] = caller[c] => c < y
  BY <1>2, <1>3, RemoveAtSingle, InOrderRemove, InOrderFirst
<1>5. c \in At("queue", w)
  BY <1>2, AtEach DEF ToSet
<1>6. \A k \in Place, u \in Tab : c \in At(k, u) => k = "queue" /\ u = w
  BY <1>2, <1>5, WaitingIsOpen DEF Place
<1>7. ASSUME ~LeftBehind(w)
      PROVE  \A u \in Tab : ~LeftBehind(u) => active[u] = 0 /\ (u # w => queue[u] = <<>>)
  BY <1>7 DEF Begin, ExclusionInv, Holds, DatabaseOpen
<1>. HIDE DEF c
<1>8. ASSUME NEW k \in Place, NEW u \in Tab, NEW d \in At(k, u)'
      PROVE  \/ /\ d \in At(k, u) /\ (k = "queue" => d \in ToSet(queue'[u]))
                /\ k = "active" => u # w
             \/ d = c /\ k = "active" /\ u = w
  <2>1. CASE k \in {"held", "bus"}
    BY <1>1, <1>8, <2>1, AtEach, AtEachNext
  <2>2. CASE k = "queue"
    <3>1. d \in ToSet(queue'[u])
      BY <1>8, <2>2, AtEachNext
    <3>. QED
      BY <1>3, <1>4, <2>2, <3>1, AtEach
  <2>3. CASE k = "active"
    <3>1. d = active'[u] /\ d # 0
      BY <1>8, <2>3, AtEachNext
    <3>. QED
      BY <1>3, <2>3, <3>1, AtEach
  <2>. QED
    BY <2>1, <2>2, <2>3 DEF Place
<1>9. Places(G, "active", w)
  <2>1. c \notin ToSet(queue'[w])
    BY <1>4
  <2>2. ASSUME NEW k \in Place, NEW u \in Tab, c \in At(k, u)'
        PROVE  k = "active" /\ u = w
    BY <1>6, <1>8, <2>1, <2>2
  <2>. QED
    BY <1>8, <2>2 DEF Places
<1>10. Works(G)
  BY <1>1, <1>3 DEF Works
<1>11. ASSUME NEW e \in Req \ G, NEW d \in G, NEW k \in Place, NEW u \in Tab,
              Before(e, d)', e \in At(k, u)', ~LeftBehind(w)
       PROVE  LeftBehind(u)'
  <2>. SUFFICES ASSUME ~LeftBehind(u) PROVE FALSE
    BY <1>0
  <2>1. /\ e \in At(k, u) /\ (k = "queue" => e \in ToSet(queue'[u])) /\ k # "active"
        /\ e < c /\ caller[e] = caller[c]
    <3>1. k = "active" => e \notin At(k, u)
      BY <1>7, <1>11, AtEach
    <3>. QED
      BY <1>1, <1>8, <1>11, <3>1 DEF Before
  <2>2. Stage("queue") <= Stage(k)
    BY <1>2, <1>5, <1>11, <2>1 DEF OrderInv, StageInv, Before, Place
  <2>3. k = "queue"
    BY <2>1, <2>2, Stages DEF Place
  <2>4. u = w
    BY <1>3, <1>7, <1>11, <2>1, <2>3 DEF ToSet
  <2>5. c < e
    BY <1>4, <2>1, <2>3, <2>4
  <2>. QED
    BY <1>2, <2>1, <2>5 DEF Req
<1>12. ASSUME NEW d \in G, ~LeftBehind(w)
       PROVE  \E k \in Place \ {"active"}, u \in Tab :
                d \in At(k, u) /\ Stage(k) <= Stage("active") /\ ~LeftBehind(u)
  BY <1>5, <1>12, Stages DEF Place
<1>13. StageInv' /\ LateInv'
  <2>1. CASE ~LeftBehind(w)
    <3>1. G \in SUBSET Req /\ "active" \in Place /\ \A d \in Issued : caller'[d] = caller[d]
      BY <1>1, <1>2 DEF Place
    <3>. HIDE DEF G
    <3>. QED
      BY <1>0, <1>9, <1>10, <1>11, <1>12, <2>1, <3>1, MoveOrders
  <2>2. CASE LeftBehind(w)
    <3>1. ASSUME NEW k \in Place, NEW u \in Tab, NEW d \in At(k, u)'
          PROVE  d \in At(k, u) \/ LeftBehind(u)'
      BY <1>0, <1>8, <2>2, <3>1
    <3>2. StageInv'
      BY <1>0, <1>1, <3>1 DEF OrderInv, StageInv, Before
    <3>3. Done' = Done
      BY <1>1 DEF Done, durable
    <3>4. LateInv'
      <4>1. ASSUME NEW d \in Req, NEW e \in Req, Before(d, e), e \in Done
            PROVE  /\ \A k \in Place \ {"active"}, u \in Tab : d \in At(k, u)' => LeftBehind(u)'
                   /\ \A u \in Tab : active'[u] = d => result'[u] # "running" \/ LeftBehind(u)'
        BY <1>0, <1>1, <1>3, <2>2, <3>1, <4>1 DEF OrderInv, LateInv
      <4>. QED
        BY <1>1, <3>3, <4>1 DEF LateInv, Before
    <3>. QED
      BY <3>2, <3>4
  <2>. QED
    BY <2>1, <2>2
<1>14. LineInv' /\ RouteInv'
  <2>1. Issued' = Issued /\ \A u \in Tab : DatabaseOpen(u)' <=> DatabaseOpen(u)
    BY <1>1 DEF Issued, DatabaseOpen
  <2>. QED
    BY <1>1, <1>3, <1>4, <2>1 DEF OrderInv, LineInv, RouteInv
<1>. QED
  BY <1>13, <1>14 DEF OrderInv

(* A request takes effect before the later ones of its caller, and after   *)
(* the earlier ones, if they do at all.                                    *)
LEMMA ExecuteOrders ==
  ASSUME TypeOK, ExclusionInv, RefusalInv, OrderInv, NEW w \in Tab, Execute(w)
  PROVE  OrderInv'
<1>. DEFINE c == active[w]
<1>1. /\ UNCHANGED <<caller, phase, turn, known, active, queue, held, inbox>>
      /\ result' = [result EXCEPT ![w] = "OK"] /\ c \in Req /\ result[w] = "running"
  BY DEF Execute, Proceeds, Running, clientVars, waitingVars, TypeOK
<1>2. /\ \A k, t : At(k, t)' = At(k, t)
      /\ \A u \in Tab : LeftBehind(u)' <=> LeftBehind(u)
      /\ Issued' = Issued /\ \A u \in Tab : DatabaseOpen(u)' <=> DatabaseOpen(u)
  BY <1>1 DEF At, LeftBehind, Issued, DatabaseOpen
<1>3. StageInv' /\ LineInv' /\ RouteInv'
  BY <1>1, <1>2 DEF OrderInv, StageInv, LineInv, RouteInv, Before
<1>4. \A d \in Done' : d \in Done \/ d = c
  <2>1. effects' \in {effects, Append(effects, c)}
    BY DEF Execute
  <2>2. ToSet(Append(effects, c)) = ToSet(effects) \cup {c}
    BY <1>1, AppendElems DEF TypeOK
  <2>. QED
    BY <2>1, <2>2 DEF Done
<1>5. c \in At("active", w)
  BY <1>1, AtEach DEF Req
<1>6. ~LeftBehind(w) /\ \A u \in Tab : active[u] # 0 => u = w \/ LeftBehind(u)
  BY DEF Execute, ExclusionInv, Holds, DatabaseOpen, LeftBehind
<1>. HIDE DEF c
<1>7. ASSUME NEW d \in Req, NEW e \in Req, Before(d, e), e \in Done'
      PROVE  /\ \A k \in Place \ {"active"}, t \in Tab : d \in At(k, t) => LeftBehind(t)
             /\ \A t \in Tab : active[t] = d => result'[t] # "running" \/ LeftBehind(t)
  <2>1. CASE e \in Done
    <3>1. /\ \A k \in Place \ {"active"}, t \in Tab : d \in At(k, t) => LeftBehind(t)
          /\ \A t \in Tab : active[t] = d => result[t] # "running" \/ LeftBehind(t)
      BY <1>7, <2>1 DEF OrderInv, LateInv
    <3>. QED
      BY <1>1, <3>1 DEF TypeOK
  <2>2. CASE e = c
    <3>1. ASSUME NEW k \in Place \ {"active"}, NEW t \in Tab, d \in At(k, t), ~LeftBehind(t)
          PROVE  FALSE
      <4>1. Stage("active") <= Stage(k)
        BY <1>5, <1>6, <1>7, <2>2, <3>1 DEF OrderInv, StageInv, Place
      <4>. QED
        BY <4>1, Stages DEF Place
    <3>2. ASSUME NEW t \in Tab, active[t] = d, ~LeftBehind(t) PROVE FALSE
      <4>1. t = w
        BY <1>6, <3>2 DEF Req
      <4>. QED
        BY <1>7, <2>2, <3>2, <4>1 DEF Before, Req, c
    <3>. QED
      BY <3>1, <3>2
  <2>. QED
    BY <1>4, <1>7, <2>1, <2>2
<1>8. LateInv'
  BY <1>1, <1>2, <1>7 DEF LateInv, Before
<1>. QED
  BY <1>3, <1>8 DEF OrderInv

(* The end of a request leaves the order as it is, and so does maintenance.*)
LEMMA EndOrders ==
  ASSUME TypeOK, RefusalInv, OrderInv, NEW w \in Tab,
         \/ Refuse(w) \/ GateCloseFails(w) \/ Finish(w)
         \/ Maintain(w) \/ Maintained(w)
  PROVE  OrderInv'
<1>1. CASE Refuse(w) \/ GateCloseFails(w)
  <2>1. /\ UNCHANGED <<caller, phase, turn, known, active, queue, held, inbox, durable>>
        /\ \A t \in Tab : result'[t] = "running" => result[t] = "running"
    BY <1>1 DEF Refuse, GateCloseFails, clientVars, waitingVars, TypeOK
  <2>2. /\ \A k, t : At(k, t)' = At(k, t)
        /\ \A u \in Tab : LeftBehind(u)' <=> LeftBehind(u)
        /\ Issued' = Issued /\ \A u \in Tab : DatabaseOpen(u)' <=> DatabaseOpen(u)
        /\ Done' = Done
    BY <2>1 DEF At, LeftBehind, Issued, DatabaseOpen, Done, durable
  <2>3. StageInv' /\ LineInv' /\ RouteInv'
    BY <2>1, <2>2 DEF OrderInv, StageInv, LineInv, RouteInv, Before
  <2>4. LateInv'
    BY <2>1, <2>2 DEF OrderInv, LateInv, Before
  <2>. QED
    BY <2>3, <2>4 DEF OrderInv
<1>2. CASE Finish(w)
  <2>. DEFINE id == Request(active[w])
              msgs == <<Msg("reply", w, id, result[w])>>
  <2>1. /\ UNCHANGED <<caller, phase, known, queue, held, durable>>
        /\ inbox' = inbox \/ inbox' = Post(inbox, caller[active[w]], msgs)
        /\ active[w] \in Req /\ id \in Id /\ result[w] \in Answer
    BY <1>2, IdParts, AnswerValues DEF Finish, TypeOK
  <2>2. /\ active'[w] = 0
        /\ \A u \in Tab \ {w} : /\ active'[u] = active[u] /\ result'[u] = result[u]
                                /\ aborted'[u] = aborted[u]
    BY <1>2 DEF Finish, TypeOK
  <2>3. msgs \in Seq(Message) /\ InBox(msgs) = {} /\ \A i \in DOMAIN msgs : msgs[i].type = "reply"
    BY <2>1, OneReplyBox DEF Msg
  <2>. HIDE DEF msgs, id
  <2>4. ASSUME NEW u \in Tab
        PROVE  Tidy(caller, phase, u, inbox'[u]) /\ InBox(inbox'[u]) \subseteq InBox(inbox[u])
    <3>1. Tidy(caller, phase, u, inbox[u]) /\ inbox \in [Tab -> Seq(Message)]
      BY DEF OrderInv, RouteInv, TypeOK
    <3>2. Tidy(caller, phase, u, msgs)
      BY <2>3, TidyReplies
    <3>3. Tidy(caller, phase, u, Post(inbox, caller[active[w]], msgs)[u])
      BY <2>3, <3>1, <3>2, TidyPost
    <3>4. InBox(Post(inbox, caller[active[w]], msgs)[u]) \subseteq
            InBox(inbox[u]) \cup (IF u = caller[active[w]] THEN InBox(msgs) ELSE {})
      BY <2>3, <3>1, PostBox
    <3>. QED
      BY <2>1, <2>3, <3>1, <3>3, <3>4
  <2>5. \A t \in Tab : Shrinks(t)
    BY <2>1, <2>2, <2>4 DEF Shrinks
  <2>6. Works({}) /\ Stays
    BY <1>2, <2>1, <2>2 DEF Works, Stays, LeftBehind, Finish, TypeOK
  <2>7. \A t \in Tab : /\ InOrder(caller, held'[t]) /\ InOrder(caller, queue'[t])
                       /\ InBox(inbox'[t]) # {} => phase'[t] = "owner"
                       /\ known'[t] # None => held'[t] = <<>>
    BY <2>1, <2>4 DEF OrderInv, LineInv, RouteInv, DatabaseOpen
  <2>. QED
    BY <2>1, <2>4, <2>5, <2>6, <2>7, IdleOrders
<1>3. CASE Maintain(w) \/ Maintained(w)
  <2>1. UNCHANGED <<caller, phase, known, held, queue, active, result, aborted, durable, inbox>>
    BY <1>3 DEF Maintain, Maintained, clientVars, waitingVars
  <2>2. Stays
    BY <1>3, <2>1 DEF Maintain, Maintained, DatabaseOpen, Stays, LeftBehind, TypeOK
  <2>. QED
    BY <2>1, <2>2, SameBusOrders, StillOrders
<1>. QED
  BY <1>1, <1>2, <1>3

-----------------------------------------------------------------------------
(* Close and loss.  A worker that leaves takes along what it held.         *)
LEMMA GoneOrders ==
  ASSUME TypeOK, RefusalInv, OrderInv, NEW t \in Tab, NEW box, DOMAIN box = Tab,
         \A u \in Tab : /\ Tidy(caller, phase, u, box[u])
                        /\ InBox(box[u]) \subseteq InBox(inbox[u]),
         NEW ans, Gone(t, ans, box), UNCHANGED <<caller, durable>>, phase[t] # "closed",
         queue'[t] = queue[t] \/ queue'[t] = <<>>,
         \/ active'[t] = 0
         \/ active'[t] = active[t] /\ result'[t] = result[t] /\ aborted'[t] = aborted[t],
         \A u \in Tab \ {t} : /\ queue'[u] = queue[u] /\ active'[u] = active[u]
                              /\ result'[u] = result[u] /\ aborted'[u] = aborted[u]
                              /\ turn'[u] = turn[u]
  PROVE  OrderInv'
<1>1. /\ held'[t] = <<>> /\ \A u \in Tab \ {t} : held'[u] = held[u]
      /\ known'[t] = None /\ \A u \in Tab \ {t} : known'[u] = known[u]
      /\ phase'[t] = "closed" /\ \A u \in Tab \ {t} : phase'[u] = phase[u]
      /\ \A u \in Tab : inbox'[u] = IF u = t THEN <<>> ELSE box[u]
  BY DEF Gone, NothingWaits, TypeOK
<1>2. ToSet(<<>>) = {} /\ InOrder(caller, <<>>)
  BY DEF ToSet, InOrder
<1>3. \A u \in Tab : Opened(phase, u) => Opened(phase', u)
  BY <1>1 DEF Opened
<1>4. ASSUME NEW u \in Tab
      PROVE  /\ Tidy(caller, phase', u, inbox'[u])
             /\ InBox(inbox'[u]) \subseteq InBox(inbox[u])
             /\ InBox(inbox'[u]) # {} => phase'[u] = "owner"
  <2>1. CASE u = t
    BY <1>1, <2>1, EmptyBox, TidyEmpty
  <2>2. CASE u # t
    <3>1. \A i \in DOMAIN box[u] : box[u][i].type = "owner" => Opened(phase', box[u][i].from)
      <4>1. ASSUME NEW i \in DOMAIN box[u], box[u][i].type = "owner"
            PROVE  Opened(phase', box[u][i].from)
        <5>1. Opened(phase, box[u][i].from)
          BY <4>1 DEF Tidy, FromOwners
        <5>2. box[u][i].from \in Tab \/ phase'[box[u][i].from] = phase[box[u][i].from]
          BY DEF Gone, TypeOK
        <5>. QED
          BY <1>3, <5>1, <5>2 DEF Opened
      <4>. QED
        BY <4>1
    <3>2. Tidy(caller, phase', u, box[u])
      BY <3>1 DEF Tidy, FromOwners
    <3>3. InBox(inbox[u]) # {} => phase[u] = "owner"
      BY DEF OrderInv, RouteInv, DatabaseOpen
    <3>. QED
      BY <1>1, <2>2, <3>2, <3>3
  <2>. QED
    BY <2>1, <2>2
<1>5. ASSUME NEW u \in Tab
      PROVE  Shrinks(u) /\ InOrder(caller, held'[u]) /\ InOrder(caller, queue'[u])
  <2>1. InOrder(caller, held[u]) /\ InOrder(caller, queue[u])
    BY DEF OrderInv, LineInv
  <2>2. /\ held'[u] \in {held[u], <<>>} /\ queue'[u] \in {queue[u], <<>>}
        /\ active'[u] \in {0, active[u]}
    BY <1>1
  <2>. QED
    BY <1>2, <1>4, <2>1, <2>2 DEF Shrinks
<1>6. Works({}) /\ Stays
  BY <1>1 DEF Works, Stays, LeftBehind
<1>7. \A u \in Tab : known'[u] # None => held'[u] = <<>> /\ known'[u] = known[u]
  BY <1>1 DEF OrderInv, RouteInv
<1>. QED
  BY <1>3, <1>4, <1>5, <1>6, <1>7, IdleOrders

(* Leaving keeps the order: what was in the worker is dropped.             *)
LEMMA LeaveOrders ==
  ASSUME TypeOK, ExclusionInv, RefusalInv, OrderInv, NEW t \in Tab,
         Close(t) \/ Release(t) \/ Crash(t)
  PROVE  OrderInv'
<1>1. inbox \in [Tab -> Seq(Message)] /\ \A u \in Tab : Tidy(caller, phase, u, inbox[u])
  BY DEF TypeOK, OrderInv, RouteInv
<1>2. CASE Close(t) /\ Holds(t)
  <2>1. UNCHANGED <<caller, phase, turn, known, held, queue, active, result, aborted, durable>>
        /\ inbox' = [inbox EXCEPT ![t] = <<>>]
    BY <1>2 DEF Close, waitingVars, ownerVars
  <2>2. ASSUME NEW u \in Tab
        PROVE  Tidy(caller, phase, u, inbox'[u]) /\ InBox(inbox'[u]) \subseteq InBox(inbox[u])
    <3>1. inbox'[u] = IF u = t THEN <<>> ELSE inbox[u]
      BY <1>1, <2>1
    <3>. QED
      BY <1>1, <3>1, EmptyBox, TidyEmpty
  <2>. QED
    BY <2>1, <2>2, StillOrders
<1>3. CASE Close(t) /\ ~Holds(t)
  <2>1. /\ Gone(t, FinalAnswers(t), inbox) /\ phase[t] # "closed"
        /\ UNCHANGED <<caller, queue, active, result, aborted, turn, durable>>
    BY <1>3 DEF Close, Live, ownerVars
  <2>. QED
    BY <1>1, <2>1, GoneOrders
<1>4. CASE Release(t)
  <2>. DEFINE box == Broadcast(inbox, t, "released")
  <2>1. /\ Gone(t, FinalAnswers(t), box) /\ phase[t] # "closed" /\ DOMAIN box = Tab
        /\ UNCHANGED <<caller, queue, active, result, aborted, turn, durable>>
    BY <1>4 DEF Release, Holds, Broadcast
  <2>2. ASSUME NEW u \in Tab
        PROVE  Tidy(caller, phase, u, box[u]) /\ InBox(box[u]) \subseteq InBox(inbox[u])
    BY <1>1, BroadcastBox, TidyBroadcast
  <2>. HIDE DEF box
  <2>. QED
    BY <2>1, <2>2, GoneOrders
<1>5. CASE Crash(t)
  <2>1. /\ Gone(t, Settled(answer, Own(t), "UNKNOWN_OUTCOME"), inbox)
        /\ UNCHANGED <<caller, durable>> /\ queue'[t] = <<>> /\ active'[t] = 0
        /\ phase[t] # "closed"
        /\ \A u \in Tab \ {t} : /\ queue'[u] = queue[u] /\ active'[u] = active[u]
                                /\ result'[u] = result[u] /\ aborted'[u] = aborted[u]
                                /\ turn'[u] = turn[u]
    BY <1>5 DEF Crash, TypeOK
  <2>. QED
    BY <1>1, <2>1, GoneOrders
<1>. QED
  BY <1>2, <1>3, <1>4, <1>5

-----------------------------------------------------------------------------
(* The order invariant holds initially,                                    *)
LEMMA OrderInit == Init => OrderInv
<1>. SUFFICES ASSUME Init PROVE OrderInv
  OBVIOUS
<1>1. /\ Issued = {} /\ Done = {}
      /\ \A t \in Tab : /\ held[t] = <<>> /\ inbox[t] = <<>> /\ queue[t] = <<>>
                        /\ active[t] = 0 /\ known[t] = None
  BY DEF Init, Issued, Done, ToSet
<1>2. ToSet(<<>>) = {} /\ InOrder(caller, <<>>)
  BY DEF ToSet, InOrder
<1>3. \A k \in Place, t \in Tab : At(k, t) = {}
  BY <1>1, <1>2, AtEach, EmptyBox DEF Place
<1>4. StageInv /\ LateInv /\ LineInv
  BY <1>1, <1>2, <1>3 DEF StageInv, LateInv, LineInv
<1>5. RouteInv
  BY <1>1, <1>2, EmptyBox, TidyEmpty DEF RouteInv
<1>. QED
  BY <1>4, <1>5 DEF OrderInv

(* and every step keeps it.                                                *)
LEMMA OrderStep ==
  TypeOK /\ ExclusionInv /\ RefusalInv /\ OrderInv /\ [Next]_vars => OrderInv'
<1>. SUFFICES ASSUME TypeOK, ExclusionInv, RefusalInv, OrderInv, [Next]_vars
              PROVE  OrderInv'
  OBVIOUS
<1>1. CASE UNCHANGED vars
  <2>1. UNCHANGED <<caller, phase, turn, known, held, queue, active, result, aborted, durable, inbox>>
    BY <1>1 DEF vars, clientVars, waitingVars, ownerVars
  <2>. QED
    BY <2>1, SameBusOrders, StillOrders
<1>2. ASSUME NEW t \in Tab,
             \/ Client(t) \/ Election(t) \/ Receive(t) \/ Drain(t)
             \/ Close(t) \/ Release(t) \/ Crash(t)
      PROVE  OrderInv'
  BY <1>2, ClientOrders, ElectionOrders, ReceiveOrders, BeginOrders, ExecuteOrders, EndOrders,
     LeaveOrders DEF Drain
<1>. QED
  BY <1>1, <1>2 DEF Next

-----------------------------------------------------------------------------
(* What is said to have taken effect.                                      *)
LEMMA Unconfirming ==
  \A id : \A v \in {"idle", "pending", "UNKNOWN_OUTCOME", "not_dispatched", "unknown_outcome",
                    "CANCELLED", "CLOSED", "OVERLOADED", "FAILED", "cancelled_before_commit"} :
    ~Confirms(id, v)
BY DEF Confirms

Confirming(box, c) ==
  \E i \in DOMAIN box : /\ box[i].type = "reply" /\ box[i].id.req = c
                        /\ Confirms(box[i].id, box[i].value)

(* Nothing more is said to have taken effect than was, or has its receipt. *)
LEMMA ReceiptKeeps ==
  ASSUME TypeOK, ReceiptInv, committed \subseteq committed',
         \A id \in Id : \/ answer'[id] = answer[id] \/ ~Confirms(id, answer'[id])
                        \/ HasReceipt(id.req)',
         \A t \in Tab : active'[t] # 0 /\ result'[t] = "OK" =>
           \/ (active'[t] = active[t] /\ result[t] = "OK") \/ TxnOf[active'[t]] \in committed',
         \A t \in Tab : active'[t] = 0 =>
           result'[t] = "running" \/ (active[t] = 0 /\ result'[t] = result[t]),
         \A t \in Tab : \A c : Confirming(inbox'[t], c) =>
           Confirming(inbox[t], c) \/ HasReceipt(c)'
  PROVE  ReceiptInv'
<1>1. \A c : HasReceipt(c) => HasReceipt(c)'
  BY DEF HasReceipt
<1>2. \A id \in Id : Confirms(id, answer'[id]) => HasReceipt(id.req)'
  BY <1>1 DEF ReceiptInv
<1>3. \A t \in Tab : active'[t] # 0 /\ result'[t] = "OK" => TxnOf[active'[t]] \in committed'
  BY <1>1 DEF ReceiptInv, HasReceipt
<1>4. \A t \in Tab : \A c : Confirming(inbox'[t], c) => HasReceipt(c)'
  BY <1>1 DEF ReceiptInv, Confirming
<1>5. \A t \in Tab : active'[t] = 0 => result'[t] = "running"
  BY DEF ReceiptInv
<1>. QED
  BY <1>2, <1>3, <1>4, <1>5 DEF ReceiptInv, Confirming, HasReceipt

(* Answers are final: only a call that is new or pending is answered.      *)
Settles == \A id \in Id : answer'[id] = answer[id] \/ answer[id] \in {"idle", "pending"}

(* A step that executes nothing, and answers from receipts.                *)
LEMMA IdleReceipts ==
  ASSUME TypeOK, ReceiptInv, UNCHANGED <<active, result, committed>>,
         \A id \in Id : \/ answer'[id] = answer[id]
                        \/ /\ answer[id] \in {"idle", "pending"}
                           /\ ~Confirms(id, answer'[id]) \/ HasReceipt(id.req),
         \A t \in Tab : \A c : Confirming(inbox'[t], c) => Confirming(inbox[t], c) \/ HasReceipt(c)
  PROVE  ReceiptInv' /\ Settles
<1>1. \A c : HasReceipt(c)' <=> HasReceipt(c)
  BY DEF HasReceipt
<1>2. Settles
  BY DEF Settles
<1>3. ReceiptInv'
  BY <1>1, ReceiptKeeps DEF ReceiptInv
<1>. QED
  BY <1>2, <1>3

(* What boxes confirm.                                                     *)
LEMMA ConfirmingConcat ==
  ASSUME NEW box \in Seq(Message), NEW msgs \in Seq(Message), NEW c, Confirming(box \o msgs, c)
  PROVE  Confirming(box, c) \/ Confirming(msgs, c)
<1>1. /\ Len(box) \in Nat /\ DOMAIN box = 1 .. Len(box)
      /\ Len(msgs) \in Nat /\ DOMAIN msgs = 1 .. Len(msgs)
      /\ DOMAIN (box \o msgs) = 1 .. Len(box) + Len(msgs)
      /\ \A k \in DOMAIN (box \o msgs) :
           (box \o msgs)[k] = IF k <= Len(box) THEN box[k] ELSE msgs[k - Len(box)]
  BY ConcatProperties
<1>2. \A k \in DOMAIN (box \o msgs) :
        \/ k \in DOMAIN box /\ (box \o msgs)[k] = box[k]
        \/ k - Len(box) \in DOMAIN msgs /\ (box \o msgs)[k] = msgs[k - Len(box)]
  BY <1>1
<1>. QED
  BY <1>2 DEF Confirming

(* A post confirms no more than its messages do.                           *)
LEMMA ConfirmingPost ==
  ASSUME NEW box \in [Tab -> Seq(Message)], NEW to, NEW msgs \in Seq(Message), NEW u \in Tab,
         NEW c, Confirming(Post(box, to, msgs)[u], c)
  PROVE  Confirming(box[u], c) \/ Confirming(msgs, c)
<1>1. box[u] \in Seq(Message)
  OBVIOUS
<1>2. Post(box, to, msgs)[u] = box[u] \/ Post(box, to, msgs)[u] = box[u] \o msgs
  BY DEF Post
<1>. QED
  BY <1>1, <1>2, ConfirmingConcat

(* The notices of the election confirm nothing.                            *)
LEMMA ConfirmingBroadcast ==
  ASSUME NEW box \in [Tab -> Seq(Message)], NEW from \in Tab,
         NEW type \in {"hello", "owner", "released"}, NEW u \in Tab,
         NEW c, Confirming(Broadcast(box, from, type)[u], c)
  PROVE  Confirming(box[u], c)
<1>. DEFINE m == Msg(type, from, NoId, "idle")
<1>1. m \in Message /\ m.type # "reply"
  BY DEF Msg, NoId, Message
<1>. HIDE DEF m
<1>2. <<m>> \in Seq(Message) /\ DOMAIN <<m>> = {1} /\ <<m>>[1] = m
  BY <1>1
<1>3. ~Confirming(<<m>>, c)
  BY <1>1, <1>2 DEF Confirming
<1>4. box[u] \in Seq(Message) /\ Append(box[u], m) = box[u] \o <<m>>
  BY <1>1, AppendIsConcat
<1>5. Broadcast(box, from, type)[u] \in {box[u], box[u] \o <<m>>}
  BY <1>4 DEF Broadcast, m
<1>6. Confirming(box[u] \o <<m>>, c) => Confirming(box[u], c)
  <2>. SUFFICES ASSUME Confirming(box[u] \o <<m>>, c) PROVE Confirming(box[u], c)
    OBVIOUS
  <2>1. Confirming(box[u], c) \/ Confirming(<<m>>, c)
    BY <1>2, <1>4, ConfirmingConcat
  <2>. QED
    BY <1>3, <2>1
<1>7. CASE Broadcast(box, from, type)[u] = box[u]
  BY <1>7
<1>8. CASE Broadcast(box, from, type)[u] = box[u] \o <<m>>
  BY <1>6, <1>8
<1>. QED
  BY <1>5, <1>7, <1>8

(* Taking a message from a box confirms nothing more.                      *)
LEMMA ConfirmingRest ==
  ASSUME TypeOK, NEW r \in Tab, NEW i \in DOMAIN inbox[r], NEW u \in Tab, NEW c,
         Confirming([inbox EXCEPT ![r] = RemoveAt(@, i)][u], c)
  PROVE  Confirming(inbox[u], c)
<1>1. inbox[r] \in Seq(Message) /\ Len(inbox[r]) \in Nat /\ i \in 1 .. Len(inbox[r])
  BY DEF TypeOK
<1>2. /\ DOMAIN RemoveAt(inbox[r], i) = 1 .. Len(inbox[r]) - 1
      /\ \A k \in 1 .. Len(inbox[r]) - 1 :
           RemoveAt(inbox[r], i)[k] = inbox[r][IF k < i THEN k ELSE k + 1]
  BY <1>1, RemoveAtElems
<1>3. \A k \in DOMAIN RemoveAt(inbox[r], i) :
        \E j \in DOMAIN inbox[r] : RemoveAt(inbox[r], i)[k] = inbox[r][j]
  BY <1>1, <1>2
<1>4. Confirming(RemoveAt(inbox[r], i), c) => Confirming(inbox[r], c)
  BY <1>3 DEF Confirming
<1>. QED
  BY <1>4 DEF TypeOK

(* Calls confirm nothing, and the owner's ingress only what has a receipt. *)
LEMMA ConfirmingCalls ==
  ASSUME NEW box, \A i \in DOMAIN box : box[i].type = "call"
  PROVE  \A c : ~Confirming(box, c)
BY DEF Confirming

(* The owner's ingress confirms, of a cancellation, only what has its      *)
(* receipt.                                                                *)
LEMMA RepliesConfirm ==
  ASSUME NEW w \in Tab, NEW id \in Id, NEW r \in ToSet(Replies(w, id))
  PROVE  /\ r.id.req = id.req
         /\ Confirms(r.id, r.value) => IsCancel(id) /\ HasReceipt(id.req)
<1>. DEFINE c == id.req
<1>1. \/ r = Answered(id, "OVERLOADED") \/ r = Answered(Request(c), "CANCELLED")
      \/ r = Answered(id, "cancelled_before_commit")
      \/ r = Answered(id, CancelOutcome(w, c)) /\ IsCancel(id)
  <2>1. CASE Replies(w, id) = <<>>
    BY <2>1 DEF ToSet
  <2>2. CASE Replies(w, id) # <<>>
    BY <2>2 DEF Replies, ToSet
  <2>. QED
    BY <2>1, <2>2
<1>2. r.id.req = c
  BY <1>1, KindsOfId DEF Answered
<1>3. CancelOutcome(w, c) = "committed" => HasReceipt(c)
  BY DEF CancelOutcome
<1>4. Confirms(r.id, r.value) => IsCancel(id) /\ HasReceipt(c)
  <2>1. CASE r = Answered(id, "OVERLOADED") \/ r = Answered(id, "cancelled_before_commit")
             \/ r = Answered(Request(c), "CANCELLED")
    BY <2>1, Unconfirming DEF Answered
  <2>2. CASE r = Answered(id, CancelOutcome(w, c)) /\ IsCancel(id)
    BY <1>3, <2>2 DEF Answered, Confirms
  <2>. QED
    BY <1>1, <2>1, <2>2
<1>. QED
  BY <1>2, <1>4

(* A call that enters is answered at once, if at all, and nobody else is.  *)
LEMMA IngressAnswers ==
  ASSUME TypeOK, NEW t \in Tab, NEW id \in Id, NEW ans \in [Id -> Answer],
         ans[id] \in {"idle", "pending"}, Ingress(t, id, ans) \/ Refused(ans, id)
  PROVE  /\ \A i \in Id : \/ answer'[i] = ans[i]
                          \/ /\ i.req = id.req /\ ans[i] \in {"idle", "pending"}
                             /\ Confirms(i, answer'[i]) => IsCancel(id) /\ HasReceipt(id.req)
         /\ \A u \in Tab : \A c : Confirming(inbox'[u], c) => Confirming(inbox[u], c)
<1>1. CASE IngressFull(t, id, ans) \/ Refused(ans, id)
  <2>1. answer' = [ans EXCEPT ![id] = "OVERLOADED"] /\ inbox' = inbox
    BY <1>1 DEF IngressFull, Refused
  <2>. QED
    BY <2>1, Unconfirming
<1>2. CASE IngressNotDispatched(t, id, ans)
  <2>1. /\ answer' = [Settled(ans, {Request(id.req)}, "CANCELLED") EXCEPT ![id] = "not_dispatched"]
        /\ inbox' = inbox
    BY <1>2 DEF IngressNotDispatched
  <2>. QED
    BY <2>1, Unconfirming, KindsOfId DEF Settled
<1>3. CASE IngressHeld(t, id, ans)
  BY <1>3 DEF IngressHeld
<1>4. CASE IngressForwarded(t, id, ans)
  <2>. DEFINE msgs == <<CallMsg(t, id)>>
  <2>1. answer' = ans /\ inbox' = Post(inbox, known[t], msgs) /\ inbox \in [Tab -> Seq(Message)]
    BY <1>4 DEF IngressForwarded, TypeOK
  <2>2. msgs \in Seq(Message) /\ \A c : ~Confirming(msgs, c)
    <3>1. DOMAIN msgs = {1} /\ msgs[1] = CallMsg(t, id) /\ CallMsg(t, id).type = "call"
      BY DEF CallMsg, Msg
    <3>2. msgs \in Seq(Message)
      BY CallBox
    <3>. HIDE DEF msgs
    <3>. QED
      BY <3>1, <3>2, ConfirmingCalls
  <2>. HIDE DEF msgs
  <2>. QED
    BY <2>1, <2>2, ConfirmingPost
<1>5. CASE IngressLocal(t, id, ans)
  <2>. DEFINE replies == ToSet(Replies(t, id))
  <2>1. inbox' = inbox
    BY <1>5 DEF IngressLocal
  <2>2. \A i \in Id : answer'[i] = IF i \in {r.id : r \in replies} /\ ans[i] = "pending"
                                   THEN (CHOOSE r \in replies : r.id = i).value ELSE ans[i]
    BY <1>5 DEF IngressLocal
  <2>3. \A r \in replies : /\ r.id.req = id.req
                           /\ Confirms(r.id, r.value) => IsCancel(id) /\ HasReceipt(id.req)
    BY RepliesConfirm
  <2>. HIDE DEF replies
  <2>4. ASSUME NEW i \in Id, i \in {r.id : r \in replies}
        PROVE  \E r \in replies : r.id = i /\ (CHOOSE q \in replies : q.id = i).value = r.value
    BY <2>4
  <2>5. \A i \in Id : \/ answer'[i] = ans[i]
                      \/ /\ ans[i] = "pending"
                         /\ \E r \in replies : r.id = i /\ answer'[i] = r.value
    BY <2>2, <2>4
  <2>. QED
    BY <2>1, <2>3, <2>5
<1>. QED
  BY <1>1, <1>2, <1>3, <1>4, <1>5 DEF Ingress

-----------------------------------------------------------------------------
(* The client's calls confirm only what has its receipt.                   *)
LEMMA EnterReceipts ==
  ASSUME TypeOK, ReceiptInv, UNCHANGED <<active, result, committed>>,
         NEW t \in Tab, NEW id \in Id, NEW ans \in [Id -> Answer],
         ans[id] \in {"idle", "pending"}, Ingress(t, id, ans) \/ Refused(ans, id),
         \A i \in Id : \/ ans[i] = answer[i]
                       \/ answer[i] \in {"idle", "pending"} /\ ans[i] \in {"pending", "UNKNOWN_OUTCOME"}
  PROVE  ReceiptInv' /\ Settles
<1>1. /\ \A i \in Id : \/ answer'[i] = ans[i]
                       \/ /\ i.req = id.req /\ ans[i] \in {"idle", "pending"}
                          /\ Confirms(i, answer'[i]) => IsCancel(id) /\ HasReceipt(id.req)
      /\ \A u \in Tab : \A c : Confirming(inbox'[u], c) => Confirming(inbox[u], c)
  BY IngressAnswers
<1>2. ASSUME NEW i \in Id
      PROVE  \/ answer'[i] = answer[i]
             \/ /\ answer[i] \in {"idle", "pending"}
                /\ ~Confirms(i, answer'[i]) \/ HasReceipt(i.req)
  <2>1. CASE answer'[i] = ans[i]
    BY <2>1, Unconfirming
  <2>2. CASE answer'[i] # ans[i]
    <3>1. /\ i.req = id.req /\ ans[i] \in {"idle", "pending"}
          /\ Confirms(i, answer'[i]) => HasReceipt(id.req)
      BY <1>1, <2>2
    <3>. QED
      BY <3>1
  <2>. QED
    BY <2>1, <2>2
<1>. QED
  BY <1>1, <1>2, IdleReceipts

(* Sending a cancellation.                                                 *)
LEMMA SendCancelReceipts ==
  ASSUME TypeOK, ReceiptInv, UNCHANGED <<active, result, committed>>,
         NEW t \in Tab, NEW c \in Req, NEW ans \in [Id -> Answer], SendCancel(t, c, ans),
         answer[CancelOf(c)] = "idle", ans[CancelOf(c)] = "idle",
         \A i \in Id : \/ ans[i] = answer[i]
                       \/ answer[i] = "pending" /\ ans[i] = "UNKNOWN_OUTCOME"
  PROVE  ReceiptInv' /\ Settles
<1>. DEFINE id == CancelOf(c)
            asked == [ans EXCEPT ![id] = "pending"]
<1>1. id \in Id
  BY IdParts
<1>2. CASE Ingress(t, id, asked)
  <2>1. /\ asked \in [Id -> Answer] /\ asked[id] = "pending"
        /\ \A i \in Id : asked[i] = ans[i] \/ i = id
    BY <1>1, AnswerValues
  <2>. HIDE DEF asked, id
  <2>2. answer[id] = "idle"
    BY DEF id
  <2>3. \A i \in Id : \/ asked[i] = answer[i]
                      \/ answer[i] \in {"idle", "pending"} /\ asked[i] \in {"pending", "UNKNOWN_OUTCOME"}
    BY <2>1, <2>2
  <2>. QED
    BY <1>1, <1>2, <2>1, <2>3, EnterReceipts
<1>3. CASE Refused(ans, id)
  <2>. HIDE DEF id
  <2>1. ans[id] = "idle"
    BY DEF id
  <2>. QED
    BY <1>1, <1>3, <2>1, EnterReceipts
<1>. QED
  BY <1>2, <1>3 DEF SendCancel

(* Issuing, cancelling and giving up on a call.                            *)
LEMMA ClientReceipts ==
  ASSUME TypeOK, RefusalInv, ReceiptInv, NEW t \in Tab, Client(t)
  PROVE  ReceiptInv' /\ Settles
<1>1. ASSUME NEW c \in Req, Issue(t, c) PROVE ReceiptInv' /\ Settles
  <2>. DEFINE id == Request(c)
              asked == [answer EXCEPT ![id] = "pending"]
  <2>1. id \in Id /\ id.req = c /\ c \notin Issued /\ UNCHANGED <<active, result, committed>>
    BY <1>1, IdParts, KindsOfId DEF Issue, Issued, durable
  <2>2. answer[id] = "idle" /\ answer \in [Id -> Answer]
    BY <2>1 DEF RefusalInv, FreshInv, TypeOK
  <2>3. Ingress(t, id, asked) \/ Refused(answer, id)
    BY <1>1 DEF Issue
  <2>. HIDE DEF id
  <2>4. /\ asked \in [Id -> Answer] /\ asked[id] = "pending"
        /\ \A i \in Id : asked[i] = answer[i] \/ i = id
    BY <2>1, <2>2, AnswerValues
  <2>. HIDE DEF asked
  <2>5. CASE Ingress(t, id, asked)
    <3>1. \A i \in Id : \/ asked[i] = answer[i]
                        \/ answer[i] \in {"idle", "pending"} /\ asked[i] \in {"pending", "UNKNOWN_OUTCOME"}
      BY <2>2, <2>4
    <3>. QED
      BY <2>1, <2>4, <2>5, <3>1, EnterReceipts
  <2>6. CASE Refused(answer, id)
    BY <2>1, <2>2, <2>6, EnterReceipts
  <2>. QED
    BY <2>3, <2>5, <2>6
<1>2. ASSUME NEW c \in Req, Cancel(t, c) PROVE ReceiptInv' /\ Settles
  <2>1. /\ answer \in [Id -> Answer] /\ SendCancel(t, c, answer) /\ answer[CancelOf(c)] = "idle"
        /\ UNCHANGED <<active, result, committed>>
    BY <1>2 DEF Cancel, TypeOK, durable
  <2>. QED
    BY <2>1, SendCancelReceipts
<1>3. ASSUME NEW id \in Id, Timeout(t, id) PROVE ReceiptInv' /\ Settles
  <2>. DEFINE ans == [answer EXCEPT ![id] = "UNKNOWN_OUTCOME"]
  <2>1. id.req \in Req /\ answer[id] = "pending" /\ UNCHANGED <<active, result, committed>>
    BY <1>3, IdParts DEF Timeout, durable
  <2>2. /\ ans \in [Id -> Answer]
        /\ \A i \in Id : ans[i] = answer[i] \/ (i = id /\ ans[i] = "UNKNOWN_OUTCOME")
    BY AnswerValues DEF TypeOK
  <2>3. \/ SendCancel(t, id.req, ans) /\ ~IsCancel(id) /\ answer[CancelOf(id.req)] = "idle"
        \/ answer' = ans /\ inbox' = inbox
    BY <1>3 DEF Timeout
  <2>. HIDE DEF ans
  <2>4. \A i \in Id : \/ ans[i] = answer[i]
                      \/ answer[i] = "pending" /\ ans[i] = "UNKNOWN_OUTCOME"
    BY <2>1, <2>2
  <2>5. CASE SendCancel(t, id.req, ans) /\ ~IsCancel(id) /\ answer[CancelOf(id.req)] = "idle"
    <3>1. CancelOf(id.req) \in Id /\ CancelOf(id.req) # id
      BY <2>1, <2>5, IdParts, KindsOfId
    <3>2. ans[CancelOf(id.req)] = "idle"
      BY <2>2, <2>5, <3>1
    <3>. QED
      BY <2>1, <2>2, <2>4, <2>5, <3>2, SendCancelReceipts
  <2>6. CASE answer' = ans /\ inbox' = inbox
    <3>1. \A i \in Id : \/ answer'[i] = answer[i]
                        \/ answer[i] \in {"idle", "pending"} /\ ~Confirms(i, answer'[i])
      BY <2>4, <2>6, Unconfirming
    <3>. QED
      BY <2>1, <2>6, <3>1, IdleReceipts
  <2>. QED
    BY <2>3, <2>5, <2>6
<1>. QED
  BY <1>1, <1>2, <1>3 DEF Client

-----------------------------------------------------------------------------
(* Election: an owner that opens confirms from receipts.                   *)
LEMMA ElectionReceipts ==
  ASSUME TypeOK, ReceiptInv, NEW t \in Tab, Election(t)
  PROVE  ReceiptInv' /\ Settles
<1>1. inbox \in [Tab -> Seq(Message)]
  BY DEF TypeOK
<1>2. CASE Start(t)
  <2>1. inbox' = Broadcast(inbox, t, "hello") /\ UNCHANGED <<answer, active, result, committed>>
    BY <1>2 DEF Start, clientVars, ownerVars, durable
  <2>2. \A u \in Tab : \A c : Confirming(inbox'[u], c) => Confirming(inbox[u], c)
    BY <1>1, <2>1, ConfirmingBroadcast
  <2>. QED
    BY <2>1, <2>2, IdleReceipts
<1>3. CASE Grant(t)
  <2>1. UNCHANGED <<answer, active, result, committed, inbox>>
    BY <1>3 DEF Grant, clientVars, ownerVars, durable
  <2>. QED
    BY <2>1, IdleReceipts
<1>4. CASE OpenOk(t)
  <2>1. inbox' = Broadcast(inbox, t, "owner") /\ UNCHANGED <<active, result, committed>>
    BY <1>4 DEF OpenOk, durable
  <2>2. \A u \in Tab : \A c : Confirming(inbox'[u], c) => Confirming(inbox[u], c)
    BY <1>1, <2>1, ConfirmingBroadcast
  <2>3. \A id \in Id : \/ answer'[id] = answer[id]
                       \/ answer[id] = "pending" /\ answer'[id] = "UNKNOWN_OUTCOME"
                       \/ /\ answer[id] = "pending" /\ IsCancel(id)
                          /\ answer'[id] = CancelOutcome(t, id.req)
    BY <1>4, KindsOfId DEF OpenOk
  <2>4. \A c : CancelOutcome(t, c) = "committed" => HasReceipt(c)
    BY DEF CancelOutcome
  <2>5. \A id \in Id : \/ answer'[id] = answer[id]
                       \/ /\ answer[id] \in {"idle", "pending"}
                          /\ ~Confirms(id, answer'[id]) \/ HasReceipt(id.req)
    BY <2>3, <2>4 DEF Confirms
  <2>. QED
    BY <2>1, <2>2, <2>5, IdleReceipts
<1>5. CASE OpenFails(t)
  <2>1. UNCHANGED <<active, result, committed>>
        /\ \A u \in Tab : inbox'[u] = (IF u = t THEN <<>> ELSE Broadcast(inbox, t, "released")[u])
    BY <1>5 DEF OpenFails, Broadcast, ownerVars, durable
  <2>2. \A c : ~Confirming(<<>>, c)
    BY DEF Confirming
  <2>3. ASSUME NEW u \in Tab, NEW c, Confirming(inbox'[u], c) PROVE Confirming(inbox[u], c)
    <3>1. Confirming(Broadcast(inbox, t, "released")[u], c)
      BY <2>1, <2>2, <2>3
    <3>. QED
      BY <1>1, <3>1, ConfirmingBroadcast
  <2>4. \A id \in Id : \/ answer'[id] = answer[id]
                       \/ answer[id] \in {"idle", "pending"} /\ ~Confirms(id, answer'[id])
    BY <1>5, Unconfirming DEF OpenFails, Settled
  <2>. QED
    BY <2>1, <2>3, <2>4, IdleReceipts
<1>. QED
  BY <1>2, <1>3, <1>4, <1>5 DEF Election

-----------------------------------------------------------------------------
(* What a worker makes of a message confirms only what has its receipt.    *)
LEMMA ReceiveReceipts ==
  ASSUME TypeOK, ReceiptInv, NEW r \in Tab, Receive(r)
  PROVE  ReceiptInv' /\ Settles
<1>. DEFINE Box(i) == [inbox EXCEPT ![r] = RemoveAt(@, i)]
            Taken(i) == \/ ReceiveHello(r, inbox[r][i], Box(i))
                        \/ ReceiveOwner(r, inbox[r][i], Box(i))
                        \/ ReceiveReleased(r, inbox[r][i], Box(i))
                        \/ ReceiveCall(r, inbox[r][i], Box(i))
                        \/ ReceiveReply(r, inbox[r][i], Box(i))
<1>1. UNCHANGED <<active, result, committed>> /\ \E i \in DOMAIN inbox[r] : Taken(i)
  BY DEF Receive, Deliverable, durable
<1>2. PICK i \in DOMAIN inbox[r] : Taken(i)
  BY <1>1
<1>. DEFINE m == inbox[r][i]
            box == Box(i)
<1>3. m \in Message /\ box \in [Tab -> Seq(Message)]
  BY RemoveAtType DEF TypeOK
<1>4. \A u \in Tab : \A c : Confirming(box[u], c) => Confirming(inbox[u], c)
  BY ConfirmingRest
<1>5. \/ ReceiveHello(r, m, box) \/ ReceiveOwner(r, m, box) \/ ReceiveReleased(r, m, box)
      \/ ReceiveCall(r, m, box) \/ ReceiveReply(r, m, box)
  BY <1>2
<1>. DEFINE NothingNew ==
              \A u \in Tab : \A c : Confirming(inbox'[u], c) => Confirming(inbox[u], c) \/ HasReceipt(c)
            Said == \A id \in Id : \/ answer'[id] = answer[id]
                                   \/ /\ answer[id] \in {"idle", "pending"}
                                      /\ ~Confirms(id, answer'[id]) \/ HasReceipt(id.req)
<1>6. ASSUME m.type = "reply"
      PROVE  m.id \in Id /\ (Confirms(m.id, m.value) => HasReceipt(m.id.req))
  BY <1>3, <1>6, MessageParts DEF ReceiptInv
<1>. HIDE DEF box, Box, m
<1>7. CASE ReceiveHello(r, m, box)
  <2>1. answer' = answer /\ (inbox' = box \/ inbox' = Broadcast(box, r, "owner"))
    BY <1>7 DEF ReceiveHello
  <2>2. NothingNew
    <3>1. ASSUME NEW u \in Tab, NEW c, Confirming(inbox'[u], c) PROVE Confirming(box[u], c)
      <4>1. CASE inbox' = box
        BY <3>1, <4>1
      <4>2. CASE inbox' = Broadcast(box, r, "owner")
        <5>1. Confirming(Broadcast(box, r, "owner")[u], c)
          BY <3>1, <4>2
        <5>. QED
          BY <1>3, <5>1, ConfirmingBroadcast
      <4>. QED
        BY <2>1, <4>1, <4>2
    <3>. QED
      BY <1>4, <3>1
  <2>. QED
    BY <1>1, <2>1, <2>2, IdleReceipts
<1>8. CASE ReceiveOwner(r, m, box)
  <2>1. Said
    BY <1>8, Unconfirming DEF ReceiveOwner, OwnerFound, Settled
  <2>2. NothingNew
    <3>1. CASE inbox' = box
      BY <1>4, <3>1
    <3>2. CASE OwnerFound(r, m.from, box)
      <4>1. PICK cancels \in Orders(heldCancels[r]) :
              inbox' = Post(box, m.from, CallMsgs(r, held[r]) \o CancelMsgs(r, cancels))
        BY <3>2 DEF OwnerFound
      <4>. DEFINE msgs == CallMsgs(r, held[r]) \o CancelMsgs(r, cancels)
      <4>2. msgs \in Seq(Message) /\ \A c : ~Confirming(msgs, c)
        <5>1. /\ CallMsgs(r, held[r]) \in Seq(Message) /\ CancelMsgs(r, cancels) \in Seq(Message)
              /\ \A j \in DOMAIN CallMsgs(r, held[r]) : CallMsgs(r, held[r])[j].type = "call"
              /\ \A j \in DOMAIN CancelMsgs(r, cancels) : CancelMsgs(r, cancels)[j].type = "call"
          <6>1. held[r] \in Seq(Req) /\ heldCancels[r] \subseteq Req
            BY DEF TypeOK
          <6>2. CallMsgs(r, held[r]) \in Seq(Message) /\ CancelMsgs(r, cancels) \in Seq(Message)
            BY <6>1, <4>1, CallMsgsType, OrdersType
          <6>. QED
            BY <6>2 DEF CallMsgs, CancelMsgs, CallMsg, Msg
        <5>2. msgs \in Seq(Message)
          BY <5>1, ConcatProperties
        <5>3. \A c : ~Confirming(CallMsgs(r, held[r]), c) /\ ~Confirming(CancelMsgs(r, cancels), c)
          BY <5>1, ConfirmingCalls
        <5>4. \A c : ~Confirming(msgs, c)
          BY <5>1, <5>3, ConfirmingConcat
        <5>. QED
          BY <5>2, <5>4
      <4>. HIDE DEF msgs
      <4>3. ASSUME NEW u \in Tab, NEW c, Confirming(inbox'[u], c) PROVE Confirming(inbox[u], c)
        <5>1. Confirming(Post(box, m.from, msgs)[u], c)
          BY <4>1, <4>3 DEF msgs
        <5>2. Confirming(box[u], c) \/ Confirming(msgs, c)
          BY <1>3, <4>2, <5>1, ConfirmingPost
        <5>. QED
          BY <1>4, <4>2, <5>2
      <4>. QED
        BY <4>3
    <3>. QED
      BY <1>8, <3>1, <3>2 DEF ReceiveOwner
  <2>. QED
    BY <1>1, <2>1, <2>2, IdleReceipts
<1>9. CASE ReceiveReleased(r, m, box)
  <2>1. Said /\ inbox' = box
    BY <1>9, Unconfirming DEF ReceiveReleased, OwnerLost, Settled
  <2>. QED
    BY <1>1, <1>4, <2>1, IdleReceipts
<1>10. CASE ReceiveCall(r, m, box)
  <2>. DEFINE replies == Replies(r, m.id)
              msgs == ReplyMsgs(r, replies)
  <2>1. answer' = answer /\ (inbox' = box \/ inbox' = Post(box, m.from, msgs)) /\ m.id \in Id
    BY <1>3, <1>10, MessageParts DEF ReceiveCall
  <2>2. msgs \in Seq(Message)
    <3>1. replies \in Seq(Reply)
      BY <2>1, IngressType
    <3>. QED
      BY <3>1, ReplyMsgsType
  <2>3. \A c : Confirming(msgs, c) => HasReceipt(c)
    <3>1. ASSUME NEW j \in DOMAIN msgs
          PROVE  \E q \in ToSet(replies) : msgs[j].id = q.id /\ msgs[j].value = q.value
      BY DEF ReplyMsgs, Msg, ToSet
    <3>2. \A q \in ToSet(replies) : Confirms(q.id, q.value) => HasReceipt(q.id.req)
      BY <2>1, RepliesConfirm
    <3>. QED
      BY <3>1, <3>2 DEF Confirming
  <2>. HIDE DEF replies, msgs
  <2>4. NothingNew
    <3>1. ASSUME NEW u \in Tab, NEW c, Confirming(inbox'[u], c)
          PROVE  Confirming(inbox[u], c) \/ HasReceipt(c)
      <4>1. CASE inbox' = box
        BY <1>4, <3>1, <4>1
      <4>2. CASE inbox' = Post(box, m.from, msgs)
        <5>1. Confirming(Post(box, m.from, msgs)[u], c)
          BY <3>1, <4>2
        <5>2. Confirming(box[u], c) \/ Confirming(msgs, c)
          BY <1>3, <2>2, <5>1, ConfirmingPost
        <5>. QED
          BY <1>4, <2>3, <5>2
      <4>. QED
        BY <2>1, <4>1, <4>2
    <3>. QED
      BY <3>1
  <2>. QED
    BY <1>1, <2>1, <2>4, IdleReceipts
<1>11. CASE ReceiveReply(r, m, box)
  <2>1. inbox' = box /\ m.type = "reply"
    BY <1>11 DEF ReceiveReply
  <2>2. \A id \in Id : \/ answer'[id] = answer[id]
                       \/ answer[id] = "pending" /\ id = m.id /\ answer'[id] = m.value
    BY <1>11 DEF ReceiveReply, Settled
  <2>3. Said
    BY <1>6, <2>1, <2>2
  <2>. QED
    BY <1>1, <1>4, <2>1, <2>3, IdleReceipts
<1>. QED
  BY <1>5, <1>7, <1>8, <1>9, <1>10, <1>11

-----------------------------------------------------------------------------
(* A drain confirms what it has executed.                                  *)
LEMMA DrainReceipts ==
  ASSUME TypeOK, ReceiptInv, NEW w \in Tab, Drain(w)
  PROVE  ReceiptInv' /\ Settles
<1>1. CASE Begin(w)
  <2>1. /\ UNCHANGED <<answer, result, inbox, committed>> /\ active[w] = 0
        /\ \A u \in Tab \ {w} : active'[u] = active[u]
    BY <1>1 DEF Begin, clientVars, durable, TypeOK
  <2>2. \A u \in Tab : /\ active'[u] # 0 /\ result'[u] = "OK" => active'[u] = active[u] /\ result[u] = "OK"
                       /\ active'[u] = 0 => result'[u] = "running"
    BY <2>1 DEF ReceiptInv
  <2>. QED
    BY <2>1, <2>2, ReceiptKeeps DEF Settles
<1>2. CASE Execute(w)
  <2>1. /\ UNCHANGED <<answer, active, inbox>> /\ committed' = committed \cup {TxnOf[active[w]]}
        /\ active[w] # 0 /\ \A u \in Tab \ {w} : result'[u] = result[u]
    BY <1>2 DEF Execute, clientVars, Proceeds, Running, TypeOK
  <2>2. \A u \in Tab : /\ active'[u] # 0 /\ result'[u] = "OK" =>
                            \/ active'[u] = active[u] /\ result[u] = "OK"
                            \/ TxnOf[active'[u]] \in committed'
                       /\ active'[u] = 0 => active[u] = 0 /\ result'[u] = result[u]
    BY <2>1
  <2>. QED
    BY <2>1, <2>2, ReceiptKeeps DEF Settles
<1>5. CASE Maintain(w) \/ Maintained(w)
  <2>1. UNCHANGED <<answer, active, result, inbox, committed>>
    BY <1>5 DEF Maintain, Maintained, clientVars, durable
  <2>. QED
    BY <2>1, ReceiptKeeps DEF Settles
<1>3. CASE Refuse(w) \/ GateCloseFails(w)
  <2>1. /\ UNCHANGED <<answer, active, inbox, committed>> /\ active[w] # 0 /\ result'[w] # "OK"
        /\ \A u \in Tab \ {w} : result'[u] = result[u]
    BY <1>3 DEF Refuse, GateCloseFails, clientVars, durable, Running, TypeOK
  <2>2. \A u \in Tab : /\ active'[u] # 0 /\ result'[u] = "OK" => active'[u] = active[u] /\ result[u] = "OK"
                       /\ active'[u] = 0 => active[u] = 0 /\ result'[u] = result[u]
    BY <2>1
  <2>. QED
    BY <2>1, <2>2, ReceiptKeeps DEF Settles
<1>4. CASE Finish(w)
  <2>. DEFINE c == active[w]
              id == Request(c)
              m == Msg("reply", w, id, result[w])
  <2>1. /\ c \in Req /\ c # 0 /\ id \in Id /\ id.req = c /\ ~IsCancel(id) /\ result[w] \in Answer
        /\ UNCHANGED committed /\ (result[w] = "OK" => HasReceipt(c))
    BY <1>4, IdParts, KindsOfId, AnswerValues DEF Finish, durable, ReceiptInv, TypeOK
  <2>2. \/ inbox' = inbox /\ answer' = Settled(answer, {id}, result[w])
        \/ inbox' = Post(inbox, caller[c], <<m>>) /\ answer' = answer
    BY <1>4 DEF Finish
  <2>3. /\ active'[w] = 0 /\ result'[w] = "running"
        /\ \A u \in Tab \ {w} : active'[u] = active[u] /\ result'[u] = result[u]
    BY <1>4 DEF Finish, TypeOK
  <2>4. m \in Message /\ m.type = "reply" /\ m.id = id /\ m.value = result[w]
    BY <2>1 DEF Msg, Message
  <2>. HIDE DEF m, id, c
  <2>5. <<m>> \in Seq(Message) /\ DOMAIN <<m>> = {1} /\ <<m>>[1] = m
    BY <2>4
  <2>6. \A d : Confirming(<<m>>, d) => HasReceipt(d)
    BY <2>1, <2>4, <2>5 DEF Confirming, Confirms
  <2>7. ASSUME NEW u \in Tab, NEW d, Confirming(inbox'[u], d)
        PROVE  Confirming(inbox[u], d) \/ HasReceipt(d)
    <3>1. CASE inbox' = inbox
      BY <2>7, <3>1
    <3>2. CASE inbox' = Post(inbox, caller[c], <<m>>)
      <4>1. Confirming(Post(inbox, caller[c], <<m>>)[u], d) /\ inbox \in [Tab -> Seq(Message)]
        BY <2>7, <3>2 DEF TypeOK
      <4>2. Confirming(inbox[u], d) \/ Confirming(<<m>>, d)
        BY <2>5, <4>1, ConfirmingPost
      <4>. QED
        BY <2>6, <4>2
    <3>. QED
      BY <2>2, <3>1, <3>2
  <2>8. \A i \in Id : \/ answer'[i] = answer[i]
                      \/ /\ answer[i] = "pending"
                         /\ ~Confirms(i, answer'[i]) \/ HasReceipt(i.req)
    BY <2>1, <2>2 DEF Settled, Confirms
  <2>9. \A x : HasReceipt(x) => HasReceipt(x)'
    BY <2>1 DEF HasReceipt
  <2>10. \A u \in Tab : /\ active'[u] # 0 /\ result'[u] = "OK" => active'[u] = active[u] /\ result[u] = "OK"
                        /\ active'[u] = 0 => \/ result'[u] = "running"
                                             \/ active[u] = 0 /\ result'[u] = result[u]
    BY <2>3
  <2>11. Settles
    BY <2>8 DEF Settles
  <2>. QED
    BY <2>1, <2>7, <2>8, <2>9, <2>10, <2>11, ReceiptKeeps
<1>. QED
  BY <1>1, <1>2, <1>3, <1>4, <1>5 DEF Drain

(* A worker that leaves confirms nothing.                                  *)
LEMMA LeaveReceipts ==
  ASSUME TypeOK, ReceiptInv, NEW t \in Tab, Close(t) \/ Release(t) \/ Crash(t)
  PROVE  ReceiptInv' /\ Settles
<1>1. committed' = committed /\ inbox \in [Tab -> Seq(Message)]
  BY DEF Close, Release, Crash, durable, TypeOK
<1>2. \A u \in Tab : \/ active'[u] = active[u] /\ result'[u] = result[u]
                     \/ active'[u] = 0 /\ result'[u] = "running"
  BY DEF Close, Release, Crash, ownerVars, TypeOK
<1>3. \A id \in Id : \/ answer'[id] = answer[id]
                     \/ answer[id] = "pending" /\ ~Confirms(id, answer'[id])
  BY Unconfirming DEF Close, Release, Crash, Gone, FinalAnswers, Settled
<1>4. \A u \in Tab : inbox'[u] \in {<<>>, inbox[u], Broadcast(inbox, t, "released")[u]}
  BY <1>1 DEF Close, Release, Crash, Gone, Broadcast
<1>5. \A c : ~Confirming(<<>>, c)
  BY DEF Confirming
<1>6. ASSUME NEW u \in Tab, NEW c, Confirming(inbox'[u], c) PROVE Confirming(inbox[u], c)
  <2>1. CASE inbox'[u] = Broadcast(inbox, t, "released")[u]
    <3>1. Confirming(Broadcast(inbox, t, "released")[u], c)
      BY <1>6, <2>1
    <3>. QED
      BY <1>1, <3>1, ConfirmingBroadcast
  <2>2. CASE inbox'[u] \in {<<>>, inbox[u]}
    BY <1>5, <1>6, <2>2
  <2>. QED
    BY <1>4, <2>1, <2>2
<1>7. Settles
  BY <1>3 DEF Settles
<1>. QED
  BY <1>1, <1>2, <1>3, <1>6, <1>7, ReceiptKeeps

-----------------------------------------------------------------------------
(* Nothing is confirmed in the beginning.                                  *)
LEMMA ReceiptInit == Init => ReceiptInv
<1>. SUFFICES ASSUME Init PROVE ReceiptInv
  OBVIOUS
<1>1. /\ \A id \in Id : answer[id] = "idle"
      /\ \A t \in Tab : active[t] = 0 /\ result[t] = "running" /\ inbox[t] = <<>>
  BY DEF Init
<1>. QED
  BY <1>1, Unconfirming DEF ReceiptInv

(* What is confirmed has its receipt, and answers are final.               *)
LEMMA ReceiptStep ==
  TypeOK /\ RefusalInv /\ ReceiptInv /\ [Next]_vars => ReceiptInv' /\ Settles
<1>. SUFFICES ASSUME TypeOK, RefusalInv, ReceiptInv, [Next]_vars
              PROVE  ReceiptInv' /\ Settles
  OBVIOUS
<1>1. CASE UNCHANGED vars
  <2>1. UNCHANGED <<answer, active, result, committed, inbox>>
    BY <1>1 DEF vars, clientVars, ownerVars, durable
  <2>. QED
    BY <2>1, IdleReceipts
<1>2. ASSUME NEW t \in Tab,
             \/ Client(t) \/ Election(t) \/ Receive(t) \/ Drain(t)
             \/ Close(t) \/ Release(t) \/ Crash(t)
      PROVE  ReceiptInv' /\ Settles
  BY <1>2, ClientReceipts, ElectionReceipts, ReceiveReceipts, DrainReceipts, LeaveReceipts
<1>. QED
  BY <1>1, <1>2 DEF Next

-----------------------------------------------------------------------------
(* The steps of the service.                                               *)
LEMMA OnceInit == Init => Once!Init
<1>. SUFFICES ASSUME Init PROVE Once!Init
  OBVIOUS
<1>1. \A c \in Req : Request(c) \in Id /\ CancelOf(c) \in Id
  BY IdParts
<1>2. \A id \in Id : answer[id] = "idle"
  BY DEF Init
<1>3. ToldDone = {} /\ ToldNever = {}
  BY <1>1, <1>2 DEF ToldDone, ToldNever
<1>4. Done = {} /\ committed = {} /\ caller = [c \in Req |-> None]
  BY DEF Init, Done, ToSet
<1>. QED
  BY <1>3, <1>4 DEF Once!Init

(* What callers are told, by calls of an issued request.                   *)
LEMMA ToldParts ==
  ASSUME NEW c \in Req
  PROVE  /\ Request(c) \in Id /\ CancelOf(c) \in Id
         /\ c \in ToldDone <=> \E id \in Id : id.req = c /\ Confirms(id, answer[id])
         /\ c \in ToldNever <=> Told(c)
<1>1. /\ Request(c) \in Id /\ Request(c).req = c /\ ~IsCancel(Request(c))
      /\ CancelOf(c) \in Id /\ CancelOf(c).req = c /\ IsCancel(CancelOf(c))
  BY IdParts, KindsOfId
<1>2. \A id \in Id : id.req = c => id \in {Request(c), CancelOf(c)}
  BY KindsOfId
<1>3. c \in ToldDone <=> Confirms(Request(c), answer[Request(c)]) \/ Confirms(CancelOf(c), answer[CancelOf(c)])
  BY <1>1 DEF ToldDone, Confirms
<1>4. c \in ToldNever <=> Refusal(Request(c), answer[Request(c)]) \/ Refusal(CancelOf(c), answer[CancelOf(c)])
  BY <1>1 DEF ToldNever, Refusal
<1>. QED
  BY <1>1, <1>2, <1>3, <1>4 DEF Told

(* The same after a step.                                                  *)
LEMMA ToldPartsNext ==
  ASSUME NEW c \in Req
  PROVE  /\ c \in ToldDone' <=> \E id \in Id : id.req = c /\ Confirms(id, answer'[id])
         /\ c \in ToldNever' <=> \E id \in Id : id.req = c /\ Refusal(id, answer'[id])
<1>1. /\ Request(c) \in Id /\ Request(c).req = c /\ ~IsCancel(Request(c))
      /\ CancelOf(c) \in Id /\ CancelOf(c).req = c /\ IsCancel(CancelOf(c))
  BY IdParts, KindsOfId
<1>2. \A id \in Id : id.req = c => id \in {Request(c), CancelOf(c)}
  BY KindsOfId
<1>3. c \in ToldDone' <=> \/ Confirms(Request(c), answer'[Request(c)])
                          \/ Confirms(CancelOf(c), answer'[CancelOf(c)])
  BY <1>1 DEF ToldDone, Confirms
<1>4. c \in ToldNever' <=> \/ Refusal(Request(c), answer'[Request(c)])
                           \/ Refusal(CancelOf(c), answer'[CancelOf(c)])
  BY <1>1 DEF ToldNever, Refusal
<1>. QED
  BY <1>1, <1>2, <1>3, <1>4

(* A step that issues and executes nothing answers, truthfully.            *)
LEMMA StepAnswers ==
  ASSUME RefusalInv', ReceiptInv', Settles, UNCHANGED <<caller, durable>>
  PROVE  Once!Answer
<1>1. Done' = Done /\ committed' = committed /\ Issued' = Issued
  BY DEF Done, durable, Issued
<1>2. \A id \in Id : answer[id] \notin {"idle", "pending"} => answer'[id] = answer[id]
  BY DEF Settles
<1>3. ToldDone \subseteq Req /\ ToldNever \subseteq Req
      /\ ToldDone' \subseteq Req /\ ToldNever' \subseteq Req
  BY DEF ToldDone, ToldNever
<1>4. ToldDone \subseteq ToldDone'
  BY <1>2, <1>3, ToldParts, ToldPartsNext, Unconfirming
<1>5. ToldNever \subseteq ToldNever'
  BY <1>2, <1>3, ToldParts, ToldPartsNext, Harmless DEF Told
<1>6. ASSUME NEW c \in ToldDone' PROVE c \in Issued /\ TxnOf[c] \in committed
  <2>1. PICK id \in Id : id.req = c /\ Confirms(id, answer'[id])
    BY <1>3, ToldPartsNext
  <2>2. TxnOf[c] \in committed'
    BY <2>1 DEF ReceiptInv, HasReceipt
  <2>3. c \in Issued'
    BY <2>1, Unconfirming DEF RefusalInv, FreshInv
  <2>. QED
    BY <1>1, <2>2, <2>3
<1>7. ASSUME NEW c \in ToldNever' PROVE c \in Issued \ Done
  <2>1. PICK id \in Id : id.req = c /\ Refusal(id, answer'[id])
    BY <1>3, ToldPartsNext
  <2>2. c \in Issued'
    BY <2>1, Harmless DEF RefusalInv, FreshInv
  <2>3. c \notin Done'
    BY <1>3, <2>1 DEF RefusalInv, RefusedInv, Rejected, Told
  <2>. QED
    BY <1>1, <2>2, <2>3
<1>8. caller' = caller
  OBVIOUS
<1>. QED
  BY <1>1, <1>4, <1>5, <1>6, <1>7, <1>8 DEF Once!Answer, Once!Issued, Issued

(* Issuing a request issues it; the client may refuse it at once.          *)
LEMMA StepIssues ==
  ASSUME TypeOK, RefusalInv, NEW t \in Tab, NEW c \in Req, Issue(t, c)
  PROVE  Once!Issue(c)
<1>. DEFINE id == Request(c)
            asked == [answer EXCEPT ![id] = "pending"]
<1>1. /\ id \in Id /\ id.req = c /\ ~IsCancel(id) /\ c \notin Issued
      /\ caller' = [caller EXCEPT ![c] = t] /\ UNCHANGED durable
  BY IdParts, KindsOfId DEF Issue, Issued
<1>2. answer \in [Id -> Answer] /\ \A i \in Id : i.req = c => answer[i] = "idle"
  BY <1>1 DEF RefusalInv, FreshInv, TypeOK
<1>3. Ingress(t, id, asked) \/ Refused(answer, id)
  BY DEF Issue
<1>. HIDE DEF id
<1>4. /\ asked \in [Id -> Answer] /\ asked[id] = "pending"
      /\ \A i \in Id : i # id => asked[i] = answer[i]
  BY <1>1, <1>2, AnswerValues
<1>. HIDE DEF asked
<1>5. \A i \in Id : \/ i.req # c /\ answer'[i] = answer[i]
                    \/ i.req = c /\ ~Confirms(i, answer'[i])
  <2>1. CASE Ingress(t, id, asked)
    <3>1. \A i \in Id : \/ answer'[i] = asked[i]
                        \/ /\ i.req = id.req /\ asked[i] \in {"idle", "pending"}
                           /\ Confirms(i, answer'[i]) => IsCancel(id) /\ HasReceipt(id.req)
      <4>1. /\ t \in Tab /\ id \in Id /\ asked \in [Id -> Answer]
            /\ asked[id] \in {"idle", "pending"} /\ Ingress(t, id, asked)
        BY <1>1, <1>4, <2>1
      <4>. QED
        BY <4>1, IngressAnswers
    <3>2. \A i \in Id : i.req # c => asked[i] = answer[i]
      BY <1>1, <1>4
    <3>3. \A i \in Id : i.req = c => ~Confirms(i, asked[i])
      BY <1>2, <1>4, Unconfirming
    <3>. QED
      BY <1>1, <3>1, <3>2, <3>3
  <2>2. CASE Refused(answer, id)
    <3>1. answer' = [answer EXCEPT ![id] = "OVERLOADED"]
      BY <2>2 DEF Refused
    <3>. QED
      BY <1>1, <1>2, <3>1, Unconfirming
  <2>. QED
    BY <1>3, <2>1, <2>2
<1>6. ToldDone \subseteq Req /\ ToldNever \subseteq Req
      /\ ToldDone' \subseteq Req /\ ToldNever' \subseteq Req
  BY DEF ToldDone, ToldNever
<1>7. \A d \in Req : d \in ToldDone' <=> d \in ToldDone
  BY <1>2, <1>5, ToldParts, ToldPartsNext, Unconfirming
<1>8. \A d \in Req : d # c => (d \in ToldNever' <=> d \in ToldNever)
  BY <1>5, ToldParts, ToldPartsNext DEF Told
<1>9. c \notin ToldNever
  BY <1>2, ToldParts, Harmless DEF Told
<1>10. ToldNever' \in {ToldNever, ToldNever \cup {c}}
  <2>1. CASE c \in ToldNever'
    <3>1. \A d : d \in ToldNever' <=> d \in ToldNever \cup {c}
      BY <1>6, <1>8, <2>1
    <3>. QED
      BY <3>1
  <2>2. CASE c \notin ToldNever'
    <3>1. \A d : d \in ToldNever' <=> d \in ToldNever
      BY <1>6, <1>8, <1>9, <2>2
    <3>. QED
      BY <3>1
  <2>. QED
    BY <2>1, <2>2
<1>11. ToldDone' = ToldDone
  BY <1>6, <1>7
<1>12. Done' = Done /\ committed' = committed
  BY <1>1 DEF Done, durable
<1>. QED
  BY <1>1, <1>10, <1>11, <1>12 DEF Once!Issue, Once!Issued, Issued

(* Executing a request takes effect once, in its caller's order.           *)
LEMMA StepTakesEffect ==
  ASSUME TypeOK, RefusalInv, OrderInv, NEW w \in Tab, Execute(w)
  PROVE  (Once!TakeEffect(active[w]) /\ active[w] \in Req) \/ UNCHANGED Once!vars
<1>. DEFINE c == active[w]
<1>1. /\ c \in Req /\ c # 0 /\ result[w] = "running"
      /\ aborted[w] => c \notin CommitReq \/ HasReceipt(c)
      /\ UNCHANGED <<caller, answer>> /\ committed' = committed \cup {TxnOf[c]}
      /\ effects' = IF HasReceipt(c) THEN effects ELSE Append(effects, c)
  BY DEF Execute, Proceeds, Running, clientVars, TypeOK
<1>2. ToldDone' = ToldDone /\ ToldNever' = ToldNever
  BY <1>1 DEF ToldDone, ToldNever
<1>3. CASE HasReceipt(c)
  <2>1. committed' = committed /\ Done' = Done
    BY <1>1, <1>3 DEF HasReceipt, Done
  <2>. QED
    BY <1>1, <1>2, <2>1 DEF Once!vars
<1>4. CASE ~HasReceipt(c)
  <2>1. Done' = Done \cup {c}
    BY <1>1, <1>4, AppendElems DEF Done, TypeOK
  <2>2. c \in At("active", w)
    BY <1>1, AtEach
  <2>3. c \in Issued
    BY <2>2 DEF RefusalInv, FreshInv, Place
  <2>4. c \notin ToldNever
    BY <1>1, <1>4, ToldParts DEF RefusalInv, RefusedInv, Rejected
  <2>5. c \notin Done
    BY <1>1, <1>4 DEF RefusalInv, DoneInv
  <2>6. \A d \in Done : d \in Req
    BY DEF TypeOK, Done, ToSet
  <2>7. \A d \in Done : caller[d] = caller[c] => ~(c < d)
    <3>1. ~LeftBehind(w)
      BY DEF Execute, DatabaseOpen, LeftBehind
    <3>. QED
      BY <1>1, <2>6, <3>1 DEF OrderInv, LateInv, Before
  <2>8. \A d \in Done : caller[d] = caller[c] => d < c
    BY <1>1, <2>5, <2>6, <2>7 DEF Req
  <2>9. TxnOf[c] \notin committed
    BY <1>4 DEF HasReceipt
  <2>. HIDE DEF c
  <2>10. Once!TakeEffect(c)
    BY <1>1, <1>2, <2>1, <2>3, <2>4, <2>8, <2>9 DEF Once!TakeEffect, Once!Issued, Issued
  <2>. QED
    BY <1>1, <2>10 DEF c
<1>. QED
  BY <1>3, <1>4

(* Every other step leaves what was issued and what took effect alone.     *)
LEMMA OtherSteps ==
  ASSUME NEW t \in Tab,
         \/ \E c \in Req : Cancel(t, c)
         \/ \E id \in Id : Timeout(t, id)
         \/ Election(t) \/ Receive(t) \/ Begin(t) \/ Refuse(t) \/ GateCloseFails(t) \/ Finish(t)
         \/ Maintain(t) \/ Maintained(t) \/ Close(t) \/ Release(t) \/ Crash(t)
  PROVE  UNCHANGED <<caller, durable>>
BY DEF Cancel, Timeout, Election, Start, Grant, OpenOk, OpenFails, Receive, Begin, Refuse,
       GateCloseFails, Finish, Maintain, Maintained, Close, Release, Crash, clientVars

(* Every step is one of the service, or leaves all it speaks of alone.     *)
LEMMA OnceStep ==
  TypeOK /\ RefusalInv /\ OrderInv /\ ReceiptInv /\ RefusalInv' /\ [Next]_vars
    => [Once!Next]_(Once!vars)
<1>. SUFFICES ASSUME TypeOK, RefusalInv, OrderInv, ReceiptInv, RefusalInv', [Next]_vars
              PROVE  [Once!Next]_(Once!vars)
  OBVIOUS
<1>1. ReceiptInv' /\ Settles
  BY ReceiptStep
<1>2. CASE UNCHANGED <<caller, durable>>
  BY <1>1, <1>2, StepAnswers DEF Once!Next
<1>3. ASSUME NEW t \in Tab, NEW c \in Req, Issue(t, c) PROVE Once!Next
  BY <1>3, StepIssues DEF Once!Next
<1>4. ASSUME NEW t \in Tab, Execute(t) PROVE [Once!Next]_(Once!vars)
  BY <1>4, StepTakesEffect DEF Once!Next
<1>5. CASE UNCHANGED vars
  BY <1>2, <1>5 DEF vars, clientVars
<1>6. CASE Next
  <2>1. PICK t \in Tab : \/ Client(t) \/ Election(t) \/ Receive(t) \/ Drain(t)
                         \/ Close(t) \/ Release(t) \/ Crash(t)
    BY <1>6 DEF Next
  <2>2. \/ \E c \in Req : Issue(t, c)
        \/ Execute(t)
        \/ UNCHANGED <<caller, durable>>
    BY <2>1, OtherSteps DEF Client, Drain
  <2>. QED
    BY <1>2, <1>3, <1>4, <2>2
<1>. QED
  BY <1>5, <1>6

(* The workers of an archive, its bus, its lock and its clients keep the   *)
(* promises of OnceService, whatever owners close, crash and take over: a  *)
(* transaction takes effect at most once, the requests of one caller in    *)
(* the order they were issued, and what callers are told is true.          *)
THEOREM Promises == Spec => KeepsPromises
<1>. QED
  BY Typing, ExclusionInit, ExclusionStep, RefusalInit, RefusalStep, OrderInit, OrderStep,
     ReceiptInit, ReceiptStep, OnceInit, OnceStep, PTL DEF Spec, KeepsPromises, Once!Spec


-----------------------------------------------------------------------------
(* What the promise means for a caller, drawn from the refinement.         *)

(* The effects on the archive, in the order they took place: no            *)
(* transaction has two, and the requests of one caller follow each other   *)
(* as it issued them.                                                      *)
EffectsOnceInOrder ==
  \A i, j \in DOMAIN effects : i < j =>
    /\ TxnOf[effects[i]] # TxnOf[effects[j]]
    /\ caller[effects[i]] = caller[effects[j]] => effects[i] < effects[j]

(* Whoever was told that a request is durable has its effect in the        *)
(* archive, by that request or by another of the same transaction.         *)
ToldTrue == \A c \in ToldDone : \E d \in Done : TxnOf[d] = TxnOf[c]

(* The receipts are those of the effects, and nobody is told of others.    *)
HistoryInv ==
  /\ EffectsOnceInOrder
  /\ committed = {TxnOf[c] : c \in Done}
  /\ \A c \in ToldDone : TxnOf[c] \in committed

(* One more effect, of a transaction without a receipt and later than all  *)
(* of its caller.                                                          *)
LEMMA OneMoreEffect ==
  ASSUME TypeOK, RefusalInv, OrderInv, HistoryInv, NEW w \in Tab, Execute(w)
  PROVE  EffectsOnceInOrder' /\ committed' = {TxnOf[c] : c \in Done'}
<1>. DEFINE c == active[w]
<1>1. /\ UNCHANGED caller /\ committed' = committed \cup {TxnOf[c]}
      /\ effects' = IF HasReceipt(c) THEN effects ELSE Append(effects, c)
      /\ effects \in Seq(Req)
  BY DEF Execute, Proceeds, Running, clientVars, TypeOK
<1>2. (Once!TakeEffect(c) /\ c \in Req) \/ UNCHANGED Once!vars
  BY StepTakesEffect
<1>. HIDE DEF c
<1>3. CASE HasReceipt(c)
  <2>1. effects' = effects /\ committed' = committed
    BY <1>1, <1>3 DEF HasReceipt
  <2>2. Done' = Done
    BY <2>1 DEF Done
  <2>. QED
    BY <1>1, <2>1, <2>2 DEF HistoryInv, EffectsOnceInOrder
<1>4. CASE ~HasReceipt(c)
  <2>1. committed' # committed
    BY <1>1, <1>4 DEF HasReceipt
  <2>2. /\ c \in Req /\ TxnOf[c] \notin committed
        /\ \A d \in Done : caller[d] = caller[c] => d < c
        /\ Done' = Done \cup {c}
    BY <1>2, <2>1 DEF Once!TakeEffect, Once!vars
  <2>3. /\ effects' = Append(effects, c) /\ Len(effects') = Len(effects) + 1
        /\ Len(effects) \in Nat /\ effects'[Len(effects) + 1] = c
        /\ \A i \in DOMAIN effects : effects'[i] = effects[i]
        /\ DOMAIN effects = 1 .. Len(effects) /\ DOMAIN effects' = 1 .. Len(effects) + 1
    BY <1>1, <1>4, <2>2
  <2>4. \A i \in DOMAIN effects : effects[i] \in Done
    BY DEF Done, ToSet
  <2>5. ASSUME NEW i \in DOMAIN effects', NEW j \in DOMAIN effects', i < j
        PROVE  /\ TxnOf[effects'[i]] # TxnOf[effects'[j]]
               /\ caller'[effects'[i]] = caller'[effects'[j]] => effects'[i] < effects'[j]
    <3>1. i \in DOMAIN effects /\ effects'[i] = effects[i] /\ effects[i] \in Done
      BY <2>3, <2>4, <2>5
    <3>2. CASE j \in DOMAIN effects
      BY <1>1, <2>3, <2>5, <3>1, <3>2 DEF HistoryInv, EffectsOnceInOrder
    <3>3. CASE j \notin DOMAIN effects
      <4>1. effects'[j] = c
        BY <2>3, <3>3
      <4>2. TxnOf[effects[i]] \in committed
        BY <3>1 DEF HistoryInv
      <4>. QED
        BY <1>1, <2>2, <3>1, <4>1, <4>2
    <3>. QED
      BY <3>2, <3>3
  <2>6. EffectsOnceInOrder'
    BY <2>5 DEF EffectsOnceInOrder
  <2>7. committed' = {TxnOf[d] : d \in Done'}
    BY <1>1, <2>2 DEF HistoryInv
  <2>. QED
    BY <2>6, <2>7
<1>. QED
  BY <1>3, <1>4

(* Every step keeps the history true.                                      *)
LEMMA HistoryStep ==
  ASSUME TypeOK, RefusalInv, OrderInv, HistoryInv, [Next]_vars, [Once!Next]_(Once!vars)
  PROVE  HistoryInv'
<1>1. \A c \in ToldDone' : TxnOf[c] \in committed'
  <2>1. CASE UNCHANGED Once!vars
    BY <2>1 DEF Once!vars, HistoryInv
  <2>2. CASE Once!Answer
    BY <2>2 DEF Once!Answer, HistoryInv
  <2>3. ASSUME NEW c \in Req, Once!Issue(c) \/ Once!TakeEffect(c)
        PROVE  ToldDone' = ToldDone /\ committed \subseteq committed'
    BY <2>3 DEF Once!Issue, Once!TakeEffect
  <2>. QED
    BY <2>1, <2>2, <2>3 DEF Once!Next, HistoryInv
<1>2. ASSUME NEW t \in Tab, Execute(t) PROVE HistoryInv'
  BY <1>1, <1>2, OneMoreEffect DEF HistoryInv
<1>3. ASSUME UNCHANGED durable, \A d \in Done : caller'[d] = caller[d] PROVE HistoryInv'
  <2>1. effects' = effects /\ committed' = committed /\ Done' = Done
    BY <1>3 DEF durable, Done
  <2>2. \A i \in DOMAIN effects : effects[i] \in Done
    BY DEF Done, ToSet
  <2>3. EffectsOnceInOrder'
    BY <1>3, <2>1, <2>2 DEF HistoryInv, EffectsOnceInOrder
  <2>. QED
    BY <1>1, <2>1, <2>3 DEF HistoryInv
<1>4. CASE UNCHANGED <<caller, durable>>
  BY <1>3, <1>4
<1>5. ASSUME NEW t \in Tab, NEW c \in Req, Issue(t, c) PROVE HistoryInv'
  <2>1. c \notin Done /\ UNCHANGED durable /\ caller' = [caller EXCEPT ![c] = t]
    BY <1>5 DEF Issue, RefusalInv, FreshInv, Issued
  <2>2. \A d \in Done : d # c => caller'[d] = caller[d]
    <3>1. caller \in [Req -> Tab \cup {None}]
      BY DEF TypeOK
    <3>2. Done \subseteq Req
      BY DEF TypeOK, Done, ToSet
    <3>. QED
      BY <2>1, <3>1, <3>2
  <2>. QED
    BY <1>3, <2>1, <2>2
<1>6. CASE UNCHANGED vars
  BY <1>4, <1>6 DEF vars, clientVars
<1>7. CASE Next
  <2>1. PICK t \in Tab : \/ Client(t) \/ Election(t) \/ Receive(t) \/ Drain(t)
                         \/ Close(t) \/ Release(t) \/ Crash(t)
    BY <1>7 DEF Next
  <2>2. \/ \E c \in Req : Issue(t, c)
        \/ Execute(t)
        \/ UNCHANGED <<caller, durable>>
    BY <2>1, OtherSteps DEF Client, Drain
  <2>. QED
    BY <1>2, <1>4, <1>5, <2>2
<1>. QED
  BY <1>6, <1>7

(* Through any owners, retries, cancellations and crashes: a transaction   *)
(* has at most one effect, the effects of one caller come in the order it  *)
(* issued them, and what a caller was told is durable is in the archive    *)
(* (archive-runtime.ts, drain; client/archive.ts).                         *)
THEOREM History == Spec => [](EffectsOnceInOrder /\ ToldTrue)
<1>1. Init => HistoryInv
  <2>1. ASSUME Init PROVE Done = {} /\ DOMAIN effects = {} /\ committed = {}
    BY <2>1 DEF Init, Done, ToSet
  <2>2. Init => ToldDone = {}
    BY OnceInit DEF Once!Init
  <2>. QED
    BY <2>1, <2>2 DEF HistoryInv, EffectsOnceInOrder
<1>2. HistoryInv => EffectsOnceInOrder /\ ToldTrue
  BY DEF HistoryInv, ToldTrue
<1>. QED
  BY <1>1, <1>2, Typing, ExclusionInit, ExclusionStep, RefusalInit, RefusalStep, OrderInit,
     OrderStep, ReceiptInit, ReceiptStep, OnceStep, HistoryStep, PTL DEF Spec
=============================================================================
