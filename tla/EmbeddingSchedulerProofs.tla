----------------------- MODULE EmbeddingSchedulerProofs -----------------------
(***************************************************************************)
(* Theorems about EmbeddingScheduler for any set of requests, any keys and *)
(* any limits.                                                             *)
(***************************************************************************)
EXTENDS EmbeddingScheduler, TLAPS

(* The pump, its batch and what statistics() shows agree; a pump is asked  *)
(* for only while none stands.                                             *)
Stand ==
  /\ pump = "executing" => state \in {"running", "closed"}
  /\ pump = "switching" => state \in {"switching", "closed"}
  /\ pump \in {"idle", "yielding"} => state \notin {"running", "switching"}
  /\ active # {} => pump = "executing"
  /\ scheduled => pump = "idle"

(* What a closed scheduler has left, and one that shutdown("cancel") found *)
(* unavailable.                                                            *)
Shut ==
  state = "closed" \/ closing = "cancel" =>
     state \in Stopped /\ hot = {} /\ Consumers = {} /\ Jobs \subseteq active

Inv ==
  /\ TypeOK /\ Stand /\ WaiterHasJob /\ NoLostWakeup /\ PromisesPending /\ CachedIsServed /\ Shut

-----------------------------------------------------------------------------
(* What the actions use of the constants.                                  *)
LEMMA Limits == KeyOf \in [Request -> Key] /\ Interactive \subseteq Request /\ HasStore \in BOOLEAN
BY KeyAssumption, KindAssumption

(* The invariant holds at the start.                                       *)
LEMMA InitInv == ASSUME Init PROVE Inv
<1>1. TypeOK
  BY DEF Init, TypeOK, Job, NoJob
<1>2. Stand /\ Shut /\ CachedIsServed
  BY DEF Init, Stand, Shut, CachedIsServed
<1>3. WaiterHasJob
  BY Limits DEF Init, WaiterHasJob, NoJob
<1>4. NoLostWakeup /\ PromisesPending
  BY DEF Init, NoLostWakeup, PromisesPending, Candidates, Eligible, NoJob
<1> QED BY <1>1, <1>2, <1>3, <1>4 DEF Inv

(* What the promises wait for when a step has looked at them.              *)
LEMMA Drained ==
  ASSUME TypeOK, TypeOK', WaiterHasJob', observed \subseteq {r \in Request : outcome[r] # "new"},
         NEW bg, NEW pending, Resolve(job', bg, pending),
         \A r \in Request : outcome[r] # "new" => outcome'[r] # "new"
  PROVE  /\ observed' \subseteq {r \in Request : outcome'[r] # "new"}
         /\ observed' # {} => observed' \cap Consumers' # {}
         /\ draining' => \E r \in Consumers' : r \notin Interactive
<1>1. WaitingIn(job') = Consumers'
  <2>1. ASSUME NEW r \in WaitingIn(job') PROVE r \in Consumers'
    BY <2>1 DEF WaitingIn, WaiterHasJob, Consumers
  <2>2. ASSUME NEW r \in Consumers' PROVE r \in WaitingIn(job')
    BY <2>2, Limits DEF WaitingIn, WaiterHasJob, Consumers
  <2> QED BY <2>1, <2>2
<1>2. observed' = {} \/ (observed' = observed /\ observed \cap Consumers' # {})
  BY <1>1 DEF Resolve
<1>3. draining' => ~(Consumers' \subseteq Interactive)
  BY <1>1 DEF Resolve, TypeOK
<1> QED BY <1>2, <1>3

(* What resolve leaves is typed.                                           *)
LEMMA Resolved ==
  ASSUME TypeOK, NEW js, Resolve(js, background, draining)
  PROVE  /\ background' \in {"running", "paused", "draining"} /\ draining' \in BOOLEAN
         /\ observed' \subseteq Request
<1>1. background' \in {"running", "paused", "draining"} /\ observed' \subseteq Request
  BY DEF TypeOK, Resolve
<1>2. draining' \in BOOLEAN
  BY DEF Resolve
<1> QED BY <1>1, <1>2

(* What a turn sends to the cache.                                         *)
LEMMA SentType ==
  ASSUME TypeOK, NEW ks \in SUBSET Front
  PROVE  /\ Sent(ks) \in [Key -> Job] /\ ks \subseteq Key
         /\ \A k \in Key : Sent(ks)[k].stage = "active" <=> k \in active
         /\ \A k \in ks : job[k].stage = "queued" /\ Sent(ks)[k].stage = "checking"
         /\ \A k \in Key : Sent(ks)[k].waiting = job[k].waiting
         /\ \A k \in Key \ ks : Sent(ks)[k] = job[k]
<1>1. ks \subseteq Key /\ \A k \in ks : job[k].stage = "queued"
  BY DEF Front, Candidates, Eligible
<1>2. \A k \in Key : job[k] \in Job
  BY DEF TypeOK
<1>3. ASSUME NEW k \in Key
      PROVE  /\ [job[k] EXCEPT !.stage = "checking"] \in Job
             /\ [job[k] EXCEPT !.stage = "checking"].stage = "checking"
             /\ [job[k] EXCEPT !.stage = "checking"].waiting = job[k].waiting
  BY <1>2 DEF Job
<1>4. \A k \in Key : job[k].stage = "active" <=> k \in active
  BY DEF TypeOK
<1> QED BY <1>1, <1>2, <1>3, <1>4 DEF Sent

(* Refuse keeps the invariant.                                             *)
LEMMA RefuseKeeps ==
  ASSUME Inv, NEW r \in Request, Refuse(r)
  PROVE  Inv'
<1>1. TypeOK'
  BY DEF Inv, Refuse, modes, machine, Become, TypeOK, Job, Stopped, NoJob
<1>2. Stand'
  BY DEF Inv, Refuse, modes, machine, Job, Stopped, Stand, NoJob
<1>3. WaiterHasJob'
  BY DEF Inv, Refuse, Become, Job, Stopped, WaiterHasJob, NoJob
<1>4. NoLostWakeup'
  BY DEF Inv, Refuse, modes, machine, NoLostWakeup, Stand, Candidates,
     Eligible, UrgentLookup, Urgent, NoJob, Shut
<1>5. PromisesPending'
  BY DEF Inv, Refuse, modes, machine, Become, Job, Stopped, PromisesPending,
     WaiterHasJob, Stand, Consumers, Jobs, WaitingIn, NoJob, Shut
<1>6. CachedIsServed'
  BY DEF Inv, Refuse, CachedIsServed, Jobs, NoJob
<1>7. Shut'
  BY DEF Inv, Refuse, modes, machine, Become, Job, Stopped, Shut, Stand,
     Consumers, Jobs, NoJob, WaiterHasJob, WaitingIn
<1> QED BY <1>1, <1>2, <1>3, <1>4, <1>5, <1>6, <1>7 DEF Inv

(* ServeHot keeps the invariant.                                           *)
LEMMA ServeHotKeeps ==
  ASSUME Inv, NEW r \in Request, ServeHot(r)
  PROVE  Inv'
<1>1. TypeOK'
  BY DEF Inv, ServeHot, ServedHot, Become, CheckDrains, Closes, Resolve,
     WaitingIn, TypeOK, Job, Stopped, NoJob
<1>2. Stand'
  BY DEF Inv, ServeHot, CheckDrains, Resolve, WaitingIn, TypeOK, Job, Stopped,
     Stand, NoJob
<1>3. WaiterHasJob'
  BY DEF Inv, ServeHot, ServedHot, Become, CheckDrains, Closes, Resolve,
     WaitingIn, TypeOK, Job, Stopped, WaiterHasJob, NoJob
<1>4. NoLostWakeup'
  BY DEF Inv, ServeHot, ServedHot, CheckDrains, Closes, Resolve, WaitingIn,
     TypeOK, Job, Stopped, NoLostWakeup, Stand, Candidates, Eligible,
     UrgentLookup, Urgent, NoJob, Shut
<1>5. PromisesPending'
  <2>1. PICK bg, pending : Resolve(job', bg, pending)
    BY DEF ServeHot, CheckDrains
  <2>2. \A q \in Request : outcome[q] # "new" => outcome'[q] # "new"
    BY DEF Inv, TypeOK, ServeHot, Become
  <2>3. /\ observed' \subseteq {q \in Request : outcome'[q] # "new"}
        /\ observed' # {} => observed' \cap Consumers' # {}
        /\ draining' => \E q \in Consumers' : q \notin Interactive
    BY <1>1, <1>3, <2>1, <2>2, Drained DEF Inv, PromisesPending
  <2>4. (closing = "drain" /\ state # "closed" => Jobs # {} \/ pump # "idle")'
    BY DEF Inv, Stand, Jobs, ServeHot, CheckDrains, Closes
  <2> QED BY <2>3, <2>4 DEF PromisesPending
<1>6. CachedIsServed'
  BY DEF Inv, ServeHot, CheckDrains, Resolve, WaitingIn, TypeOK, Job, Stopped,
     CachedIsServed, Jobs, NoJob
<1>7. Shut'
  BY DEF ServeHot, Refused, CheckDrains, Closes, Resolve, WaitingIn, TypeOK,
     Job, Stopped, Shut, Stand, Consumers, Jobs, NoJob, WaiterHasJob
<1> QED BY <1>1, <1>2, <1>3, <1>4, <1>5, <1>6, <1>7 DEF Inv

(* Enqueue keeps the invariant.                                            *)
LEMMA EnqueueKeeps ==
  ASSUME Inv, NEW r \in Request, Enqueue(r)
  PROVE  Inv'
<1>1. TypeOK'
  <2>1. \A j \in Job : /\ [j EXCEPT !.waiting = @ \cup {r}] \in Job
                       /\ [j EXCEPT !.waiting = @ \cup {r}].stage = j.stage
    BY DEF Job
  <2>2. NewJob \in Job /\ NewJob.stage = "queued"
    BY Limits DEF NewJob, Job
  <2>3. PICK j \in Job : /\ job' = [job EXCEPT ![KeyOf[r]] = [j EXCEPT !.waiting = @ \cup {r}]]
                         /\ j.stage = "active" <=> KeyOf[r] \in active
    BY <2>2 DEF Enqueue, Jobs, Inv, TypeOK
  <2>4. job' \in [Key -> Job] /\ \A k \in Key : job'[k].stage = "active" <=> k \in active
    BY <2>1, <2>3, Limits DEF Inv, TypeOK
  <2>5. scheduled' \in BOOLEAN
    BY DEF Enqueue, Kick, Inv, TypeOK
  <2>6. outcome' \in
          [Request -> {"new", "waiting", "refused", "completed", "failed", "cancelled"}]
    BY DEF Enqueue, Become, Inv, TypeOK
  <2> QED BY <2>4, <2>5, <2>6 DEF Enqueue, modes, Inv, TypeOK
<1>2. Stand'
  BY DEF Inv, Enqueue, modes, Kick, Jobs, TypeOK, Job, Stopped, Stand, NoJob
<1>3. WaiterHasJob'
  BY Limits DEF Inv, Enqueue, Become, NewJob, modes, Kick, Jobs, TypeOK, Job,
     Stopped, WaiterHasJob, NoJob
<1>4. NoLostWakeup'
  BY DEF Inv, Enqueue, modes, Kick, Jobs, TypeOK, Job, Stopped, NoLostWakeup,
     Stand, Candidates, Eligible, UrgentLookup, Urgent, NoJob, Shut
<1>5. PromisesPending'
  BY DEF Inv, Enqueue, Become, modes, Kick, Jobs, TypeOK, Job, Stopped,
     PromisesPending, WaiterHasJob, Stand, Consumers, WaitingIn, NoJob, Shut
<1>6. CachedIsServed'
  BY DEF Inv, Enqueue, ServedHot, Jobs, TypeOK, Job, Stopped, CachedIsServed,
     NoJob
<1>7. Shut'
  BY DEF Enqueue, Refused, NewJob, modes, Kick, Jobs, TypeOK, Job, Stopped,
     Shut, Stand, Consumers, NoJob, WaiterHasJob, WaitingIn
<1> QED BY <1>1, <1>2, <1>3, <1>4, <1>5, <1>6, <1>7 DEF Inv

(* Cancel keeps the invariant.                                             *)
LEMMA CancelKeeps ==
  ASSUME Inv, NEW r \in Request, Cancel(r)
  PROVE  Inv'
<1>1. TypeOK'
  BY Limits DEF Inv, Cancel, Leave, Become, Kick, CheckDrains, Closes, Resolve,
     WaitingIn, TypeOK, Job, Stopped, NoJob
<1>2. Stand'
  BY DEF Inv, Cancel, Kick, CheckDrains, Resolve, WaitingIn, TypeOK, Job,
     Stopped, Stand, NoJob
<1>3. WaiterHasJob'
  BY Limits DEF Inv, Cancel, Leave, Become, Kick, CheckDrains, Closes, Resolve,
     WaitingIn, TypeOK, Job, Stopped, WaiterHasJob, NoJob
<1>4. NoLostWakeup'
  BY DEF Inv, Cancel, Kick, CheckDrains, Closes, Resolve, WaitingIn, TypeOK,
     Job, Stopped, NoLostWakeup, Stand, Candidates, Eligible, UrgentLookup,
     Urgent, NoJob, Shut
<1>5. PromisesPending'
  <2>1. PICK bg, pending : Resolve(job', bg, pending)
    BY DEF Cancel, CheckDrains
  <2>2. \A q \in Request : outcome[q] # "new" => outcome'[q] # "new"
    BY DEF Inv, TypeOK, Cancel, Become
  <2>3. /\ observed' \subseteq {q \in Request : outcome'[q] # "new"}
        /\ observed' # {} => observed' \cap Consumers' # {}
        /\ draining' => \E q \in Consumers' : q \notin Interactive
    BY <1>1, <1>3, <2>1, <2>2, Drained DEF Inv, PromisesPending
  <2>4. (closing = "drain" /\ state # "closed" => Jobs # {} \/ pump # "idle")'
    BY DEF Inv, Stand, Jobs, Cancel, CheckDrains, Closes
  <2> QED BY <2>3, <2>4 DEF PromisesPending
<1>6. CachedIsServed'
  BY DEF Inv, Cancel, Leave, CheckDrains, Closes, Resolve, WaitingIn, TypeOK,
     Job, Stopped, CachedIsServed, Jobs, NoJob
<1>7. Shut'
  BY <1>1, <1>2, <1>3, Limits DEF Inv, Cancel, Become, Kick, CheckDrains,
     Closes, Resolve, WaitingIn, TypeOK, Job, Stopped, Shut, Stand, Consumers,
     Jobs, NoJob, WaiterHasJob
<1> QED BY <1>1, <1>2, <1>3, <1>4, <1>5, <1>6, <1>7 DEF Inv

(* Miss keeps the invariant.                                               *)
LEMMA MissKeeps ==
  ASSUME Inv, NEW k \in Key, Miss(k)
  PROVE  Inv'
<1>1. TypeOK'
  <2>1. job' \in [Key -> Job]
    <3>1. job[k] \in Job
      BY DEF Inv, TypeOK
    <3>2. [[job[k] EXCEPT !.stage = "queued"] EXCEPT !.checked = TRUE] \in Job
      BY <3>1 DEF Job
    <3> QED BY <3>2 DEF Inv, Miss, TypeOK
  <2>2. \A j \in Key : job'[j].stage = "active" <=> job[j].stage = "active"
    BY DEF Inv, Miss, TypeOK, Job
  <2>3. scheduled' \in BOOLEAN
    BY DEF Inv, Miss, KickAfterMiss, Kick, TypeOK
  <2> QED BY <2>1, <2>2, <2>3 DEF Inv, Miss, modes, TypeOK
<1>2. Stand'
  BY DEF Inv, Miss, modes, KickAfterMiss, Kick, Stopped, Stand, NoJob
<1>3. WaiterHasJob'
  <2>1. /\ job[k].stage = "checking" /\ job[k].waiting # {} /\ outcome' = outcome
        /\ job' = [job EXCEPT ![k].stage = "queued", ![k].checked = TRUE]
    BY DEF Miss
  <2>2. job \in [Key -> Job] /\ job' \in [Key -> Job]
    BY <1>1 DEF Inv, TypeOK
  <2>3. \A j \in Key : job'[j].waiting = job[j].waiting /\ (j # k => job'[j] = job[j])
    BY <2>1, <2>2 DEF Job
  <2>4. job'[k].stage = "queued"
    BY <2>1, <2>2 DEF Job
  <2>5. \A r \in Request : outcome'[r] = "waiting" <=> r \in job'[KeyOf[r]].waiting
    BY <2>1, <2>3, Limits DEF Inv, WaiterHasJob
  <2>6. ASSUME NEW j \in Key
        PROVE  /\ job'[j].waiting \subseteq {r \in Request : KeyOf[r] = j}
               /\ job'[j].stage = "none" => job'[j].waiting = {}
               /\ job'[j].stage = "queued" => job'[j].waiting # {}
    <3>1. CASE j = k
      <4>1. /\ job'[j].waiting = job[j].waiting /\ job[j].waiting # {}
            /\ job'[j].stage = "queued"
        BY <2>1, <2>3, <2>4, <3>1
      <4> QED BY <4>1 DEF Inv, WaiterHasJob
    <3>2. CASE j # k
      BY <2>3, <3>2 DEF Inv, WaiterHasJob
    <3> QED BY <3>1, <3>2
  <2> QED BY <2>5, <2>6 DEF WaiterHasJob
<1>4. NoLostWakeup'
  BY DEF Inv, Miss, modes, KickAfterMiss, Kick, TypeOK, Job, Stopped,
     NoLostWakeup, Stand, Candidates, Eligible, UrgentLookup, Urgent, NoJob,
     Shut
<1>5. PromisesPending'
  BY DEF Inv, Miss, modes, TypeOK, Stopped, PromisesPending, WaiterHasJob,
     Stand, Consumers, Jobs, WaitingIn, NoJob, Shut
<1>6. CachedIsServed'
  BY DEF Inv, Miss, TypeOK, Stopped, CachedIsServed, Jobs, NoJob
<1>7. Shut'
  BY DEF Inv, Miss, modes, TypeOK, Job, Stopped, Shut, Stand, Consumers, Jobs,
     NoJob, WaiterHasJob, WaitingIn
<1> QED BY <1>1, <1>2, <1>3, <1>4, <1>5, <1>6, <1>7 DEF Inv

(* Hit keeps the invariant.                                                *)
LEMMA HitKeeps ==
  ASSUME Inv, NEW k \in Key, Hit(k)
  PROVE  Inv'
<1>1. TypeOK'
  BY DEF Inv, Hit, Cached, Become, Kick, CheckDrains, Closes, Resolve,
     WaitingIn, TypeOK, Job, Stopped, NoJob
<1>2. Stand'
  BY DEF Inv, Hit, Kick, CheckDrains, Resolve, WaitingIn, TypeOK, Job, Stopped,
     Stand, NoJob
<1>3. WaiterHasJob'
  BY DEF Inv, Hit, Become, CheckDrains, Closes, Resolve, WaitingIn, TypeOK,
     Job, Stopped, WaiterHasJob, NoJob
<1>4. NoLostWakeup'
  BY DEF Inv, Hit, Kick, CheckDrains, Closes, Resolve, WaitingIn, TypeOK, Job,
     Stopped, NoLostWakeup, Stand, Candidates, Eligible, UrgentLookup, Urgent,
     NoJob, Shut
<1>5. PromisesPending'
  <2>1. PICK bg, pending : Resolve(job', bg, pending)
    BY DEF Hit, CheckDrains
  <2>2. \A r \in Request : outcome[r] # "new" => outcome'[r] # "new"
    BY DEF Inv, TypeOK, Hit, Become
  <2>3. /\ observed' \subseteq {r \in Request : outcome'[r] # "new"}
        /\ observed' # {} => observed' \cap Consumers' # {}
        /\ draining' => \E r \in Consumers' : r \notin Interactive
    BY <1>1, <1>3, <2>1, <2>2, Drained DEF Inv, PromisesPending
  <2>4. (closing = "drain" /\ state # "closed" => Jobs # {} \/ pump # "idle")'
    BY DEF Inv, Stand, Jobs, Hit, CheckDrains, Closes
  <2> QED BY <2>3, <2>4 DEF PromisesPending
<1>6. CachedIsServed'
  BY DEF Inv, Hit, Cached, CheckDrains, Closes, Resolve, WaitingIn, TypeOK,
     Job, Stopped, CachedIsServed, Jobs, NoJob
<1>7. Shut'
  BY Limits DEF Inv, Hit, Become, Kick, CheckDrains, Closes, Resolve,
     WaitingIn, TypeOK, Job, Stopped, Shut, Stand, Consumers, Jobs, NoJob,
     WaiterHasJob
<1> QED BY <1>1, <1>2, <1>3, <1>4, <1>5, <1>6, <1>7 DEF Inv

(* Unwanted keeps the invariant.                                           *)
LEMMA UnwantedKeeps ==
  ASSUME Inv, NEW k \in Key, Unwanted(k)
  PROVE  Inv'
<1>1. TypeOK'
  BY DEF Inv, Unwanted, Kick, CheckDrains, Resolve, WaitingIn, TypeOK, Job,
     Stopped, NoJob
<1>2. Stand'
  BY DEF Inv, Unwanted, Kick, CheckDrains, TypeOK, Job, Stopped, Stand, NoJob
<1>3. WaiterHasJob'
  BY DEF Inv, Unwanted, CheckDrains, TypeOK, Job, Stopped, WaiterHasJob, NoJob
<1>4. NoLostWakeup'
  BY DEF Inv, Unwanted, Kick, CheckDrains, Stopped, NoLostWakeup, Stand,
     Candidates, Eligible, UrgentLookup, Urgent, NoJob, Shut
<1>5. PromisesPending'
  BY DEF Inv, Unwanted, CheckDrains, Closes, Resolve, WaitingIn, TypeOK, Job,
     Stopped, PromisesPending, WaiterHasJob, Stand, Consumers, Jobs, NoJob,
     Shut
<1>6. CachedIsServed'
  BY DEF Inv, Unwanted, CheckDrains, CachedIsServed, Jobs, NoJob
<1>7. Shut'
  BY Limits DEF Inv, Unwanted, Kick, CheckDrains, Closes, Resolve, WaitingIn,
     TypeOK, Job, Stopped, Shut, Stand, Consumers, Jobs, NoJob, WaiterHasJob
<1> QED BY <1>1, <1>2, <1>3, <1>4, <1>5, <1>6, <1>7 DEF Inv

(* Dispatch keeps the invariant.                                           *)
LEMMA DispatchKeeps ==
  ASSUME Inv, Dispatch, pump \in {"idle", "yielding"}, scheduled' = FALSE
  PROVE  Inv'
<1>1. TypeOK'
  <2>1. PICK b \in SUBSET Front, ks \in SUBSET Front :
          /\ job' = [k \in Key |-> IF k \in b THEN [job[k] EXCEPT !.stage = "active"]
                                   ELSE Sent(ks)[k]]
          /\ active' = b
    BY DEF Dispatch, Batches, Ready
  <2>2. active = {} /\ b \subseteq Key
    BY DEF Inv, Stand, Front, Candidates
  <2>3. \A k \in Key : /\ [job[k] EXCEPT !.stage = "active"] \in Job
                       /\ [job[k] EXCEPT !.stage = "active"].stage = "active"
    BY DEF Inv, TypeOK, Job
  <2>4. job' \in [Key -> Job]
    BY <2>1, <2>3, SentType DEF Inv
  <2>5. \A k \in Key : job'[k].stage = "active" <=> k \in active'
    BY <2>1, <2>2, <2>3, SentType DEF Inv
  <2> QED BY <2>1, <2>2, <2>4, <2>5 DEF Inv, TypeOK, Dispatch
<1>2. Stand'
  BY DEF Dispatch, Stand
<1>3. WaiterHasJob'
  BY Limits DEF Inv, Dispatch, Sent, WaiterHasJob, NoJob
<1>4. NoLostWakeup'
  BY DEF Dispatch, NoLostWakeup, Stand, UrgentLookup, Urgent, NoJob, Shut
<1>5. PromisesPending'
  BY DEF Inv, Dispatch, PromisesPending, WaiterHasJob, Stand, Consumers, Jobs,
     WaitingIn, NoJob, Shut
<1>6. CachedIsServed'
  BY DEF Inv, Dispatch, Batches, Sent, Ready, Front, Candidates, Eligible,
     TypeOK, Job, Stopped, CachedIsServed, Jobs, NoJob
<1>7. Shut'
  BY DEF Inv, Dispatch, Shut, Stand, Consumers, Jobs, NoJob, WaiterHasJob,
     WaitingIn
<1> QED BY <1>1, <1>2, <1>3, <1>4, <1>5, <1>6, <1>7 DEF Inv

(* Exhaust keeps the invariant.                                            *)
LEMMA ExhaustKeeps ==
  ASSUME Inv, Exhaust, pump \in {"idle", "yielding"}, scheduled' = FALSE
  PROVE  Inv'
<1>1. TypeOK'
  <2>1. job' = job \/ job' = Sent(Front)
    BY DEF Exhaust, EndPump, CheckDrains
  <2>2. active = {} /\ active' = {}
    BY DEF Inv, Stand, Exhaust, EndPump, CheckDrains
  <2>3. job' \in [Key -> Job] /\ \A k \in Key : job'[k].stage = "active" <=> k \in active'
    BY <2>1, <2>2, SentType DEF Inv, TypeOK
  <2>4. PICK js : Resolve(js, background, draining)
    BY DEF Exhaust, EndPump
  <2>5. /\ background' \in {"running", "paused", "draining"} /\ draining' \in BOOLEAN
        /\ observed' \subseteq Request
    BY <2>4, Resolved DEF Inv
  <2>6. /\ state' \in {"ready", "running", "switching"} \cup Stopped
        /\ hot' \subseteq Key /\ pump' = "idle"
        /\ UNCHANGED <<closing, fallbackUsed, outcome>>
    BY DEF Inv, TypeOK, Exhaust, EndPump, CheckDrains, Stopped
  <2> QED BY <2>2, <2>3, <2>5, <2>6 DEF Inv, TypeOK
<1>2. Stand'
  BY DEF Inv, Exhaust, EndPump, CheckDrains, Closes, Resolve, WaitingIn,
     TypeOK, Job, Stopped, Stand, NoJob
<1>3. WaiterHasJob'
  BY Limits DEF Inv, Exhaust, EndPump, Sent, Ready, CheckDrains, Closes,
     Resolve, WaitingIn, TypeOK, Job, Stopped, WaiterHasJob, NoJob
<1>4. NoLostWakeup'
  <2> SUFFICES ASSUME state \notin Stopped, job' = Sent(Front), NEW k \in Candidates'
               PROVE  FALSE
    BY DEF NoLostWakeup, Exhaust, EndPump, CheckDrains, Stopped
  <2>1. job'[k].stage = "queued" /\ k \in Key
    BY DEF Candidates, Eligible
  <2>2. k \notin Front /\ job'[k] = job[k]
    BY <2>1, SentType DEF Inv
  <2>3. Eligible(k)
    BY <2>2 DEF Candidates, Eligible, Urgent, Exhaust, EndPump, Resolve
  <2>4. (UrgentLookup /\ ~Urgent(k)) \/ \E c \in Front : Urgent(c)
    BY <2>1, <2>2, <2>3 DEF Front, Candidates
  <2>5. UrgentLookup'
    <3>1. CASE UrgentLookup
      <4>1. PICK c \in Key : job[c].stage = "checking" /\ Urgent(c)
        BY <3>1 DEF UrgentLookup
      <4>2. job'[c] = job[c]
        BY <4>1, SentType DEF Inv
      <4> QED BY <4>1, <4>2 DEF UrgentLookup, Urgent
    <3>2. CASE \E c \in Front : Urgent(c)
      <4>1. PICK c \in Front : Urgent(c)
        BY <3>2
      <4>2. c \in Key /\ job'[c].stage = "checking" /\ job'[c].waiting = job[c].waiting
        BY SentType DEF Inv
      <4> QED BY <4>1, <4>2 DEF UrgentLookup, Urgent
    <3> QED BY <2>4, <3>1, <3>2
  <2>6. Urgent(k)
    BY <2>2, <2>5 DEF Candidates, Urgent
  <2>7. k \in Candidates
    BY <2>1, <2>3, <2>6 DEF Candidates
  <2> QED BY <2>2, <2>6, <2>7 DEF Front
<1>5. job' = job \/ job' = Sent(Front)
  BY DEF Exhaust, EndPump, CheckDrains
<1>6. Jobs' = Jobs /\ Consumers' = Consumers /\ WaitingIn(job') = WaitingIn(job)
  <2>1. \A k \in Key : /\ job'[k].waiting = job[k].waiting
                       /\ job'[k].stage = "none" <=> job[k].stage = "none"
    BY <1>5, SentType DEF Inv
  <2>2. Jobs' = Jobs
    BY <2>1 DEF Jobs
  <2>3. {job'[k].waiting : k \in Key} = {job[k].waiting : k \in Key}
    BY <2>1
  <2>4. Consumers' = Consumers
    BY DEF Exhaust, Consumers
  <2> QED BY <2>2, <2>3, <2>4 DEF WaitingIn
<1>7. PromisesPending'
  <2>1. job' \in [Key -> Job] /\ outcome' = outcome /\ closing' = closing /\ pump' = "idle"
    BY <1>1 DEF TypeOK, Exhaust, EndPump
  <2>2. Resolve(job', background, draining)
    BY DEF Exhaust, EndPump, CheckDrains
  <2>3. observed' \subseteq {r \in Request : outcome'[r] # "new"}
    BY <2>1, <2>2 DEF Inv, PromisesPending, Resolve
  <2>4. WaitingIn(job') = Consumers'
    BY <1>1, <1>3, Limits DEF WaitingIn, Consumers, WaiterHasJob, TypeOK, Job
  <2>5. /\ observed' # {} => observed' \cap Consumers' # {}
        /\ draining' => \E r \in Consumers' : r \notin Interactive
    BY <2>2, <2>4 DEF Resolve
  <2>6. closing' = "drain" /\ state' # "closed" => Jobs' # {}
    <3> SUFFICES ASSUME closing' = "drain", state' # "closed", Jobs' = {}
                 PROVE  FALSE
      OBVIOUS
    <3>1. state # "switching"
      BY DEF Inv, Stand, TypeOK, Stopped
    <3>2. \A k \in Key : job'[k].stage = "none"
      BY DEF Jobs
    <3>3. Closes(job', {}, state)
      BY <3>1, <3>2 DEF Closes
    <3> QED BY <3>3 DEF Exhaust, EndPump, CheckDrains
  <2> QED BY <2>3, <2>5, <2>6 DEF PromisesPending
<1>8. CachedIsServed'
  BY <1>6 DEF Inv, Exhaust, EndPump, CheckDrains, CachedIsServed
<1>9. Shut'
  <2>1. CASE state' = "closed" /\ state # "closed"
    <3>1. hot' = {} /\ \A k \in Key : job'[k].stage = "none"
      BY <2>1 DEF Exhaust, EndPump, CheckDrains, Closes
    <3>2. Jobs' = {} /\ \A k \in Key : job'[k].waiting = {}
      BY <1>3, <3>1 DEF Jobs, WaiterHasJob
    <3>3. Consumers' = {}
      BY <1>3, <3>2, Limits DEF Consumers, WaiterHasJob
    <3> QED BY <2>1, <3>1, <3>2, <3>3 DEF Shut, Stopped
  <2>2. CASE state' = state
    BY <1>6, <2>2 DEF Inv, Stand, Exhaust, EndPump, CheckDrains, Shut, Stopped
  <2> QED BY <2>1, <2>2 DEF Exhaust, EndPump, CheckDrains
<1> QED BY <1>1, <1>2, <1>3, <1>4, <1>7, <1>8, <1>9 DEF Inv

(* Discard keeps the invariant.                                            *)
LEMMA DiscardKeeps ==
  ASSUME Inv, Discard
  PROVE  Inv'
<1>1. TypeOK'
  BY DEF Inv, Discard, EndPump, Without, CheckDrains, Closes, Resolve,
     WaitingIn, TypeOK, Job, Stopped, NoJob
<1>2. Stand'
  BY DEF Discard, Late, EndPump, CheckDrains, Resolve, WaitingIn, TypeOK, Job,
     Stopped, Stand, NoJob
<1>3. WaiterHasJob'
  <2>1. UNCHANGED outcome /\ \A r \in Request : outcome[r] # "waiting"
    BY DEF Inv, Shut, Consumers, Discard, Late
  <2>2. \A k \in Key : job[k].waiting = {}
    BY <2>1 DEF Inv, WaiterHasJob
  <2>3. \A k \in Key : job'[k].waiting = {} /\ job'[k].stage = "none"
    <3>1. job' = Without(active)
      BY DEF Discard, EndPump, CheckDrains
    <3>2. \A k \in Key : k \in active \/ job[k].stage = "none"
      BY DEF Inv, Shut, Jobs, Discard, Late
    <3> QED BY <2>2, <3>1, <3>2 DEF Without, NoJob
  <2> QED BY <2>1, <2>3, Limits DEF WaiterHasJob
<1>4. NoLostWakeup'
  BY DEF Discard, Late, EndPump, CheckDrains, Closes, Resolve, WaitingIn,
     TypeOK, Job, Stopped, NoLostWakeup, Stand, Candidates, Eligible,
     UrgentLookup, Urgent, NoJob, Shut
<1>5. PromisesPending'
  BY DEF Inv, Discard, EndPump, CheckDrains, Closes, Resolve, WaitingIn,
     TypeOK, Job, Stopped, PromisesPending, WaiterHasJob, Stand, Consumers,
     Jobs, NoJob, Shut
<1>6. CachedIsServed'
  BY DEF Inv, Discard, EndPump, Without, CheckDrains, Closes, Resolve,
     WaitingIn, TypeOK, Job, Stopped, CachedIsServed, Jobs, NoJob
<1>7. Shut'
  BY DEF Inv, Discard, Late, EndPump, Without, CheckDrains, Closes, Resolve,
     WaitingIn, TypeOK, Job, Stopped, Shut, Stand, Consumers, Jobs, NoJob,
     WaiterHasJob
<1> QED BY <1>1, <1>2, <1>3, <1>4, <1>5, <1>6, <1>7 DEF Inv

(* Succeed keeps the invariant.                                            *)
LEMMA SucceedKeeps ==
  ASSUME Inv, Succeed
  PROVE  Inv'
<1>1. TypeOK'
  BY DEF Inv, Succeed, Become, Cached, Without, CheckDrains, Closes, Resolve,
     WaitingIn, TypeOK, Job, Stopped, NoJob
<1>2. Stand'
  BY DEF Inv, Succeed, CheckDrains, WaitingIn, TypeOK, Job, Stopped, Stand,
     NoJob
<1>3. WaiterHasJob'
  BY Limits DEF Inv, Succeed, Become, Without, CheckDrains, Closes, Resolve,
     WaitingIn, TypeOK, Job, Stopped, WaiterHasJob, NoJob
<1>4. NoLostWakeup'
  BY DEF Succeed, NoLostWakeup, Stand, Candidates, Eligible, UrgentLookup,
     Urgent, NoJob, Shut
<1>5. PromisesPending'
  <2>1. PICK bg, pending : Resolve(job', bg, pending)
    BY DEF Succeed, CheckDrains
  <2>2. \A r \in Request : outcome[r] # "new" => outcome'[r] # "new"
    BY DEF Inv, TypeOK, Succeed, Become
  <2>3. /\ observed' \subseteq {r \in Request : outcome'[r] # "new"}
        /\ observed' # {} => observed' \cap Consumers' # {}
        /\ draining' => \E r \in Consumers' : r \notin Interactive
    BY <1>1, <1>3, <2>1, <2>2, Drained DEF Inv, PromisesPending
  <2>4. (closing = "drain" /\ state # "closed" => Jobs # {} \/ pump # "idle")'
    BY DEF Succeed
  <2> QED BY <2>3, <2>4 DEF PromisesPending
<1>6. CachedIsServed'
  BY DEF Inv, Succeed, Cached, Without, CheckDrains, Closes, Resolve,
     WaitingIn, TypeOK, Job, Stopped, CachedIsServed, Jobs, NoJob
<1>7. Shut'
  BY Limits DEF Inv, Succeed, Late, Become, Cached, Without, CheckDrains,
     Closes, Resolve, WaitingIn, TypeOK, Job, Stopped, Shut, Stand, Consumers,
     Jobs, NoJob, WaiterHasJob
<1> QED BY <1>1, <1>2, <1>3, <1>4, <1>5, <1>6, <1>7 DEF Inv

(* FailBackend keeps the invariant.                                        *)
LEMMA FailBackendKeeps ==
  ASSUME Inv, FailBackend, pump \in {"executing", "switching"}
  PROVE  Inv'
<1>1. TypeOK'
  BY DEF Inv, FailBackend, EndPump, Become, CheckDrains, Closes, Resolve,
     WaitingIn, TypeOK, Job, Stopped, NoJob
<1>2. Stand'
  BY DEF FailBackend, EndPump, CheckDrains, Resolve, WaitingIn, TypeOK, Job,
     Stopped, Stand, NoJob
<1>3. WaiterHasJob'
  BY Limits DEF FailBackend, EndPump, Become, Consumers, CheckDrains, Closes,
     Resolve, WaitingIn, TypeOK, Job, Stopped, WaiterHasJob, NoJob
<1>4. NoLostWakeup'
  BY DEF FailBackend, EndPump, CheckDrains, Closes, Resolve, WaitingIn, TypeOK,
     Job, Stopped, NoLostWakeup, Stand, Candidates, Eligible, UrgentLookup,
     Urgent, NoJob, Shut
<1>5. PromisesPending'
  BY DEF FailBackend, EndPump, CheckDrains, Closes, Resolve, WaitingIn, TypeOK,
     Job, Stopped, PromisesPending, WaiterHasJob, Stand, Jobs, NoJob, Shut
<1>6. CachedIsServed'
  BY DEF FailBackend, EndPump, CheckDrains, Resolve, WaitingIn, TypeOK, Job,
     Stopped, CachedIsServed, Jobs, NoJob
<1>7. Shut'
  BY DEF Inv, FailBackend, EndPump, Become, Consumers, CheckDrains, Closes,
     Resolve, WaitingIn, TypeOK, Job, Stopped, Shut, Stand, Jobs, NoJob,
     WaiterHasJob
<1> QED BY <1>1, <1>2, <1>3, <1>4, <1>5, <1>6, <1>7 DEF Inv

(* Recover keeps the invariant.                                            *)
LEMMA RecoverKeeps ==
  ASSUME Inv, Recover
  PROVE  Inv'
<1>1. TypeOK'
  BY DEF Inv, Recover, Requeued, TypeOK, Job, Stopped, NoJob
<1>2. Stand'
  BY DEF Inv, Recover, Stand
<1>3. WaiterHasJob'
  BY Limits DEF Inv, Recover, Requeued, WaiterHasJob, NoJob
<1>4. NoLostWakeup'
  BY DEF Recover, NoLostWakeup, Candidates, Eligible, UrgentLookup, Urgent,
     NoJob, Shut
<1>5. PromisesPending'
  BY DEF Inv, Recover, PromisesPending, WaiterHasJob, Stand, Consumers, Jobs,
     WaitingIn, NoJob, Shut
<1>6. CachedIsServed'
  BY DEF Inv, Recover, Requeued, TypeOK, CachedIsServed, Jobs, NoJob
<1>7. Shut'
  BY DEF Inv, Recover, Late, Job, Stopped, Shut, Stand, Consumers, Jobs, NoJob,
     WaiterHasJob, WaitingIn
<1> QED BY <1>1, <1>2, <1>3, <1>4, <1>5, <1>6, <1>7 DEF Inv

(* Switched keeps the invariant.                                           *)
LEMMA SwitchedKeeps ==
  ASSUME Inv, Switched
  PROVE  Inv'
<1>1. TypeOK'
  <2>1. CASE StillWanted
    BY <2>1 DEF Inv, TypeOK, Switched
  <2>2. CASE ~StillWanted
    <3>1. active = {}
      BY DEF Inv, Stand, Switched
    <3>2. /\ background' \in {"running", "paused", "draining"} /\ draining' \in BOOLEAN
          /\ observed' \subseteq Request
      BY <2>2, Resolved DEF Inv, Switched, EndPump
    <3>3. /\ state' \in {"ready", "running", "switching"} \cup Stopped
          /\ hot' \subseteq Key /\ pump' = "idle" /\ job' = job /\ active' = {}
          /\ UNCHANGED <<closing, fallbackUsed, outcome, scheduled>>
      BY <2>2 DEF Inv, TypeOK, Switched, EndPump, CheckDrains, Stopped
    <3> QED BY <3>1, <3>2, <3>3 DEF Inv, TypeOK
  <2> QED BY <2>1, <2>2
<1>2. Stand'
  <2>1. state \in {"switching", "closed"} /\ active = {} /\ ~scheduled /\ UNCHANGED scheduled
    BY DEF Inv, TypeOK, Stand, Switched
  <2>2. CASE StillWanted
    BY <2>1, <2>2 DEF Switched, Stand
  <2>3. CASE ~StillWanted
    <3>1. state = "closed"
      BY <2>1, <2>3 DEF StillWanted, Inv, Shut, Stopped
    <3> QED BY <2>3, <3>1 DEF Switched, EndPump, CheckDrains, Stand
  <2> QED BY <2>2, <2>3
<1>3. WaiterHasJob'
  BY DEF Inv, Switched, EndPump, CheckDrains, Closes, Resolve, WaitingIn,
     TypeOK, Job, Stopped, WaiterHasJob, NoJob
<1>4. NoLostWakeup'
  BY DEF Inv, Switched, StillWanted, EndPump, CheckDrains, Job, Stopped,
     NoLostWakeup, Stand, Candidates, Eligible, UrgentLookup, Urgent, NoJob,
     Shut
<1>5. PromisesPending'
  BY DEF Inv, Switched, StillWanted, EndPump, CheckDrains, Closes, Resolve,
     WaitingIn, TypeOK, Job, Stopped, PromisesPending, WaiterHasJob, Stand,
     Consumers, Jobs, NoJob, Shut
<1>6. CachedIsServed'
  BY DEF Inv, Switched, EndPump, CheckDrains, Closes, Resolve, WaitingIn,
     TypeOK, Job, Stopped, CachedIsServed, Jobs, NoJob
<1>7. Shut'
  BY DEF Inv, Switched, StillWanted, EndPump, CheckDrains, WaitingIn, TypeOK,
     Job, Stopped, Shut, Stand, Consumers, Jobs, NoJob, WaiterHasJob
<1> QED BY <1>1, <1>2, <1>3, <1>4, <1>5, <1>6, <1>7 DEF Inv

(* PauseBackground keeps the invariant.                                    *)
LEMMA PauseBackgroundKeeps ==
  ASSUME Inv, PauseBackground
  PROVE  Inv'
<1>1. TypeOK'
  BY DEF Inv, PauseBackground, machine, TypeOK
<1>2. Stand'
  BY DEF Inv, PauseBackground, machine, Stand, NoJob
<1>3. WaiterHasJob'
  BY DEF Inv, PauseBackground, WaiterHasJob
<1>4. NoLostWakeup'
  BY DEF Inv, PauseBackground, machine, NoLostWakeup, Candidates, Eligible,
     UrgentLookup, Urgent, NoJob, Shut
<1>5. PromisesPending'
  BY DEF Inv, PauseBackground, machine, Stopped, PromisesPending, WaiterHasJob,
     Stand, Consumers, Jobs, WaitingIn, NoJob, Shut
<1>6. CachedIsServed'
  BY DEF Inv, PauseBackground, CachedIsServed, Jobs
<1>7. Shut'
  BY DEF Inv, PauseBackground, Stopped, Shut, Stand, Consumers, Jobs, NoJob,
     WaiterHasJob, WaitingIn
<1> QED BY <1>1, <1>2, <1>3, <1>4, <1>5, <1>6, <1>7 DEF Inv

(* ResumeBackground keeps the invariant.                                   *)
LEMMA ResumeBackgroundKeeps ==
  ASSUME Inv, ResumeBackground
  PROVE  Inv'
<1>1. TypeOK'
  BY DEF Inv, ResumeBackground, Kick, TypeOK
<1>2. Stand'
  BY DEF Inv, ResumeBackground, Kick, Stand, NoJob
<1>3. WaiterHasJob'
  BY DEF Inv, ResumeBackground, WaiterHasJob
<1>4. NoLostWakeup'
  BY DEF Inv, ResumeBackground, Kick, NoLostWakeup, Stand, Shut
<1>5. PromisesPending'
  BY DEF Inv, ResumeBackground, PromisesPending, WaiterHasJob, Stand,
     Consumers, Jobs, WaitingIn, NoJob, Shut
<1>6. CachedIsServed'
  BY DEF Inv, ResumeBackground, CachedIsServed, Jobs
<1>7. Shut'
  BY DEF Inv, ResumeBackground, Shut, Stand, Consumers, Jobs, NoJob,
     WaiterHasJob, WaitingIn
<1> QED BY <1>1, <1>2, <1>3, <1>4, <1>5, <1>6, <1>7 DEF Inv

(* DrainBackground keeps the invariant.                                    *)
LEMMA DrainBackgroundKeeps ==
  ASSUME Inv, DrainBackground
  PROVE  Inv'
<1>1. TypeOK'
  BY DEF Inv, DrainBackground, Kick, CheckDrains, Resolve, WaitingIn, TypeOK,
     Job, Stopped, NoJob
<1>2. Stand'
  BY DEF Inv, DrainBackground, Kick, CheckDrains, TypeOK, Job, Stopped, Stand,
     NoJob
<1>3. WaiterHasJob'
  BY DEF Inv, DrainBackground, CheckDrains, TypeOK, Job, Stopped, WaiterHasJob,
     NoJob
<1>4. NoLostWakeup'
  BY DEF Inv, DrainBackground, Kick, CheckDrains, Stopped, NoLostWakeup, Stand,
     Candidates, Eligible, UrgentLookup, Urgent, NoJob, Shut
<1>5. PromisesPending'
  BY DEF Inv, DrainBackground, CheckDrains, Resolve, WaitingIn, TypeOK, Job,
     Stopped, PromisesPending, WaiterHasJob, Stand, Consumers, Jobs, NoJob,
     Shut
<1>6. CachedIsServed'
  BY DEF Inv, DrainBackground, CheckDrains, CachedIsServed, Jobs, NoJob
<1>7. Shut'
  BY Limits DEF Inv, DrainBackground, CheckDrains, Closes, Resolve, WaitingIn,
     TypeOK, Job, Stopped, Shut, Stand, Consumers, Jobs, NoJob, WaiterHasJob
<1> QED BY <1>1, <1>2, <1>3, <1>4, <1>5, <1>6, <1>7 DEF Inv

(* Drain keeps the invariant.                                              *)
LEMMA DrainKeeps ==
  ASSUME Inv, Drain
  PROVE  Inv'
<1>1. TypeOK'
  BY DEF Inv, Drain, machine, Consumers, TypeOK
<1>2. Stand'
  BY DEF Inv, Drain, machine, Stand, NoJob
<1>3. WaiterHasJob'
  BY DEF Inv, Drain, WaiterHasJob
<1>4. NoLostWakeup'
  BY DEF Inv, Drain, machine, NoLostWakeup, Stand, Candidates, Eligible,
     UrgentLookup, Urgent, NoJob, Shut
<1>5. PromisesPending'
  BY DEF Inv, Drain, machine, Consumers, Job, Stopped, PromisesPending,
     WaiterHasJob, Stand, Jobs, WaitingIn, NoJob, Shut
<1>6. CachedIsServed'
  BY DEF Inv, Drain, CachedIsServed, Jobs
<1>7. Shut'
  BY DEF Inv, Drain, Shut
<1> QED BY <1>1, <1>2, <1>3, <1>4, <1>5, <1>6, <1>7 DEF Inv

(* ClearCache keeps the invariant.                                         *)
LEMMA ClearCacheKeeps ==
  ASSUME Inv, ClearCache
  PROVE  Inv'
<1>1. TypeOK'
  BY DEF Inv, ClearCache, modes, machine, TypeOK
<1>2. Stand'
  BY DEF Inv, ClearCache, modes, machine, Stand, NoJob
<1>3. WaiterHasJob'
  BY DEF Inv, ClearCache, WaiterHasJob
<1>4. NoLostWakeup'
  BY DEF Inv, ClearCache, modes, machine, NoLostWakeup, Stand, Candidates,
     Eligible, UrgentLookup, Urgent, NoJob, Shut
<1>5. PromisesPending'
  BY DEF Inv, ClearCache, modes, machine, Job, Stopped, PromisesPending,
     WaiterHasJob, Stand, Consumers, Jobs, WaitingIn, NoJob, Shut
<1>6. CachedIsServed'
  BY DEF ClearCache, CachedIsServed
<1>7. Shut'
  BY DEF Inv, ClearCache, modes, machine, Job, Stopped, Shut, Stand, Consumers,
     Jobs, NoJob, WaiterHasJob, WaitingIn
<1> QED BY <1>1, <1>2, <1>3, <1>4, <1>5, <1>6, <1>7 DEF Inv

(* ShutdownCancel keeps the invariant.                                     *)
LEMMA ShutdownCancelKeeps ==
  ASSUME Inv, ShutdownCancel
  PROVE  Inv'
<1>1. TypeOK'
  BY DEF Inv, ShutdownCancel, Become, Abandoned, Resolve, WaitingIn, TypeOK,
     Job, Stopped, NoJob
<1>2. Stand'
  BY DEF Inv, ShutdownCancel, Stand, NoJob
<1>3. WaiterHasJob'
  BY Limits DEF ShutdownCancel, Become, Consumers, Abandoned, TypeOK, Job,
     Stopped, WaiterHasJob, NoJob
<1>4. NoLostWakeup'
  BY DEF ShutdownCancel, Stopped, NoLostWakeup, Stand, Candidates, Eligible,
     UrgentLookup, Urgent, NoJob, Shut
<1>5. PromisesPending'
  <2>1. PICK bg, pending : Resolve(job', bg, pending)
    BY DEF ShutdownCancel
  <2>2. \A r \in Request : outcome[r] # "new" => outcome'[r] # "new"
    BY DEF Inv, TypeOK, ShutdownCancel, Become
  <2>3. /\ observed' \subseteq {r \in Request : outcome'[r] # "new"}
        /\ observed' # {} => observed' \cap Consumers' # {}
        /\ draining' => \E r \in Consumers' : r \notin Interactive
    BY <1>1, <1>3, <2>1, <2>2, Drained DEF Inv, PromisesPending
  <2> QED BY <2>3 DEF PromisesPending, ShutdownCancel
<1>6. CachedIsServed'
  BY DEF ShutdownCancel, CachedIsServed
<1>7. Shut'
  BY DEF Inv, ShutdownCancel, Become, Consumers, Abandoned, Resolve, WaitingIn,
     TypeOK, Job, Stopped, Shut, Stand, Jobs, NoJob, WaiterHasJob
<1> QED BY <1>1, <1>2, <1>3, <1>4, <1>5, <1>6, <1>7 DEF Inv

(* ShutdownDrain keeps the invariant.                                      *)
LEMMA ShutdownDrainKeeps ==
  ASSUME Inv, ShutdownDrain
  PROVE  Inv'
<1>1. TypeOK'
  BY DEF Inv, ShutdownDrain, Kick, CheckDrains, Resolve, WaitingIn, TypeOK,
     Job, Stopped, NoJob
<1>2. Stand'
  BY DEF Inv, ShutdownDrain, Kick, CheckDrains, TypeOK, Job, Stopped, Stand,
     NoJob
<1>3. WaiterHasJob'
  BY DEF Inv, ShutdownDrain, CheckDrains, TypeOK, Job, Stopped, WaiterHasJob,
     NoJob
<1>4. NoLostWakeup'
  BY DEF Inv, ShutdownDrain, Kick, CheckDrains, Stopped, NoLostWakeup, Stand,
     Candidates, Eligible, UrgentLookup, Urgent, NoJob, Shut
<1>5. PromisesPending'
  BY DEF Inv, ShutdownDrain, CheckDrains, Closes, Resolve, WaitingIn, TypeOK,
     Job, Stopped, PromisesPending, WaiterHasJob, Stand, Consumers, Jobs,
     NoJob, Shut
<1>6. CachedIsServed'
  BY DEF Inv, ShutdownDrain, CheckDrains, CachedIsServed, Jobs, NoJob
<1>7. Shut'
  BY Limits DEF Inv, ShutdownDrain, CheckDrains, Closes, Resolve, WaitingIn,
     TypeOK, Job, Stopped, Shut, Stand, Consumers, Jobs, NoJob, WaiterHasJob
<1> QED BY <1>1, <1>2, <1>3, <1>4, <1>5, <1>6, <1>7 DEF Inv

(* Skip keeps the invariant.                                               *)
LEMMA SkipKeeps ==
  ASSUME Inv, state \in Stopped, scheduled' = FALSE, pump = "idle",
         UNCHANGED <<modes, job, hot, pump, active, fallbackUsed, outcome>>
  PROVE  Inv'
<1>1. TypeOK'
  BY DEF Inv, modes, TypeOK
<1>2. Stand'
  BY DEF Inv, modes, Stand
<1>3. WaiterHasJob'
  BY DEF Inv, WaiterHasJob
<1>4. NoLostWakeup'
  BY DEF modes, NoLostWakeup
<1>5. PromisesPending'
  BY DEF Inv, modes, PromisesPending, Stand, Consumers, Jobs, WaitingIn, NoJob,
     Shut
<1>6. CachedIsServed'
  BY DEF Inv, CachedIsServed, Jobs
<1>7. Shut'
  BY DEF Inv, modes, Shut, Stand, Consumers, Jobs, NoJob, WaiterHasJob,
     WaitingIn
<1> QED BY <1>1, <1>2, <1>3, <1>4, <1>5, <1>6, <1>7 DEF Inv

(* A stuttering step keeps the invariant.                                  *)
LEMMA IdlesKeeps ==
  ASSUME Inv, UNCHANGED vars
  PROVE  Inv'
<1>1. TypeOK'
  BY DEF Inv, vars, modes, machine, TypeOK
<1>2. Stand'
  BY DEF Inv, vars, modes, machine, Stand, NoJob
<1>3. WaiterHasJob'
  BY DEF Inv, vars, WaiterHasJob
<1>4. NoLostWakeup'
  BY DEF Inv, vars, modes, machine, NoLostWakeup, Stand, Candidates, Eligible,
     UrgentLookup, Urgent, NoJob, Shut
<1>5. PromisesPending'
  BY DEF Inv, vars, modes, machine, Job, Stopped, PromisesPending,
     WaiterHasJob, Stand, Consumers, Jobs, WaitingIn, NoJob, Shut
<1>6. CachedIsServed'
  BY DEF Inv, vars, CachedIsServed, Jobs
<1>7. Shut'
  BY DEF Inv, vars, modes, machine, Job, Stopped, Shut, Stand, Consumers, Jobs,
     NoJob, WaiterHasJob, WaitingIn
<1> QED BY <1>1, <1>2, <1>3, <1>4, <1>5, <1>6, <1>7 DEF Inv

(* Every step keeps the invariant.                                         *)
LEMMA StepInv == ASSUME Inv, [Next]_vars PROVE Inv'
<1>1. ASSUME NEW r \in Request, Refuse(r) \/ ServeHot(r) \/ Enqueue(r) \/ Cancel(r) PROVE Inv'
  BY <1>1, RefuseKeeps, ServeHotKeeps, EnqueueKeeps, CancelKeeps
<1>2. ASSUME NEW k \in Key, Lookup(k) PROVE Inv'
  BY <1>2, MissKeeps, HitKeeps, UnwantedKeeps DEF Lookup
<1>3. CASE Start
  <2>1. scheduled /\ pump = "idle" /\ scheduled' = FALSE
    BY <1>3 DEF Start, Inv, Stand
  <2>2. CASE Dispatch \/ Exhaust
    BY <2>1, <2>2, DispatchKeeps, ExhaustKeeps
  <2>3. CASE state \in Stopped /\ UNCHANGED <<modes, job, hot, pump, active, fallbackUsed, outcome>>
    BY <2>1, <2>3, SkipKeeps
  <2> QED BY <1>3, <2>2, <2>3 DEF Start
<1>4. CASE Continue
  <2>1. pump = "yielding" /\ scheduled' = FALSE
    BY <1>4 DEF Continue, Inv, Stand, TypeOK
  <2> QED BY <1>4, <2>1, DispatchKeeps, ExhaustKeeps DEF Continue
<1>5. CASE Answer
  BY <1>5, DiscardKeeps, SucceedKeeps, FailBackendKeeps, RecoverKeeps DEF Answer, Fail
<1>6. CASE Fallback
  BY <1>6, SwitchedKeeps, FailBackendKeeps DEF Fallback, NotSwitched
<1>7. CASE PauseBackground \/ ResumeBackground \/ DrainBackground \/ Drain \/ ClearCache
  BY <1>7, PauseBackgroundKeeps, ResumeBackgroundKeeps, DrainBackgroundKeeps, DrainKeeps,
     ClearCacheKeeps
<1>8. CASE ShutdownCancel \/ ShutdownDrain
  BY <1>8, ShutdownCancelKeeps, ShutdownDrainKeeps
<1>9. CASE UNCHANGED vars
  BY <1>9, IdlesKeeps
<1> QED BY <1>1, <1>2, <1>3, <1>4, <1>5, <1>6, <1>7, <1>8, <1>9 DEF Next

(* The invariant holds of every reachable state.                           *)
THEOREM Invariance == Spec => []Inv
<1>1. Init => Inv
  BY InitInv
<1>2. Inv /\ [Next]_vars => Inv'
  BY StepInv
<1> QED BY <1>1, <1>2, PTL DEF Spec

(* State is typed, and the jobs that are active are those of the batch.    *)
THEOREM Typing == Spec => []TypeOK
<1>1. Inv => TypeOK
  BY DEF Inv
<1> QED BY <1>1, Invariance, PTL

(* No job is dropped under a consumer.                                     *)
THEOREM Waiters == Spec => []WaiterHasJob
<1>1. Inv => WaiterHasJob
  BY DEF Inv
<1> QED BY <1>1, Invariance, PTL

(* What can be dispatched has a pump that stands or is on its way.         *)
THEOREM Wakeups == Spec => []NoLostWakeup
<1>1. Inv => NoLostWakeup
  BY DEF Inv
<1> QED BY <1>1, Invariance, PTL

(* What has nothing left to wait for was resolved.                         *)
THEOREM Promises == Spec => []PromisesPending
<1>1. Inv => PromisesPending
  BY DEF Inv
<1> QED BY <1>1, Invariance, PTL

(* Nothing that is cached is inferred.                                     *)
THEOREM Caching == Spec => []CachedIsServed
<1>1. Inv => CachedIsServed
  BY DEF Inv
<1> QED BY <1>1, Invariance, PTL

(* Once cancelled, a scheduler has no consumer to serve and gets no job.   *)
LEMMA StaysShut ==
  ASSUME Inv, Inv', [Next]_vars, closing = "cancel"
  PROVE  /\ state' \in Stopped
         /\ hot' = {} /\ Jobs' \subseteq active'
         /\ \A r \in Request :
              outcome'[r] \notin {"waiting", "completed"} \/ outcome'[r] = outcome[r]
<1>1. /\ state \in Stopped /\ Consumers = {}
      /\ \A r \in Request : outcome[r] # "waiting" /\ \A k \in Key : r \notin job[k].waiting
  <2>1. state \in Stopped /\ Consumers = {}
    BY DEF Inv, Shut
  <2>2. \A r \in Request : outcome[r] # "waiting"
    BY <2>1 DEF Consumers
  <2> QED BY <2>1, <2>2 DEF Inv, WaiterHasJob
<1>2. closing' = "cancel"
  BY DEF Next, Refuse, ServeHot, Enqueue, Cancel, Lookup, Miss, Hit, Unwanted, Start, Continue,
     Dispatch, Exhaust, EndPump, Answer, Discard, Succeed, Fail, FailBackend, Recover, Fallback,
     Switched, NotSwitched, PauseBackground, ResumeBackground, DrainBackground, Drain, ClearCache,
     ShutdownCancel, ShutdownDrain, modes, vars
<1>3. state' \in Stopped /\ hot' = {} /\ Consumers' = {} /\ Jobs' \subseteq active'
  BY <1>2 DEF Inv, Shut
<1>4. \A r \in Request : outcome'[r] # "waiting"
  BY <1>3 DEF Consumers
<1>5. ASSUME NEW r \in Request, outcome'[r] # outcome[r] PROVE outcome'[r] # "completed"
  <2>1. ASSUME NEW q \in Request, Refuse(q) \/ ServeHot(q) \/ Enqueue(q) \/ Cancel(q)
        PROVE  outcome'[r] # "completed"
    BY <1>5, <2>1 DEF Refuse, ServeHot, Enqueue, Cancel, Become, Refused
  <2>2. ASSUME NEW k \in Key, Lookup(k) PROVE FALSE
    BY <1>1, <1>5, <2>2 DEF Lookup, Miss, Hit, Unwanted, Become, Inv, TypeOK
  <2>3. CASE Start \/ Continue
    BY <1>5, <2>3 DEF Start, Continue, Dispatch, Exhaust
  <2>4. CASE Answer \/ Fallback
    <3>1. CASE Succeed
      <4>1. UNION {job[k].waiting : k \in active} = {}
        BY <1>1 DEF Inv, TypeOK, Job
      <4>2. outcome'[r] = outcome[r]
        BY <3>1, <4>1 DEF Succeed, Become
      <4> QED BY <1>5, <4>2
    <3>2. CASE FailBackend
      BY <1>5, <3>2 DEF FailBackend, Become
    <3>3. CASE UNCHANGED outcome
      BY <1>5, <3>3
    <3> QED BY <2>4, <3>1, <3>2, <3>3
        DEF Answer, Fallback, Discard, Fail, Recover, Switched, NotSwitched
  <2>5. CASE \/ PauseBackground \/ ResumeBackground \/ DrainBackground \/ Drain \/ ClearCache
             \/ ShutdownDrain \/ UNCHANGED vars
    BY <1>5, <2>5 DEF PauseBackground, ResumeBackground, DrainBackground, Drain, ClearCache,
       ShutdownDrain, vars
  <2>6. CASE ShutdownCancel
    BY <2>6 DEF ShutdownCancel
  <2> QED BY <2>1, <2>2, <2>3, <2>4, <2>5, <2>6 DEF Next
<1> QED BY <1>3, <1>4, <1>5

(* A batch, a fallback or a lookup that answers after shutdown("cancel")   *)
(* brings nothing back.                                                    *)
THEOREM ShutsForGood == Spec => ClosedStaysShut
<1>1. Inv /\ Inv' /\ [Next]_vars =>
        [closing = "cancel" =>
           /\ state' \in Stopped
           /\ hot' = {} /\ Jobs' \subseteq active'
           /\ \A r \in Request :
                outcome'[r] \notin {"waiting", "completed"} \/ outcome'[r] = outcome[r]]_vars
  BY StaysShut
<1> QED BY <1>1, Invariance, PTL DEF Spec, ClosedStaysShut

-----------------------------------------------------------------------------
(* Progress.  TLC checks that requests are answered and a draining         *)
(* shutdown ends (RequestsAnswered, ShutdownEnds); here is the half of     *)
(* both that is about states: nothing is left waiting on nothing.          *)

(* Nobody waits for a scheduler that has stopped.                          *)
Quiet == state \in Stopped => Consumers = {}

(* A request begins to wait only for a scheduler that runs.                *)
LEMMA BeginsToWait ==
  ASSUME Inv, [Next]_vars, NEW r \in Request, outcome[r] # "waiting", outcome'[r] = "waiting"
  PROVE  state \notin Stopped /\ state' = state
<1>1. ASSUME NEW q \in Request, Refuse(q) \/ ServeHot(q) \/ Enqueue(q) \/ Cancel(q)
      PROVE  state \notin Stopped /\ state' = state
  BY <1>1 DEF Refuse, ServeHot, Enqueue, Cancel, Become, Refused, modes
<1>2. ASSUME NEW k \in Key, Lookup(k) PROVE FALSE
  BY <1>2 DEF Lookup, Miss, Hit, Unwanted, Become
<1>3. CASE Start \/ Continue
  BY <1>3 DEF Start, Continue, Dispatch, Exhaust
<1>4. CASE Answer \/ Fallback
  BY <1>4 DEF Answer, Fallback, Discard, Succeed, Fail, FailBackend, Recover, Switched,
     NotSwitched, Become
<1>5. CASE PauseBackground \/ ResumeBackground \/ DrainBackground \/ Drain \/ ClearCache
  BY <1>5 DEF PauseBackground, ResumeBackground, DrainBackground, Drain, ClearCache
<1>6. CASE ShutdownCancel \/ ShutdownDrain
  BY <1>6 DEF ShutdownCancel, ShutdownDrain, Become
<1> QED BY <1>1, <1>2, <1>3, <1>4, <1>5, <1>6 DEF Next, vars

(* A scheduler stops with its last job, or by answering everybody.         *)
LEMMA StopsEmpty ==
  ASSUME Inv, Inv', [Next]_vars, state \notin Stopped, state' \in Stopped
  PROVE  Consumers' = {}
<1>1. (\A k \in Key : job'[k].stage = "none") \/ \A r \in Request : outcome'[r] # "waiting"
  <2>1. ASSUME NEW q \in Request, Refuse(q) \/ ServeHot(q) \/ Enqueue(q) \/ Cancel(q)
        PROVE  \A k \in Key : job'[k].stage = "none"
    BY <2>1 DEF Refuse, ServeHot, Enqueue, Cancel, CheckDrains, Closes, modes
  <2>2. ASSUME NEW k \in Key, Lookup(k) PROVE \A j \in Key : job'[j].stage = "none"
    BY <2>2 DEF Lookup, Miss, Hit, Unwanted, CheckDrains, Closes, modes
  <2>3. CASE Start \/ Continue
    BY <2>3 DEF Start, Continue, Dispatch, Exhaust, EndPump, CheckDrains, Closes, Stopped
  <2>4. CASE FailBackend
    BY <2>4 DEF FailBackend, Become, Consumers
  <2>5. CASE Discard \/ Succeed \/ Recover \/ Switched
    BY <2>5 DEF Discard, Succeed, Recover, Switched, EndPump, CheckDrains, Closes, Stopped
  <2>6. CASE \/ PauseBackground \/ ResumeBackground \/ DrainBackground \/ Drain \/ ClearCache
             \/ ShutdownDrain
    BY <2>6 DEF PauseBackground, ResumeBackground, DrainBackground, Drain, ClearCache,
       ShutdownDrain, CheckDrains, Closes, modes
  <2>7. CASE ShutdownCancel
    BY <2>7 DEF ShutdownCancel, Become, Consumers
  <2> QED BY <2>1, <2>2, <2>3, <2>4, <2>5, <2>6, <2>7
      DEF Next, Answer, Fallback, Fail, NotSwitched, vars, modes
<1> QED BY <1>1, Limits DEF Inv, WaiterHasJob, Consumers

(* Every step keeps a stopped scheduler without consumers.                 *)
LEMMA QuietNext == ASSUME Inv, Inv', Quiet, [Next]_vars PROVE Quiet'
<1>1. CASE state \in Stopped
  BY <1>1, BeginsToWait DEF Quiet, Consumers
<1>2. CASE state \notin Stopped
  BY <1>2, StopsEmpty DEF Quiet
<1> QED BY <1>1, <1>2

(* A queued job that may run is dispatched or yields to a lookup.          *)
LEMMA EligibleIsDue ==
  ASSUME Inv, state \notin Stopped, NEW k \in Key, Eligible(k)
  PROVE  Due
<1>1. CASE UrgentLookup
  BY <1>1 DEF UrgentLookup, Due
<1>2. CASE ~UrgentLookup
  BY <1>2 DEF Candidates, Inv, NoLostWakeup, Due
<1> QED BY <1>1, <1>2

(* A job of any stage but "queued" has its step due.                       *)
LEMMA JobIsDue ==
  ASSUME Inv, NEW k \in Key, job[k].stage \in {"checking", "active"}
  PROVE  Due
BY DEF Inv, TypeOK, Stand, Due

(* No wake-up, answer or shutdown is lost between the calls of the service, *)
(* the cache, the executor and the fallback: whoever waits has a step of   *)
(* the scheduler to wait for, unless a pause holds it back, and a draining *)
(* shutdown has one until it closes (scheduler.ts, kick and checkDrains).  *)
THEOREM Progress == Spec => []NeverIdle
<1>1. Inv /\ Quiet => NeverIdle
  <2> SUFFICES ASSUME Inv, Quiet PROVE NeverIdle
    OBVIOUS
  <2>1. ASSUME NEW r \in Request, outcome[r] = "waiting", ~HeldBack(r) PROVE Due
    <3> DEFINE k == KeyOf[r]
    <3>1. k \in Key /\ r \in job[k].waiting /\ job[k].stage # "none"
      BY <2>1, Limits DEF Inv, WaiterHasJob
    <3>2. job[k].stage \in {"queued", "checking", "active"}
      BY <3>1 DEF Inv, TypeOK, Job
    <3>3. CASE job[k].stage = "queued"
      <4>1. state \notin Stopped
        BY <2>1 DEF Quiet, Consumers
      <4>2. Eligible(k)
        BY <2>1, <3>1, <3>3 DEF HeldBack, Eligible, Urgent
      <4> QED BY <3>1, <4>1, <4>2, EligibleIsDue
    <3> QED BY <3>1, <3>2, <3>3, JobIsDue
  <2>2. ASSUME closing = "drain", state # "closed", ~Due PROVE FALSE
    <3>1. PICK k \in Key : job[k].stage # "none"
      BY <2>2 DEF Inv, PromisesPending, Jobs, Due
    <3>2. job[k].stage = "queued"
      BY <2>2, <3>1, JobIsDue DEF Inv, TypeOK, Job
    <3>3. PICK r \in Request : r \in job[k].waiting /\ KeyOf[r] = k
      BY <3>2 DEF Inv, WaiterHasJob
    <3>4. state \notin Stopped
      BY <3>3 DEF Quiet, Consumers, Inv, WaiterHasJob
    <3>5. Eligible(k)
      BY <2>2, <3>2, <3>3 DEF Eligible
    <3> QED BY <2>2, <3>4, <3>5, EligibleIsDue
  <2> QED BY <2>1, <2>2 DEF NeverIdle
<1>2. Init => Quiet
  BY DEF Init, Quiet, Stopped
<1> QED BY <1>1, <1>2, QuietNext, InitInv, StepInv, PTL DEF Spec
=============================================================================
