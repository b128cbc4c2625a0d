------------------------- MODULE EmbeddingScheduler -------------------------
(***************************************************************************)
(* The scheduler of the embedding worker: requests for one text share a    *)
(* job, one batch owns the executor at a time.                             *)
(*                                                                         *)
(* packages/quixi-embed/src/scheduler/scheduler.ts                         *)
(*                                                                         *)
(* The program is one JavaScript thread: a step is what runs between two   *)
(* awaits of pump(), a call of the service, or the answer of a cache       *)
(* lookup.  A job is known by its key, which stands for role and text.     *)
(* The background priorities 1 to 4 are one class, within which ageing and *)
(* arrival may order jobs in any way; only the one class before the other  *)
(* is kept.  Texts, tokens and bytes are left out, as are the refusals     *)
(* that depend on nothing else.                                            *)
(***************************************************************************)
EXTENDS Naturals, FiniteSets

CONSTANTS
  Request, Key,
  KeyOf,        \* the job a request asks for
  Interactive,  \* requests of priority 0, the others are background
  HasStore,     \* a persistent cache is consulted before inference
  HasFallback,  \* a second backend may replace the first once
  Batch,        \* background jobs per dispatch
  MaxJobs, MaxConsumers, MaxPerJob, MaxHot  \* limits

ASSUME KeyAssumption == KeyOf \in [Request -> Key]
ASSUME KindAssumption == Interactive \subseteq Request /\ HasStore \in BOOLEAN /\ HasFallback \in BOOLEAN
ASSUME LimitAssumption == {Batch, MaxJobs, MaxConsumers, MaxPerJob, MaxHot} \subseteq Nat \ {0}

VARIABLES
  state, background,  \* as statistics() shows them
  closing,            \* mode of the shutdown
  draining,           \* drainBackground() has an unresolved promise
  observed,           \* consumers an unresolved drain() waits for
  job,                \* by key
  hot,                \* keys of the in-memory cache
  pump,               \* where pump() stands
  scheduled,          \* kick() has a pump on its way
  active,             \* the batch that owns the executor
  fallbackUsed,
  outcome             \* of every request

modes == <<state, background, closing, draining, observed>>
machine == <<pump, scheduled, active, fallbackUsed>>
vars == <<modes, job, hot, machine, outcome>>

Stopped == {"closed", "unavailable"}
Job == [stage : {"none", "queued", "checking", "active"}, checked : BOOLEAN, waiting : SUBSET Request]
NoJob == [stage |-> "none", checked |-> FALSE, waiting |-> {}]

(* Types, and what the fields of a job and of the pump say of each other.  *)
TypeOK ==
  /\ state \in {"ready", "running", "switching"} \cup Stopped
  /\ background \in {"running", "paused", "draining"}
  /\ closing \in {"none", "cancel", "drain"}
  /\ draining \in BOOLEAN
  /\ observed \subseteq Request
  /\ job \in [Key -> Job]
  /\ hot \subseteq Key
  /\ pump \in {"idle", "executing", "switching", "yielding"}
  /\ scheduled \in BOOLEAN
  /\ active \subseteq Key
  /\ fallbackUsed \in BOOLEAN
  /\ outcome \in [Request -> {"new", "waiting", "refused", "completed", "failed", "cancelled"}]
  /\ \A k \in Key : job[k].stage = "active" <=> k \in active

Init ==
  /\ state = "ready" /\ background = "running" /\ closing = "none"
  /\ draining = FALSE /\ observed = {}
  /\ job = [k \in Key |-> NoJob]
  /\ hot = {}
  /\ pump = "idle" /\ scheduled = FALSE /\ active = {} /\ fallbackUsed = FALSE
  /\ outcome = [r \in Request |-> "new"]

Consumers == {r \in Request : outcome[r] = "waiting"}
Jobs == {k \in Key : job[k].stage # "none"}
Urgent(k) == job[k].waiting \cap Interactive # {}
Become(rs, what) == outcome' = [r \in Request |-> IF r \in rs THEN what ELSE outcome[r]]

-----------------------------------------------------------------------------
(* checkDrains(), for the jobs js the step leaves: the promises of drain(), *)
(* drainBackground() and shutdown("drain") resolve here and nowhere else.   *)
WaitingIn(js) == UNION {js[k].waiting : k \in Key}
Resolve(js, bg, pending) ==
  LET over == pending /\ WaitingIn(js) \subseteq Interactive
  IN /\ background' = IF over THEN "paused" ELSE bg
     /\ draining' = (pending /\ ~over)
     /\ observed' = IF observed \cap WaitingIn(js) = {} THEN {} ELSE observed
\* MUTANT: an empty queue does not close a draining scheduler.
NeverClose(js, batch, st) == FALSE
Closes(js, batch, st) ==
  /\ closing' = "drain"
  /\ \A k \in Key : js[k].stage = "none"
  /\ batch = {}
  /\ st # "switching"
CheckDrains(js, batch, st, cached) ==
  /\ job' = js
  /\ active' = batch
  /\ IF Closes(js, batch, st)
       THEN state' = "closed" /\ hot' = {}
       ELSE state' = st /\ hot' = cached

(* kick()                                                                  *)
Kick == scheduled' = (scheduled \/ (pump' = "idle" /\ state' \notin Stopped \cup {"switching"}))

(* putHot(): the least recently used entries make room.                    *)
Cached(ks) ==
  {h \in SUBSET (hot \cup ks) :
     IF Cardinality(hot \cup ks) <= MaxHot THEN h = hot \cup ks
     ELSE Cardinality(h) = MaxHot /\ (ks # {} => h \cap ks # {})}

-----------------------------------------------------------------------------
(* submit()                                                                *)
Refused(r) ==
  \/ closing # "none" \/ state \in Stopped
  \/ background = "draining" /\ r \notin Interactive
  \/ Cardinality(Consumers) >= MaxConsumers
  \/ IF KeyOf[r] \in Jobs THEN Cardinality(job[KeyOf[r]].waiting) >= MaxPerJob
     ELSE Cardinality(Jobs) >= MaxJobs
Refuse(r) ==
  /\ outcome[r] = "new" /\ Refused(r)
  /\ Become({r}, "refused")
  /\ UNCHANGED <<modes, job, hot, machine>>

ServedHot(r) == KeyOf[r] \in hot /\ job[KeyOf[r]].stage \in {"none", "queued"}
ServeHot(r) ==
  /\ outcome[r] = "new" /\ ~Refused(r) /\ ServedHot(r)
  /\ Become(job[KeyOf[r]].waiting \cup {r}, "completed")
  /\ UNCHANGED <<closing, pump, scheduled, fallbackUsed>>
  /\ LET js == [job EXCEPT ![KeyOf[r]] = NoJob]
     IN CheckDrains(js, active, state, hot) /\ Resolve(js, background, draining)

NewJob == [stage |-> "queued", checked |-> ~HasStore, waiting |-> {}]
Enqueue(r) ==
  /\ outcome[r] = "new" /\ ~Refused(r) /\ ~ServedHot(r)
  /\ Become({r}, "waiting")
  /\ LET j == IF KeyOf[r] \in Jobs THEN job[KeyOf[r]] ELSE NewJob
     IN job' = [job EXCEPT ![KeyOf[r]] = [j EXCEPT !.waiting = @ \cup {r}]]
  /\ UNCHANGED <<modes, hot, pump, active, fallbackUsed>>
  /\ Kick

(* cancel(), also by the request's abort signal: a queued job nobody waits *)
(* for is dropped, one being looked up or inferred runs on.                *)
\* MUTANT: the job is dropped while others wait for it.
LeaveAndDrop(j, r) == IF j.stage = "queued" THEN NoJob ELSE [j EXCEPT !.waiting = @ \ {r}]
Leave(j, r) ==
  IF j.stage = "queued" /\ j.waiting \subseteq {r} THEN NoJob ELSE [j EXCEPT !.waiting = @ \ {r}]
Cancel(r) ==
  /\ outcome[r] = "waiting"
  /\ Become({r}, "cancelled")
  /\ UNCHANGED <<closing, pump, fallbackUsed>>
  /\ LET js == [job EXCEPT ![KeyOf[r]] = Leave(@, r)]
     IN CheckDrains(js, active, state, hot) /\ Resolve(js, background, draining)
  /\ Kick

-----------------------------------------------------------------------------
(* The answer of a cache lookup; one that fails, finds no permit or takes  *)
(* longer than storeTimeoutMs is a miss.  A job leaves "checking" only     *)
(* here, by shutdown or by failBackend, after which it is not known.       *)
\* MUTANT: a miss that finds the pump idle does not wake it.
NoKick == scheduled' = scheduled
KickAfterMiss == Kick
Miss(k) ==
  /\ job[k].stage = "checking" /\ job[k].waiting # {}
  /\ job' = [job EXCEPT ![k].stage = "queued", ![k].checked = TRUE]
  /\ UNCHANGED <<modes, hot, pump, active, fallbackUsed, outcome>>
  /\ KickAfterMiss
Hit(k) ==
  /\ job[k].stage = "checking" /\ job[k].waiting # {}
  /\ Become(job[k].waiting, "completed")
  /\ UNCHANGED <<closing, pump, fallbackUsed>>
  /\ \E h \in Cached({k}) :
       LET js == [job EXCEPT ![k] = NoJob]
       IN CheckDrains(js, active, state, h) /\ Resolve(js, background, draining)
  /\ Kick
Unwanted(k) ==
  /\ job[k].stage = "checking" /\ job[k].waiting = {}
  /\ UNCHANGED <<closing, pump, fallbackUsed, outcome>>
  /\ LET js == [job EXCEPT ![k] = NoJob]
     IN CheckDrains(js, active, state, hot) /\ Resolve(js, background, draining)
  /\ Kick
Lookup(k) == Miss(k) \/ Hit(k) \/ Unwanted(k)

-----------------------------------------------------------------------------
(* candidates(): background waits while an interactive lookup is out.      *)
\* MUTANT: a paused scheduler holds interactive work back as well.
EligibleUnlessPaused(k) ==
  /\ job[k].stage = "queued" /\ job[k].waiting # {}
  /\ background # "paused" \/ closing = "drain"
\* MUTANT: a pause holds background work back during a draining shutdown.
EligibleWhileOpen(k) ==
  /\ job[k].stage = "queued" /\ job[k].waiting # {}
  /\ background # "paused" \/ Urgent(k)
Eligible(k) ==
  /\ job[k].stage = "queued" /\ job[k].waiting # {}
  /\ background # "paused" \/ Urgent(k) \/ closing = "drain"
UrgentLookup == \E k \in Key : job[k].stage = "checking" /\ Urgent(k)
Candidates == {k \in Key : Eligible(k) /\ (UrgentLookup => Urgent(k))}
Front ==
  LET urgent == {k \in Candidates : Urgent(k)}
  IN IF urgent # {} THEN urgent ELSE Candidates
Batches(ks) ==
  {b \in SUBSET ks : b # {} /\ Cardinality(b) <= (IF \E k \in ks : Urgent(k) THEN 1 ELSE Batch)}

(* One turn of the loop of pump(): candidates before the first one already *)
(* looked up are sent to the cache, that one is dispatched; when there is  *)
(* none the pump ends.                                                     *)
Sent(ks) == [k \in Key |-> IF k \in ks THEN [job[k] EXCEPT !.stage = "checking"] ELSE job[k]]
Ready == {k \in Front : job[k].checked}
Dispatch ==
  /\ state \notin Stopped
  /\ \E b \in Batches(Ready), ks \in SUBSET (Front \ Ready) :
       /\ job' = [k \in Key |-> IF k \in b THEN [job[k] EXCEPT !.stage = "active"] ELSE Sent(ks)[k]]
       /\ active' = b
  /\ state' = "running" /\ pump' = "executing"
  /\ UNCHANGED <<background, closing, draining, observed, hot, fallbackUsed, outcome>>
EndPump(js, st) ==
  /\ UNCHANGED <<closing, fallbackUsed>>
  /\ CheckDrains(js, {}, st, hot) /\ Resolve(js, background, draining)
  /\ pump' = "idle"
Exhaust ==
  /\ state \in Stopped \/ Ready = {}
  /\ EndPump(IF state \in Stopped THEN job ELSE Sent(Front), state)
  /\ UNCHANGED outcome

Start ==
  /\ scheduled /\ scheduled' = FALSE
  /\ \/ state \in Stopped /\ UNCHANGED <<modes, job, hot, pump, active, fallbackUsed, outcome>>
     \/ state \notin Stopped /\ (Dispatch \/ Exhaust)
Continue ==
  /\ pump = "yielding"
  /\ Dispatch \/ Exhaust
  /\ UNCHANGED scheduled

-----------------------------------------------------------------------------
(* The executor answers.  After shutdown("cancel") the batch is dropped.   *)
Without(ks) == [k \in Key |-> IF k \in ks THEN NoJob ELSE job[k]]
Late == state = "closed"
Discard ==
  /\ pump = "executing" /\ Late
  /\ EndPump(Without(active), state)
  /\ UNCHANGED <<scheduled, outcome>>
Succeed ==
  /\ pump = "executing" /\ ~Late
  /\ Become(UNION {job[k].waiting : k \in active}, "completed")
  /\ UNCHANGED <<closing, scheduled, fallbackUsed>>
  /\ \E h \in Cached({k \in active : job[k].waiting # {}}) :
       CheckDrains(Without(active), {}, "ready", h) /\ Resolve(Without(active), background, draining)
  /\ pump' = "yielding"

(* failBackend() answers everybody; nothing looks at a scheduler that was  *)
(* closed meanwhile, which becomes unavailable.                            *)
FailBackend ==
  /\ Become(Consumers, "failed")
  /\ EndPump([k \in Key |-> NoJob], "unavailable")
  /\ UNCHANGED scheduled
Fail ==
  /\ pump = "executing" /\ ~Late
  /\ FailBackend
\* MUTANT: the failed batch keeps its state.
KeepBatch == job
Requeued ==
  [k \in Key |-> IF k \notin active THEN job[k]
                 ELSE IF job[k].waiting = {} THEN NoJob ELSE [job[k] EXCEPT !.stage = "queued"]]
Recover ==
  /\ pump = "executing" /\ ~Late
  /\ HasFallback /\ ~fallbackUsed
  /\ fallbackUsed' = TRUE
  /\ state' = "switching" /\ pump' = "switching"
  /\ job' = Requeued
  /\ active' = {}
  /\ UNCHANGED <<background, closing, draining, observed, hot, scheduled, outcome>>
\* MUTANT: a closed scheduler takes the new backend.
AlwaysSwitch == TRUE
StillWanted == state # "closed" /\ closing # "cancel"
Switched ==
  /\ pump = "switching"
  /\ IF StillWanted
       THEN state' = "ready" /\ pump' = "yielding"
            /\ UNCHANGED <<background, closing, draining, observed, job, hot, active, fallbackUsed>>
       ELSE EndPump(job, state)
  /\ UNCHANGED <<scheduled, outcome>>
NotSwitched == pump = "switching" /\ FailBackend
Answer == Discard \/ Succeed \/ Fail \/ Recover
Fallback == Switched \/ NotSwitched

-----------------------------------------------------------------------------
(* Calls of the service.                                                   *)
PauseBackground ==
  /\ state # "closed"
  /\ background' = "paused"
  /\ UNCHANGED <<state, closing, draining, observed, job, hot, machine, outcome>>
ResumeBackground ==
  /\ state # "closed"
  /\ background' = IF draining THEN "draining" ELSE "running"
  /\ UNCHANGED <<state, closing, draining, observed, job, hot, pump, active, fallbackUsed, outcome>>
  /\ Kick
DrainBackground ==
  /\ state # "closed" /\ ~draining
  /\ UNCHANGED <<closing, pump, fallbackUsed, outcome>>
  /\ CheckDrains(job, active, state, hot) /\ Resolve(job, "draining", TRUE)
  /\ Kick
(* One observer at a time; the code keeps up to 64.                        *)
Drain ==
  /\ observed = {} /\ Consumers # {}
  /\ observed' = Consumers
  /\ UNCHANGED <<state, background, closing, draining, job, hot, machine, outcome>>
ClearCache ==
  /\ hot' = {}
  /\ UNCHANGED <<modes, job, machine, outcome>>

Abandoned ==
  [k \in Key |-> IF job[k].stage = "active" THEN [job[k] EXCEPT !.waiting = {}] ELSE NoJob]
ShutdownCancel ==
  /\ closing = "none"
  /\ closing' = "cancel"
  /\ Become(Consumers, "cancelled")
  /\ job' = Abandoned
  /\ state' = "closed" /\ hot' = {}
  /\ Resolve(Abandoned, background, draining)
  /\ scheduled' = (scheduled \/ (Consumers # {} /\ pump = "idle" /\ state \notin Stopped))
  /\ UNCHANGED <<pump, active, fallbackUsed>>
ShutdownDrain ==
  /\ closing = "none"
  /\ closing' = "drain"
  /\ CheckDrains(job, active, state, hot) /\ Resolve(job, "running", draining)
  /\ UNCHANGED <<pump, fallbackUsed, outcome>>
  /\ Kick

Next ==
  \/ \E r \in Request : Refuse(r) \/ ServeHot(r) \/ Enqueue(r) \/ Cancel(r)
  \/ \E k \in Key : Lookup(k)
  \/ Start \/ Continue \/ Answer \/ Fallback
  \/ PauseBackground \/ ResumeBackground \/ DrainBackground \/ Drain \/ ClearCache
  \/ ShutdownCancel \/ ShutdownDrain

(* A task that was scheduled runs, a lookup has a timeout, and execute()   *)
(* and fallback() end.                                                     *)
Fairness ==
  /\ WF_vars(Start) /\ WF_vars(Continue) /\ WF_vars(Answer) /\ WF_vars(Fallback)
  /\ \A k \in Key : WF_vars(Lookup(k))
Spec == Init /\ [][Next]_vars /\ Fairness

-----------------------------------------------------------------------------
(* Whoever waits has a job that knows it, and jobs know nobody else: no    *)
(* job is dropped under a consumer by cancel, close, fallback or failure.  *)
WaiterHasJob ==
  /\ \A r \in Request : outcome[r] = "waiting" <=> r \in job[KeyOf[r]].waiting
  /\ \A k \in Key : /\ job[k].waiting \subseteq {r \in Request : KeyOf[r] = k}
                    /\ job[k].stage = "none" => job[k].waiting = {}
                    /\ job[k].stage = "queued" => job[k].waiting # {}

(* No wake-up is lost: while something can be dispatched, a pump runs or   *)
(* is on its way.                                                          *)
NoLostWakeup ==
  Candidates # {} /\ state \notin Stopped => scheduled \/ pump # "idle"

(* No wake-up, answer or shutdown is lost: whoever waits, and a draining   *)
(* shutdown until it closes, has a step of the scheduler to wait for: a    *)
(* pump that is on its way, has its turn or its batch to end, or a lookup  *)
(* the cache owes.  Only a pause may hold background requests back.        *)
Due == scheduled \/ pump # "idle" \/ \E k \in Key : job[k].stage = "checking"
HeldBack(r) == r \notin Interactive /\ background = "paused" /\ closing # "drain"
NeverIdle ==
  /\ \A r \in Request : outcome[r] = "waiting" => Due \/ HeldBack(r)
  /\ closing = "drain" /\ state # "closed" => Due

(* An unresolved promise of drain(), drainBackground() or shutdown() still *)
(* has something to wait for.                                              *)
PromisesPending ==
  /\ observed \subseteq {r \in Request : outcome[r] # "new"}
  /\ observed # {} => observed \cap Consumers # {}
  /\ draining => \E r \in Consumers : r \notin Interactive
  /\ closing = "drain" /\ state # "closed" => Jobs # {} \/ pump # "idle"

(* A key whose vector is in memory has no job: it is never inferred again  *)
(* while it is cached.                                                     *)
CachedIsServed == hot \cap Jobs = {}

(* A closed scheduler is not brought back by a batch or a fallback that    *)
(* answers late; nobody waits and nothing is cached, and nobody is served. *)
ClosedStaysShut ==
  [][closing = "cancel" =>
       /\ state' \in Stopped
       /\ hot' = {} /\ Jobs' \subseteq active'
       /\ \A r \in Request : outcome'[r] \notin {"waiting", "completed"} \/ outcome'[r] = outcome[r]]_vars

(* Interactive requests are answered whatever is paused, and background    *)
(* ones unless background is paused; a draining shutdown closes.           *)
RequestsAnswered ==
  \A r \in Request :
    outcome[r] = "waiting" ~> outcome[r] # "waiting" \/ (r \notin Interactive /\ background = "paused")
ShutdownEnds == closing = "drain" ~> state = "closed"
=============================================================================
