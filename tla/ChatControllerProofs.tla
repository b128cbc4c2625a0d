------------------------- MODULE ChatControllerProofs -------------------------
(***************************************************************************)
(* Theorems about ChatController for any number of operations and changes. *)
(***************************************************************************)
EXTENDS ChatController, TLAPS

(* What is unfinished belongs to the operation that waits for it; without  *)
(* a comparison one attempt follows the other; compared runs are known.    *)
Phases ==
  /\ step # "attempts" => \A a \in Attempt : ~Unfinished(a)
  /\ step \in {"viewing", "reading", "saving"} => \A a \in Attempt : att[a].pc = "none"
  /\ step = "deciding" => att[2].pc = "none"
  /\ \A a \in runs : Running(a)
  /\ Ordinary => ~(Unfinished(1) /\ Unfinished(2))
  /\ Compared /\ step = "attempts" => \A a \in Attempt : Running(a) => a \in runs
Registered == Ordinary => \A a \in Attempt : Running(a) => run = a

(* A stop outlives nothing but its operation.                              *)
Halts == op # "none" /\ halted => Halting

(* The revision that an ordinary first attempt expects counts the changes  *)
(* the other tab has made since the operation saw the conversation.        *)
Unselected == {"view", "lease", "create", "select"}
Reviewed ==
  /\ SentAsReviewed
  /\ Ordinary =>
       /\ step \in {"reading", "saving"} => thread.revision - mine.revision = foreign - begun
       /\ att[1].pc \in Unselected => thread.revision - att[1].seen = foreign - begun
       /\ att[1].pc \in Unselected \cup {"none"} => ~att[1].sent

(* An operation changes the conversation at most three times.              *)
Owes(a) == IF op # "none" /\ att[a].pc \in Unselected \cup {"none"} THEN 1 ELSE 0
OwesTurn == IF step \in {"viewing", "reading", "saving"} THEN 1 ELSE 0
Budget ==
  /\ thread.revision + OwesTurn + Owes(1) + Owes(2) <= 3 * ops + foreign
  /\ thread.context <= foreign /\ thread.policy <= foreign

Inv == TypeOK /\ Phases /\ Registered /\ Reviewed /\ Halts /\ Budget
-----------------------------------------------------------------------------
(* An attempt that has not begun is a record of the type.                  *)
LEMMA NoAttemptType == NoAttempt \in Record
<1>1. 0 \in 0 .. MaxRevision /\ 0 \in 0 .. MaxForeign
  BY BoundAssumption DEF MaxRevision
<1> QED BY <1>1 DEF NoAttempt, Record

(* The invariant holds at the start.                                       *)
LEMMA InitInv == ASSUME Init PROVE Inv
<1>1. TypeOK
  <2>1. /\ 0 \in 0 .. MaxRevision /\ 0 \in 0 .. MaxForeign /\ 0 \in 0 .. MaxOps
    BY BoundAssumption DEF MaxRevision
  <2>2. thread \in Thread /\ mine \in Thread
    BY <2>1 DEF Init, Thread
  <2>3. att \in [Attempt -> Record] /\ \A a \in Attempt : att[a].pc = "none"
    BY NoAttemptType DEF Init, NoAttempt
  <2> QED BY <2>1, <2>2, <2>3 DEF Init, TypeOK
<1>2. Phases
  BY DEF Init, NoAttempt, Unfinished, TypeOK, Phases, Attempt, Over, Started
<1>3. Registered
  BY DEF Init, Ordinary, TypeOK, Phases, Registered, Attempt, Over, Started
<1>4. Reviewed
  BY DEF Init, Ordinary, Phases, Reviewed, SentAsReviewed, Unselected, Attempt,
     Over, Started, Thread, Record
<1>5. Halts
  BY DEF Init, Halts
<1>6. Budget
  BY DEF Init, Budget, Owes, OwesTurn, Unselected, Thread, Record, Attempt,
     Over, Started
<1> QED BY <1>1, <1>2, <1>3, <1>4, <1>5, <1>6 DEF Inv

(* The revision has room for a change that is owed.                        *)
LEMMA Room ==
  ASSUME Inv,
         \/ step \in {"reading", "saving"}
         \/ op # "none" /\ \E a \in Attempt : att[a].pc \in Unselected
         \/ foreign < MaxForeign
  PROVE  thread.revision + 1 \in 0 .. MaxRevision
<1> USE BoundAssumption
<1>1. /\ thread.revision \in Nat /\ MaxRevision = 3 * MaxOps + MaxForeign
      /\ ops \in Nat /\ ops <= MaxOps /\ foreign \in Nat /\ foreign <= MaxForeign
  BY DEF Inv, TypeOK, Thread, MaxRevision
<1>2. /\ OwesTurn \in {0, 1} /\ Owes(1) \in {0, 1} /\ Owes(2) \in {0, 1}
      /\ thread.revision + OwesTurn + Owes(1) + Owes(2) <= 3 * ops + foreign
  BY DEF Inv, Budget, Owes, OwesTurn
<1>3. foreign < MaxForeign \/ OwesTurn + Owes(1) + Owes(2) >= 1
  <2>1. CASE step \in {"reading", "saving"}
    BY <2>1, <1>2 DEF OwesTurn
  <2>2. CASE op # "none" /\ \E a \in Attempt : att[a].pc \in Unselected
    <3>1. Owes(1) = 1 \/ Owes(2) = 1
      BY <2>2 DEF Attempt, Owes
    <3> QED BY <3>1, <1>2
  <2> QED BY <2>1, <2>2
<1> QED BY <1>1, <1>2, <1>3

(* What Launch makes of the attempts.                                      *)
LEMMA Launched ==
  ASSUME TypeOK, NEW S \in SUBSET Attempt, NEW n \in 0 .. MaxRevision, Launch(S, n)
  PROVE  /\ step' = "attempts" /\ att' \in [Attempt -> Record]
         /\ \A a \in S : att'[a].pc = "view" /\ att'[a].seen = n /\ ~att'[a].sent
         /\ \A a \in Attempt \ S : att'[a] = att[a]
<1>1. [NoAttempt EXCEPT !.pc = "view", !.seen = n] \in Record
  BY NoAttemptType DEF Record
<1>2. /\ [NoAttempt EXCEPT !.pc = "view", !.seen = n].pc = "view"
      /\ [NoAttempt EXCEPT !.pc = "view", !.seen = n].seen = n
      /\ ~[NoAttempt EXCEPT !.pc = "view", !.seen = n].sent
  BY NoAttemptType DEF Record, NoAttempt
<1>3. att \in [Attempt -> Record]
  BY DEF TypeOK
<1> QED BY <1>1, <1>2, <1>3 DEF Launch

(* What a step of an attempt leaves alone, and where it takes the attempt. *)
Moved(a) ==
  /\ \A b \in Attempt \ {a} : att'[b] = att[b]
  /\ Unfinished(a) /\ op' = op /\ step' = step
  /\ \/ att'[a].pc \in Over /\ runs' = runs \ {a} /\ run' = run
     \/ att'[a].pc = "lease" /\ ~Running(a) /\ runs' = runs /\ run' = run
     \/ att'[a].pc \in Started /\ Running(a) /\ runs' = runs /\ run' = run
     \/ att'[a].pc \in Started /\ Registers(a)

(* An attempt that moves, registering its run or leaving it, keeps the     *)
(* phases and the registration of the running ones.                        *)
LEMMA MovedPhases ==
  ASSUME Inv, NEW a \in Attempt, Moved(a)
  PROVE  Phases' /\ Registered'
<1>1. a \in runs => Running(a)
  BY DEF Inv, Phases
<1>2. step = "attempts" /\ step' = "attempts" /\ op' = op
  BY DEF Inv, Phases, Moved
<1>3. \A b \in runs' : Running(b)'
  <2> SUFFICES ASSUME NEW b \in runs' PROVE Running(b)'
    OBVIOUS
  <2>1. b \in Attempt /\ (b # a => b \in runs)
    BY DEF Inv, TypeOK, Moved, Registers
  <2>2. CASE b = a
    BY <2>2, <1>1 DEF Moved, Running
  <2>3. CASE b # a
    BY <2>1 DEF Inv, Phases, Moved, Running
  <2> QED BY <2>2, <2>3
<1>4. \A b \in Attempt : Unfinished(b)' => Unfinished(b)
  BY DEF Moved, Unfinished
<1>5. Compared' /\ step' = "attempts" => \A b \in Attempt : Running(b)' => b \in runs'
  <2> SUFFICES ASSUME Compared, NEW b \in Attempt, Running(b)' PROVE b \in runs'
    BY <1>2 DEF Compared
  <2>1. CASE b = a
    <3>1. att'[a].pc \in Started
      BY <2>1 DEF Running
    <3>2. Running(a) => a \in runs
      BY <1>2 DEF Inv, Phases
    <3> QED BY <2>1, <3>1, <3>2 DEF Moved, Registers, Over, Started
  <2>2. CASE b # a
    <3>1. b \in runs
      BY <2>2 DEF Inv, Phases, Moved, Running
    <3> QED BY <2>2, <3>1 DEF Moved, Registers
  <2> QED BY <2>1, <2>2
<1>6. Registered'
  <2> SUFFICES ASSUME Ordinary, NEW b \in Attempt, Running(b)' PROVE run' = b
    BY <1>2 DEF Registered, Ordinary
  <2>1. ~Compared
    BY DEF Ordinary, Compared
  <2>2. CASE b = a
    BY <2>1, <2>2 DEF Inv, Registered, Moved, Registers, Running, Over, Started
  <2>3. CASE b # a
    <3>1. Unfinished(a) /\ Running(b)
      BY <2>3 DEF Moved, Running
    <3>2. Unfinished(b)
      BY <3>1 DEF Running, Unfinished, Started, Over
    <3> QED BY <3>1, <3>2, <2>3 DEF Inv, Phases, Attempt
  <2> QED BY <2>2, <2>3
<1>7. Ordinary' => ~(Unfinished(1)' /\ Unfinished(2)')
  BY <1>2, <1>4 DEF Inv, Phases, Ordinary, Attempt
<1> QED BY <1>2, <1>3, <1>5, <1>6, <1>7 DEF Phases

(* Start keeps the invariant.                                              *)
LEMMA StartKeeps == ASSUME Inv, NEW kind \in {"send", "compare", "regenerate"}, Start(kind) PROVE Inv'
<1>1. TypeOK'
  <2>1. thread' \in Thread /\ mine' \in Thread
    BY DEF Inv, Start, Sees, TypeOK
  <2>2. att' \in [Attempt -> Record]
    BY BoundAssumption DEF Start, NoAttempt, Thread, Record, Attempt, Over,
       Started, Budget, Owes, OwesTurn, MaxRevision, Phases, Unfinished,
       Running
  <2>3. (op = "none" <=> step = "idle")'
    BY DEF Start
  <2>4. (op = "none" => runs = {} /\ \A b \in Attempt : att[b].pc \in Over \cup {"none"})'
    BY DEF Start
  <2>5. /\ op' \in {"none", "send", "compare", "regenerate"}
          /\ step' \in {"idle", "viewing", "reading", "saving", "attempts", "deciding"}
          /\ run' \in {0} \cup Attempt /\ runs' \subseteq Attempt
          /\ plan' \in BOOLEAN /\ pending' \in BOOLEAN
          /\ cancelled' \in BOOLEAN /\ disposed' \in BOOLEAN /\ halted' \in BOOLEAN
          /\ ops' \in 0 .. MaxOps /\ foreign' \in 0 .. MaxForeign /\ begun' \in 0 .. MaxForeign
    <3>1. plan' \in BOOLEAN
      BY Zenon DEF Start
    <3>2. /\ op' = kind /\ step' \in {"viewing", "reading"} /\ begun' \in {begun, foreign}
          /\ cancelled' = FALSE /\ halted' = FALSE
          /\ ops < MaxOps /\ ops' = ops + 1
          /\ UNCHANGED <<run, runs, disposed, pending, foreign>>
      BY DEF Start, Sees
    <3>3. ops' \in 0 .. MaxOps
      BY <3>2, BoundAssumption DEF Inv, TypeOK
    <3> QED BY <3>1, <3>2, <3>3 DEF Inv, TypeOK
  <2> QED BY <2>1, <2>2, <2>3, <2>4, <2>5 DEF TypeOK
<1>2. Phases'
  BY DEF Inv, Start, Idle, NoAttempt, TypeOK, Phases, Attempt, Over, Started,
     Unfinished, Running, Ordinary, Compared
<1>3. Registered'
  BY DEF Start, NoAttempt, Registered, Started, Unfinished, Running, Ordinary,
     Compared
<1>4. Reviewed'
  BY DEF Inv, Start, Sees, NoAttempt, TypeOK, Phases, Reviewed, SentAsReviewed,
     Unselected, Attempt, Over, Started, Thread, Record, Ordinary, Compared,
     Unfinished
<1>5. Halts'
  BY DEF Start, Halts
<1>6. Budget'
  BY DEF Inv, Start, TypeOK, Budget, Owes, OwesTurn, Unselected, Thread,
     Record, Attempt, Unfinished, Over, Started
<1> QED BY <1>1, <1>2, <1>3, <1>4, <1>5, <1>6 DEF Inv

(* ReadThread keeps the invariant.                                         *)
LEMMA ReadThreadKeeps == ASSUME Inv, ReadThread PROVE Inv'
<1>1. /\ step = "viewing" /\ step' \in {"idle", "reading"} /\ \A a \in Attempt : att[a].pc = "none"
      /\ UNCHANGED <<thread, plan, att, runs, cancelled, disposed, pending, ops, foreign, halted>>
  BY DEF Inv, Phases, ReadThread, Finish, Flags
<1>2. /\ mine' \in {mine, thread} /\ begun' \in {begun, foreign} /\ run' \in {0, run}
      /\ \/ op' = "none" /\ step' = "idle"
         \/ op' = op /\ step' = "reading" /\ mine' = thread /\ begun' = foreign
  BY DEF ReadThread, Finish, Sees
<1>3. op # "none" /\ runs = {}
  <2>1. runs \subseteq Attempt /\ \A a \in runs : Running(a)
    BY DEF Inv, TypeOK, Phases
  <2>. QED
    BY <1>1, <2>1 DEF Inv, TypeOK, Running, Started
<1>4. TypeOK'
  BY <1>1, <1>2, <1>3 DEF Inv, TypeOK
<1>5. Phases' /\ Registered'
  BY <1>1, <1>2, <1>3
  DEF Inv, Phases, Registered, Over, Started, Unfinished, Running, Ordinary, Compared
<1>6. Reviewed'
  <2>1. Ordinary' => att'[1].pc = "none" /\ ~att'[1].sent
    BY <1>1, <1>2 DEF Inv, Reviewed, Ordinary, Attempt
  <2>2. Ordinary' /\ step' = "reading" => (thread.revision - mine.revision = foreign - begun)'
    BY <1>1, <1>2 DEF Inv, TypeOK, Thread, Ordinary
  <2>. QED
    BY <1>1, <2>1, <2>2 DEF Reviewed, SentAsReviewed, Unselected
<1>7. Halts' /\ Budget'
  <2>1. Halts'
    BY <1>1, <1>2 DEF Inv, Halts, Halting
  <2>2. OwesTurn = 1 /\ OwesTurn' \in {0, 1} /\ Owes(1)' <= Owes(1) /\ Owes(2)' <= Owes(2)
        /\ Owes(1) \in Nat /\ Owes(2) \in Nat /\ Owes(1)' \in Nat /\ Owes(2)' \in Nat
    BY <1>1, <1>2, <1>3 DEF OwesTurn, Owes
  <2>3. thread.revision \in Nat /\ ops \in Nat /\ foreign \in Nat
    BY DEF Inv, TypeOK, Thread
  <2>4. Budget'
    BY <1>1, <2>2, <2>3 DEF Inv, Budget
  <2>. QED
    BY <2>1, <2>4
<1>. QED
  BY <1>4, <1>5, <1>6, <1>7 DEF Inv

(* ReadPath keeps the invariant.                                           *)
LEMMA ReadPathKeeps == ASSUME Inv, ReadPath PROVE Inv'
<1>1. TypeOK'
  <2>1. att' \in [Attempt -> Record]
    <3>1. mine.revision \in 0 .. MaxRevision /\ att \in [Attempt -> Record]
      BY DEF Inv, TypeOK, Thread
    <3> QED BY <3>1, Launched DEF ReadPath, Inv, Attempt
  <2>2. (op = "none" => runs = {} /\ \A b \in Attempt : att[b].pc \in Over \cup {"none"})'
    BY DEF Inv, TypeOK, Phases, Running, Started, ReadPath, Finish
  <2> QED
    BY <2>1, <2>2 DEF Inv, TypeOK, ReadPath, Finish, Launch, Flags, Ghosts
<1>2. Phases'
  BY DEF Inv, ReadPath, Launch, Compared, TypeOK, Phases, Attempt, Over,
     Started, Unfinished, Running, Ordinary
<1>3. Registered'
  BY ZenonT(60), BoundAssumption DEF Inv, ReadPath, Finish, Launch, NoAttempt, Halting,
     Flags, Ghosts, Compared, TypeOK, Phases, Registered, Attempt, Over,
     Started, Unfinished, Running, Ordinary
<1>4. Reviewed'
  <2>1. CASE op = "regenerate" /\ Launch({1}, mine.revision) /\ UNCHANGED op
    <3>1. mine.revision \in 0 .. MaxRevision
      BY DEF Inv, TypeOK, Thread
    <3>2. att'[1].pc = "view" /\ att'[1].seen = mine.revision /\ ~att'[1].sent /\ step' = "attempts"
      BY <2>1, <3>1, Launched DEF Inv, Attempt
    <3>3. thread.revision - mine.revision = foreign - begun
      BY <2>1 DEF Inv, Reviewed, Ordinary, ReadPath
    <3> QED BY <3>2, <3>3 DEF Reviewed, SentAsReviewed, ReadPath, Ordinary,
         Ghosts
  <2>2. CASE UNCHANGED att
    BY <2>2 DEF Inv, Reviewed, SentAsReviewed, ReadPath, Finish, Ordinary,
       Ghosts
  <2> QED BY <2>1, <2>2 DEF ReadPath
<1>5. Halts'
  BY DEF Inv, ReadPath, Halting, Flags, Ghosts, Compared, TypeOK, Halts
<1>6. Budget'
  BY DEF Inv, ReadPath, Ghosts, Compared, TypeOK, Phases, Budget, Owes,
     OwesTurn, Unselected, Thread, Record, Attempt, Unfinished, Over, Started
<1> QED BY <1>1, <1>2, <1>3, <1>4, <1>5, <1>6 DEF Inv

(* SaveTurn keeps the invariant.                                           *)
LEMMA SaveTurnKeeps == ASSUME Inv, SaveTurn PROVE Inv'
<1> USE BoundAssumption
<1>1. /\ thread.revision + 1 \in 0 .. MaxRevision /\ thread \in Thread /\ mine \in Thread
      /\ thread.revision \in Nat /\ mine.revision \in Nat /\ step = "saving"
      /\ step' \in {"idle", "attempts"}
  BY Room DEF Inv, TypeOK, Thread, SaveTurn, Finish, Launch
<1>2. /\ thread' \in Thread
      /\ thread'.revision \in {thread.revision, thread.revision + 1}
      /\ thread'.context = thread.context /\ thread'.policy = thread.policy
  BY <1>1 DEF SaveTurn, Select, Thread
<1>3. /\ \A a \in Attempt : ~Unfinished(a)
      /\ runs = {}
      /\ \A a \in Attempt : att[a].pc = "none"
  <2>1. \A a \in Attempt : att[a].pc = "none" /\ ~Unfinished(a) /\ ~Running(a)
    BY <1>1 DEF Inv, Phases, Running, Started
  <2>2. runs \subseteq Attempt /\ \A a \in runs : Running(a)
    BY DEF Inv, TypeOK, Phases
  <2> QED BY <2>1, <2>2
<1>4. /\ UNCHANGED <<plan, mine, runs, cancelled, disposed, ops, foreign, halted, begun>>
      /\ pending' \in BOOLEAN
  BY DEF Inv, TypeOK, SaveTurn, Flags, Ghosts
<1>5. OwesTurn = 1 /\ OwesTurn' = 0
  BY <1>1 DEF OwesTurn
<1>6. CASE Launch(IF Compared THEN Attempt ELSE {1}, mine.revision + 1)
           /\ Commits(mine.revision) /\ UNCHANGED <<op, run>>
  <2> DEFINE S == IF Compared THEN Attempt ELSE {1}
  <2>1. mine.revision + 1 = thread.revision + 1 /\ S \in SUBSET Attempt
    BY <1>6 DEF Commits, Attempt
  <2>2. /\ step' = "attempts" /\ att' \in [Attempt -> Record]
        /\ \A a \in S : att'[a].pc = "view" /\ att'[a].seen = mine.revision + 1 /\ ~att'[a].sent
        /\ \A a \in Attempt \ S : att'[a] = att[a]
    <3> HIDE DEF S
    <3> QED BY <1>1, <1>6, <2>1, Launched DEF Inv, S
  <2>3. op' = op /\ op # "none" /\ run' = run
    BY <1>1, <1>6 DEF Inv, TypeOK
  <2>4. TypeOK'
    BY <1>2, <1>4, <2>2, <2>3 DEF Inv, TypeOK
  <2>5. \A a \in Attempt : ~Running(a)'
    BY <1>3, <2>2 DEF Running, Started
  <2>6. Phases' /\ Registered'
    <3>1. ~Compared => ~Unfinished(2)'
      BY <1>3, <2>2 DEF Unfinished, Attempt
    <3> QED BY <1>3, <1>4, <2>2, <2>3, <2>5, <3>1 DEF Phases, Registered, Ordinary, Compared
  <2>7. 1 \in S /\ att'[1].pc = "view" /\ att'[1].seen = mine.revision + 1 /\ ~att'[1].sent
    BY <2>2 DEF Attempt
  <2>9. thread'.revision = thread.revision + 1
    BY <1>1, <2>2 DEF SaveTurn, Select, Thread, Finish
  <2>10. Reviewed'
    BY <1>1, <1>4, <2>3, <2>7, <2>9 DEF Inv, TypeOK, Reviewed, SentAsReviewed,
       Unselected, Ordinary
  <2>11. Owes(1)' \in {0, 1} /\ Owes(2)' \in {0, 1} /\ Owes(1) = 1
    BY <2>3, <1>3 DEF Owes, Attempt
  <2>12. Owes(2)' <= Owes(2)
    BY <1>3, <2>3 DEF Owes, Attempt
  <2>13. Budget'
    BY <1>1, <1>2, <1>4, <1>5, <2>11, <2>12 DEF Inv, Budget, TypeOK, Owes
  <2> QED BY <1>4, <2>3, <2>4, <2>6, <2>10, <2>13 DEF Inv, Halts, Halting
<1>7. CASE Finish /\ UNCHANGED att
  <2>1. TypeOK'
    BY <1>2, <1>3, <1>4, <1>7 DEF Inv, TypeOK, Finish, Unfinished
  <2>2. Phases' /\ Registered'
    BY <1>3, <1>4, <1>7 DEF Phases, Registered, Finish, Unfinished, Ordinary, Compared
  <2>3. Reviewed' /\ Halts'
    BY <1>7 DEF Finish, Reviewed, SentAsReviewed, Ordinary, Halts
  <2>4. Owes(1)' = 0 /\ Owes(2)' = 0 /\ Owes(1) \in {0, 1} /\ Owes(2) \in {0, 1}
    BY <1>7 DEF Finish, Owes
  <2>5. Budget'
    BY <1>1, <1>2, <1>4, <1>5, <2>4 DEF Inv, Budget, TypeOK
  <2> QED BY <2>1, <2>2, <2>3, <2>5 DEF Inv
<1> QED BY <1>6, <1>7 DEF SaveTurn

(* AfterAttempts keeps the invariant.                                      *)
LEMMA AfterAttemptsKeeps == ASSUME Inv, AfterAttempts PROVE Inv'
<1>1. TypeOK'
  BY DEF Inv, AfterAttempts, AllOver, Finish, Flags, Ghosts, Compared,
     Unfinished, TypeOK, Thread, Record, Attempt, Over, Started, Budget, Owes,
     OwesTurn, MaxRevision, Phases, Running
<1>2. Phases'
  BY DEF Inv, AfterAttempts, AllOver, Finish, Halting, Flags, Ghosts, Compared,
     Unfinished, TypeOK, Phases, Attempt, Over, Started, Running, Ordinary
<1>3. Registered'
  BY DEF AfterAttempts, AllOver, Unfinished, Phases, Registered, Attempt, Over,
     Started, Running, Ordinary
<1>4. Reviewed'
  BY DEF Inv, AfterAttempts, Finish, Flags, Ghosts, Compared, Unfinished,
     TypeOK, Phases, Reviewed, SentAsReviewed, Unselected, Attempt, Over,
     Started, Thread, Record, Ordinary
<1>5. Halts'
  BY DEF Inv, AfterAttempts, Halting, Flags, Ghosts, Compared, Unfinished,
     TypeOK, Halts
<1>6. Budget'
  BY DEF Inv, AfterAttempts, Finish, Flags, Ghosts, Compared, Unfinished,
     TypeOK, Phases, Budget, Owes, OwesTurn, Unselected, Thread, Record,
     Attempt, Over, Started
<1> QED BY <1>1, <1>2, <1>3, <1>4, <1>5, <1>6 DEF Inv

(* Decide keeps the invariant.                                             *)
LEMMA DecideKeeps == ASSUME Inv, Decide PROVE Inv'
<1> USE BoundAssumption
<1>1. /\ thread \in Thread /\ thread.revision \in 0 .. MaxRevision
      /\ step = "deciding" /\ op # "none"
      /\ \A a \in Attempt : ~Unfinished(a)
      /\ runs = {}
  BY DEF Inv, TypeOK, Thread, Decide, Phases, Unfinished, Running, Started, Over
<1>2. UNCHANGED <<thread, plan, mine, runs, cancelled, disposed, pending, ops, foreign, halted, begun>>
  BY DEF Decide, Flags, Ghosts
<1>3. CASE Launch({2}, thread.revision) /\ UNCHANGED <<op, run>>
  <2>1. /\ step' = "attempts" /\ att' \in [Attempt -> Record]
        /\ att'[2].pc = "view" /\ ~att'[2].sent
        /\ att'[1] = att[1]
    BY <1>1, <1>3, Launched DEF Inv, Attempt
  <2>2. TypeOK'
    BY <1>1, <1>2, <1>3, <2>1 DEF Inv, TypeOK
  <2>3. ~Unfinished(1)' /\ ~Running(1)' /\ ~Running(2)'
    BY <1>1, <2>1 DEF Unfinished, Running, Started, Over, Attempt
  <2>4. Phases' /\ Registered'
    BY <1>1, <1>2, <2>1, <2>3 DEF Phases, Registered, Attempt
  <2>5. Reviewed'
    BY <1>2, <1>3, <2>1 DEF Inv, Reviewed, SentAsReviewed, Unselected,
       Ordinary, Unfinished, Over, Attempt
  <2>6. Halts'
    BY <1>2, <1>3 DEF Inv, Halts, Halting
  <2>7. Owes(1)' = Owes(1) /\ Owes(2)' = 1 /\ OwesTurn' = 0 /\ OwesTurn = 0
    BY <1>1, <1>3, <2>1 DEF Owes, OwesTurn, Unselected
  <2>8. Owes(2) = 1
    <3>1. att[2].pc = "none"
      BY <1>1 DEF Inv, Phases
    <3> QED BY <1>1, <3>1 DEF Owes
  <2> QED BY <1>2, <2>2, <2>4, <2>5, <2>6, <2>7, <2>8 DEF Inv, Budget
<1>4. CASE Finish /\ UNCHANGED att
  <2>1. TypeOK'
    BY <1>1, <1>2, <1>4 DEF Inv, TypeOK, Finish, Unfinished
  <2>2. Phases' /\ Registered'
    BY <1>1, <1>2, <1>4 DEF Phases, Registered, Finish, Unfinished, Ordinary, Compared
  <2>3. Reviewed' /\ Halts'
    BY <1>4 DEF Finish, Reviewed, SentAsReviewed, Ordinary, Halts
  <2>4. /\ Owes(1)' = 0 /\ Owes(2)' = 0 /\ OwesTurn' = 0
        /\ Owes(1) \in {0, 1} /\ Owes(2) \in {0, 1} /\ OwesTurn \in {0, 1}
    BY <1>4 DEF Finish, Owes, OwesTurn
  <2> QED BY <1>2, <2>1, <2>2, <2>3, <2>4 DEF Inv, Budget, TypeOK, Thread
<1> QED BY <1>3, <1>4 DEF Decide

(* View keeps the invariant.                                               *)
LEMMA ViewKeeps == ASSUME Inv, NEW a \in Attempt, View(a) PROVE Inv'
<1>1. TypeOK'
  BY DEF Inv, View, At, Ends, Goes, Kept, Flags, Ghosts, Compared, TypeOK,
     Thread, Record, Attempt, Over, Started, Budget, Owes, OwesTurn,
     MaxRevision, Phases, Unfinished, Running
<1>2. Moved(a)
  BY DEF Inv, TypeOK, Record, Moved, Unfinished, Running, Over, Started, View,
     At, Ends, Goes, AsReviewed, Halting, Kept, Flags, Ghosts, Compared
<1>3. Phases' /\ Registered'
  BY <1>2, MovedPhases
<1>4. Reviewed'
  BY DEF Inv, View, At, Ends, Goes, Kept, Flags, Ghosts, Compared, TypeOK,
     Phases, Reviewed, SentAsReviewed, Unselected, Attempt, Over, Started,
     Thread, Record, Ordinary, Unfinished
<1>5. Halts'
  BY DEF Inv, View, Halting, Kept, Flags, Ghosts, Compared, TypeOK, Halts
<1>6. Budget'
  BY DEF Inv, View, At, Ends, Goes, Kept, Flags, Ghosts, Compared, TypeOK,
     Phases, Budget, Owes, OwesTurn, Unselected, Thread, Record, Attempt,
     Unfinished, Over, Started
<1> QED BY <1>1, <1>3, <1>4, <1>5, <1>6 DEF Inv

(* Lease keeps the invariant.                                              *)
LEMMA LeaseKeeps == ASSUME Inv, NEW a \in Attempt, Lease(a) PROVE Inv'
<1>1. TypeOK'
  BY DEF Inv, Lease, At, Ends, Goes, Registers, Halting, Kept, Flags, Ghosts,
     Compared, TypeOK, Thread, Record, Attempt, Over, Started, Budget, Owes,
     OwesTurn, MaxRevision, Phases, Unfinished, Running
<1>2. Moved(a)
  BY DEF Inv, TypeOK, Record, Moved, Unfinished, Over, Started, Lease, At,
     Ends, Goes, Registers, Halting, Kept, Flags, Ghosts, Compared
<1>3. Phases' /\ Registered'
  BY <1>2, MovedPhases
<1>4. Reviewed'
  BY DEF Inv, Lease, At, Ends, Goes, Kept, Flags, Ghosts, Compared, TypeOK,
     Phases, Reviewed, SentAsReviewed, Unselected, Attempt, Over, Started,
     Thread, Record, Ordinary, Unfinished
<1>5. Halts'
  BY DEF Inv, Lease, Halting, Kept, Flags, Ghosts, Compared, TypeOK, Halts
<1>6. Budget'
  BY DEF Inv, Lease, At, Ends, Goes, Kept, Flags, Ghosts, Compared, TypeOK,
     Phases, Budget, Owes, OwesTurn, Unselected, Thread, Record, Attempt,
     Unfinished, Over, Started
<1> QED BY <1>1, <1>3, <1>4, <1>5, <1>6 DEF Inv

(* Create keeps the invariant.                                             *)
LEMMA CreateKeeps == ASSUME Inv, NEW a \in Attempt, Create(a) PROVE Inv'
<1>1. TypeOK'
  BY DEF Inv, Create, At, Ends, Goes, Fails, Halting, Kept, Flags, Ghosts,
     Compared, TypeOK, Thread, Record, Attempt, Over, Started, Budget, Owes,
     OwesTurn, MaxRevision, Phases, Unfinished, Running
<1>2. Moved(a)
  BY DEF Inv, TypeOK, Record, Moved, Unfinished, Running, Over, Started,
     Create, At, Ends, Goes, Fails, Halting, Kept, Flags, Ghosts, Compared
<1>3. Phases' /\ Registered'
  BY <1>2, MovedPhases
<1>4. Reviewed'
  BY DEF Inv, Create, At, Ends, Goes, Fails, Halting, Kept, Flags, Ghosts,
     Compared, TypeOK, Phases, Reviewed, SentAsReviewed, Unselected, Attempt,
     Over, Started, Thread, Record, Ordinary, Unfinished
<1>5. Halts'
  BY DEF Inv, Create, Halting, Kept, Flags, Ghosts, Compared, TypeOK, Halts
<1>6. Budget'
  BY DEF Inv, Create, At, Ends, Goes, Fails, Halting, Kept, Flags, Ghosts,
     Compared, TypeOK, Phases, Budget, Owes, OwesTurn, Unselected, Thread,
     Record, Attempt, Unfinished, Over, Started
<1> QED BY <1>1, <1>3, <1>4, <1>5, <1>6 DEF Inv

(* SelectOutput keeps the invariant.                                       *)
LEMMA SelectOutputKeeps == ASSUME Inv, NEW a \in Attempt, SelectOutput(a) PROVE Inv'
<1>1. TypeOK'
  <2>1. thread' \in Thread /\ mine' \in Thread
    <3>1. op # "none" /\ att[a].pc \in Unselected
      BY DEF Inv, TypeOK, SelectOutput, At, Over, Unselected
    <3>2. thread.revision + 1 \in 0 .. MaxRevision
      BY <3>1, Room
    <3> QED BY <3>2 DEF Inv, TypeOK, Thread, SelectOutput, Select, Kept
  <2>2. att' \in [Attempt -> Record]
    BY DEF Inv, SelectOutput, Ends, Goes, Fails, Commits, Select, Kept, Flags,
       Ghosts, Compared, TypeOK, Thread, Record, Attempt, Over, Started,
       Budget, Owes, OwesTurn, MaxRevision, Phases, Unfinished, Running
  <2>3. (op = "none" <=> step = "idle")'
    BY DEF Inv, SelectOutput, Kept, Flags, Ghosts, Compared, TypeOK, Thread,
       Record, Attempt, Over, Started, Budget, Owes, OwesTurn, MaxRevision,
       Phases, Unfinished, Running
  <2>4. (op = "none" => runs = {} /\ \A b \in Attempt : att[b].pc \in Over \cup {"none"})'
    BY DEF Inv, SelectOutput, At, Kept, Flags, Ghosts, Compared, TypeOK,
       Thread, Record, Attempt, Over, Started, Budget, Owes, OwesTurn,
       MaxRevision, Phases, Unfinished, Running
  <2>5. /\ op' \in {"none", "send", "compare", "regenerate"}
          /\ step' \in {"idle", "viewing", "reading", "saving", "attempts", "deciding"}
          /\ run' \in {0} \cup Attempt /\ runs' \subseteq Attempt
          /\ plan' \in BOOLEAN /\ pending' \in BOOLEAN
          /\ cancelled' \in BOOLEAN /\ disposed' \in BOOLEAN /\ halted' \in BOOLEAN
          /\ ops' \in 0 .. MaxOps /\ foreign' \in 0 .. MaxForeign /\ begun' \in 0 .. MaxForeign
    BY DEF Inv, SelectOutput, Ends, Fails, Commits, Select, Kept, Flags,
       Ghosts, Compared, TypeOK, Thread, Record, Attempt, Over, Started,
       Budget, Owes, OwesTurn, MaxRevision, Phases, Unfinished, Running
  <2> QED BY <2>1, <2>2, <2>3, <2>4, <2>5 DEF TypeOK
<1>2. Moved(a)
  BY DEF Inv, TypeOK, Record, Moved, Unfinished, Running, Over, Started,
     SelectOutput, At, Ends, Goes, Fails, Commits, Select, Kept, Flags,
     Ghosts, Compared
<1>3. Phases' /\ Registered'
  BY <1>2, MovedPhases
<1>4. Reviewed'
  <2>1. /\ op' = op /\ step' = step /\ UNCHANGED <<mine, foreign, begun>> /\ att[a].pc = "select"
        /\ op # "none" /\ step = "attempts"
    BY DEF Inv, TypeOK, Phases, SelectOutput, At, Kept, Ghosts, Over, Unfinished
  <2>2. \A b \in Attempt \ {a} : att'[b] = att[b]
    BY <1>2 DEF Moved
  <2>3. CASE a = 1
    <3>1. /\ att'[1].sent = att[1].sent
          /\ \/ att'[1].pc \in Over
             \/ att'[1].pc = "prepare" /\ att'[1].chosen = foreign /\ thread.revision = att[1].seen
      BY <2>3 DEF Inv, TypeOK, Record, SelectOutput, Ends, Goes, Fails, Commits, Over
    <3>2. Ordinary => ~att[1].sent /\ thread.revision - att[1].seen = foreign - begun
      BY <2>1, <2>3 DEF Inv, Reviewed, Unselected
    <3>3. foreign \in Nat /\ begun \in Nat /\ thread.revision \in Nat
      BY BoundAssumption DEF Inv, TypeOK, Thread
    <3>. QED
      BY <2>1, <3>1, <3>2, <3>3
      DEF Reviewed, SentAsReviewed, Ordinary, Unselected, Over
  <2>4. CASE a = 2
    <3>1. att'[1] = att[1] /\ Unfinished(2)
      BY <2>1, <2>2, <2>4 DEF Attempt, Unfinished, Over
    <3>2. Ordinary => att[1].pc \in Over \cup {"none"}
      BY <3>1 DEF Inv, Phases, Unfinished
    <3>. QED
      BY <2>1, <3>1, <3>2
      DEF Inv, Reviewed, SentAsReviewed, Ordinary, Unselected, Over
  <2>. QED
    BY <2>3, <2>4 DEF Attempt
<1>5. Halts'
  BY DEF Inv, SelectOutput, Kept, Flags, Ghosts, Compared, TypeOK, Halts,
     Halting
<1>6. Budget'
  <2>1. op # "none" /\ op' = op /\ step' = step /\ UNCHANGED <<ops, foreign>> /\ att[a].pc = "select"
    BY DEF Inv, TypeOK, SelectOutput, At, Over, Kept, Ghosts
  <2>2. /\ att'[a].pc \in Over \cup {"prepare"}
        /\ \A b \in Attempt \ {a} : att'[b] = att[b]
    BY DEF Inv, TypeOK, Record, SelectOutput, Fails, Ends, Goes, Over
  <2>3. Owes(a) = 1 /\ Owes(a)' = 0 /\ \A b \in Attempt \ {a} : Owes(b)' = Owes(b)
    BY <2>1, <2>2 DEF Owes, Unselected, Over
  <2>4. OwesTurn' = OwesTurn /\ OwesTurn \in {0, 1} /\ \A b \in Attempt : Owes(b) \in {0, 1}
    BY <2>1 DEF OwesTurn, Owes
  <2>5. Owes(1)' + Owes(2)' = Owes(1) + Owes(2) - 1
    BY <2>3, <2>4 DEF Attempt
  <2>6. /\ thread'.revision \in {thread.revision, thread.revision + 1}
        /\ thread'.context = thread.context /\ thread'.policy = thread.policy
    BY DEF Inv, TypeOK, Thread, SelectOutput, Select
  <2>7. Owes(1)' \in {0, 1} /\ Owes(2)' \in {0, 1} /\ OwesTurn' \in {0, 1}
    BY DEF Owes, OwesTurn
  <2>8. /\ thread.revision \in Nat /\ ops \in Nat /\ foreign \in Nat
        /\ thread.revision + OwesTurn + Owes(1) + Owes(2) <= 3 * ops + foreign
        /\ thread.context <= foreign /\ thread.policy <= foreign
    BY BoundAssumption DEF Inv, Budget, TypeOK, Thread
  <2>9. Owes(1) \in {0, 1} /\ Owes(2) \in {0, 1}
    BY DEF Owes
  <2>10. thread'.revision + OwesTurn' + Owes(1)' + Owes(2)' <= 3 * ops' + foreign'
    BY <2>1, <2>4, <2>5, <2>6, <2>7, <2>8, <2>9
  <2> QED BY <2>1, <2>6, <2>8, <2>10 DEF Budget
<1> QED BY <1>1, <1>3, <1>4, <1>5, <1>6 DEF Inv

(* Prepare keeps the invariant.                                            *)
LEMMA PrepareKeeps == ASSUME Inv, NEW a \in Attempt, Prepare(a) PROVE Inv'
<1>1. TypeOK'
  BY DEF Inv, Prepare, At, Ends, Goes, Fails, Cleared, Kept, Flags, Ghosts,
     Compared, TypeOK, Thread, Record, Attempt, Over, Started, Budget, Owes,
     OwesTurn, MaxRevision, Phases, Unfinished, Running
<1>2. Moved(a)
  BY DEF Inv, TypeOK, Record, Moved, Unfinished, Running, Over, Started,
     Prepare, At, Ends, Goes, Fails, Cleared, Kept, Flags, Ghosts, Compared
<1>3. Phases' /\ Registered'
  BY <1>2, MovedPhases
<1>4. Reviewed'
  BY DEF Inv, Prepare, At, Ends, Goes, Fails, Cleared, Kept, Flags, Ghosts,
     Compared, TypeOK, Phases, Reviewed, SentAsReviewed, Unselected, Attempt,
     Over, Started, Thread, Record, Ordinary, Unfinished
<1>5. Halts'
  BY DEF Inv, Prepare, Kept, Flags, Ghosts, Compared, TypeOK, Halts, Halting
<1>6. Budget'
  BY DEF Inv, Prepare, Ends, Goes, Fails, Cleared, Kept, Flags, Ghosts,
     Compared, TypeOK, Phases, Budget, Owes, OwesTurn, Unselected, Thread,
     Record, Attempt, Unfinished, Over, Started
<1> QED BY <1>1, <1>3, <1>4, <1>5, <1>6 DEF Inv

(* SendRequest keeps the invariant.                                        *)
LEMMA SendRequestKeeps == ASSUME Inv, NEW a \in Attempt, SendRequest(a) PROVE Inv'
<1>1. TypeOK'
  BY DEF Inv, SendRequest, At, Ends, Goes, Fails, Cleared, Kept, Flags, Ghosts,
     Compared, TypeOK, Thread, Record, Attempt, Over, Started, Budget, Owes,
     OwesTurn, MaxRevision, Phases, Unfinished, Running
<1>2. Moved(a)
  BY DEF Inv, TypeOK, Record, Moved, Unfinished, Running, Over, Started,
     SendRequest, At, Ends, Goes, Fails, Cleared, Kept, Flags, Ghosts,
     Compared
<1>3. Phases' /\ Registered'
  BY <1>2, MovedPhases
<1>4. Reviewed'
  BY DEF Inv, SendRequest, Ends, Goes, Fails, Cleared, Kept, Flags, Ghosts,
     Compared, TypeOK, Phases, Reviewed, SentAsReviewed, Unselected, Attempt,
     Over, Started, Thread, Record, Ordinary, Unfinished
<1>5. Halts'
  BY DEF Inv, SendRequest, Kept, Flags, Ghosts, Compared, TypeOK, Halts,
     Halting
<1>6. Budget'
  BY DEF Inv, SendRequest, Ends, Goes, Fails, Cleared, Kept, Flags, Ghosts,
     Compared, TypeOK, Phases, Budget, Owes, OwesTurn, Unselected, Thread,
     Record, Attempt, Unfinished, Over, Started
<1> QED BY <1>1, <1>3, <1>4, <1>5, <1>6 DEF Inv

(* Respond keeps the invariant.                                            *)
LEMMA RespondKeeps == ASSUME Inv, NEW a \in Attempt, Respond(a) PROVE Inv'
<1>1. TypeOK'
  BY DEF Inv, Respond, Ends, Goes, Kept, Flags, Ghosts, Compared, TypeOK,
     Thread, Record, Attempt, Over, Started, Budget, Owes, OwesTurn,
     MaxRevision, Phases, Unfinished, Running
<1>2. Moved(a)
  BY DEF Inv, TypeOK, Moved, Unfinished, Over, Started, Respond, At, Ends,
     Goes, Kept, Flags, Ghosts, Compared
<1>3. Phases' /\ Registered'
  BY <1>2, MovedPhases
<1>4. Reviewed'
  BY DEF Inv, Respond, Ends, Goes, Kept, Flags, Ghosts, Compared, TypeOK,
     Phases, Reviewed, SentAsReviewed, Unselected, Attempt, Over, Started,
     Thread, Record, Ordinary, Unfinished
<1>5. Halts'
  BY DEF Inv, Respond, Kept, Flags, Ghosts, Compared, TypeOK, Halts, Halting
<1>6. Budget'
  BY DEF Inv, Respond, Ends, Goes, Kept, Flags, Ghosts, Compared, TypeOK,
     Phases, Budget, Owes, OwesTurn, Unselected, Thread, Record, Attempt,
     Unfinished, Over, Started
<1> QED BY <1>1, <1>3, <1>4, <1>5, <1>6 DEF Inv

(* BreakOff keeps the invariant.                                           *)
LEMMA BreakOffKeeps == ASSUME Inv, NEW a \in Attempt, BreakOff(a) PROVE Inv'
<1>1. TypeOK'
  BY DEF Inv, BreakOff, Ends, Goes, Kept, Flags, Ghosts, Compared, TypeOK,
     Thread, Record, Attempt, Over, Started, Budget, Owes, OwesTurn,
     MaxRevision, Phases, Unfinished, Running
<1>2. Moved(a)
  BY DEF Inv, TypeOK, Moved, Unfinished, Over, Started, BreakOff, At, Ends,
     Goes, Kept, Flags, Ghosts, Compared
<1>3. Phases' /\ Registered'
  BY <1>2, MovedPhases
<1>4. Reviewed'
  BY DEF Inv, BreakOff, Ends, Goes, Kept, Flags, Ghosts, Compared, TypeOK,
     Phases, Reviewed, SentAsReviewed, Unselected, Attempt, Over, Started,
     Thread, Record, Ordinary, Unfinished
<1>5. Halts'
  BY DEF Inv, BreakOff, Kept, Flags, Ghosts, Compared, TypeOK, Halts, Halting
<1>6. Budget'
  BY DEF Inv, BreakOff, Ends, Goes, Kept, Flags, Ghosts, Compared, TypeOK,
     Phases, Budget, Owes, OwesTurn, Unselected, Thread, Record, Attempt,
     Unfinished, Over, Started
<1> QED BY <1>1, <1>3, <1>4, <1>5, <1>6 DEF Inv

(* Stop keeps the invariant.                                               *)
LEMMA StopKeeps == ASSUME Inv, Stop PROVE Inv'
<1>1. TypeOK'
  <2>1. thread' \in Thread /\ mine' \in Thread
    BY DEF Inv, Stop, TypeOK, Attempt, Over, Started, Budget, Owes, OwesTurn,
       MaxRevision, Phases, Unfinished
  <2>2. att' \in [Attempt -> Record]
    <3>1. \A b \in Attempt : att[b] \in Record /\ [att[b] EXCEPT !.stopped = TRUE] \in Record
      BY DEF Inv, TypeOK, Record
    <3> QED BY <3>1 DEF Stop, Reached, CancelRuns
  <2>3. (op = "none" <=> step = "idle")'
    BY DEF Inv, Stop, TypeOK, Attempt, Over, Started, Budget, Owes, OwesTurn,
       MaxRevision, Phases, Unfinished
  <2>4. (op = "none" => runs = {} /\ \A b \in Attempt : att[b].pc \in Over \cup {"none"})'
    BY DEF Inv, Stop, CancelRuns, TypeOK, Thread, Record, Attempt, Over,
       Started, Budget, Owes, OwesTurn, MaxRevision, Phases, Unfinished
  <2>5. /\ op' \in {"none", "send", "compare", "regenerate"}
          /\ step' \in {"idle", "viewing", "reading", "saving", "attempts", "deciding"}
          /\ run' \in {0} \cup Attempt /\ runs' \subseteq Attempt
          /\ plan' \in BOOLEAN /\ pending' \in BOOLEAN
          /\ cancelled' \in BOOLEAN /\ disposed' \in BOOLEAN /\ halted' \in BOOLEAN
          /\ ops' \in 0 .. MaxOps /\ foreign' \in 0 .. MaxForeign /\ begun' \in 0 .. MaxForeign
    BY DEF Inv, Stop, TypeOK, Attempt, Over, Started, Budget, Owes, OwesTurn,
       MaxRevision, Phases, Unfinished
  <2> QED BY <2>1, <2>2, <2>3, <2>4, <2>5 DEF TypeOK
<1>2. Phases'
  BY DEF Inv, Stop, CancelRuns, Running, TypeOK, Phases, Attempt, Over,
     Started, Unfinished, Ordinary, Compared
<1>3. Registered'
  BY DEF Inv, Stop, CancelRuns, Running, TypeOK, Phases, Registered, Attempt,
     Over, Started, Unfinished, Ordinary, Compared
<1>4. Reviewed'
  BY DEF Inv, Stop, CancelRuns, TypeOK, Phases, Reviewed, SentAsReviewed,
     Unselected, Attempt, Over, Started, Thread, Record, Ordinary, Compared,
     Unfinished
<1>5. Halts'
  BY DEF Stop, Halts, Halting
<1>6. Budget'
  BY DEF Inv, Stop, CancelRuns, TypeOK, Phases, Budget, Owes, OwesTurn,
     Unselected, Thread, Record, Attempt, Unfinished, Over, Started
<1> QED BY <1>1, <1>2, <1>3, <1>4, <1>5, <1>6 DEF Inv

(* Dispose keeps the invariant.                                            *)
LEMMA DisposeKeeps == ASSUME Inv, Dispose PROVE Inv'
<1>1. TypeOK'
  <2>1. thread' \in Thread /\ mine' \in Thread
    BY DEF Inv, Dispose, TypeOK
  <2>2. att' \in [Attempt -> Record]
    <3>1. \A b \in Attempt : att[b] \in Record /\ [att[b] EXCEPT !.stopped = TRUE] \in Record
      BY DEF Inv, TypeOK, Record
    <3> QED BY <3>1 DEF Dispose, CancelRuns
  <2>3. (op = "none" <=> step = "idle")'
    BY DEF Inv, Dispose, TypeOK
  <2>4. (op = "none" => runs = {} /\ \A b \in Attempt : att[b].pc \in Over \cup {"none"})'
    BY DEF Inv, Dispose, CancelRuns, TypeOK
  <2>5. /\ op' \in {"none", "send", "compare", "regenerate"}
          /\ step' \in {"idle", "viewing", "reading", "saving", "attempts", "deciding"}
          /\ run' \in {0} \cup Attempt /\ runs' \subseteq Attempt
          /\ plan' \in BOOLEAN /\ pending' \in BOOLEAN
          /\ cancelled' \in BOOLEAN /\ disposed' \in BOOLEAN /\ halted' \in BOOLEAN
          /\ ops' \in 0 .. MaxOps /\ foreign' \in 0 .. MaxForeign /\ begun' \in 0 .. MaxForeign
    BY DEF Inv, Dispose, TypeOK
  <2> QED BY <2>1, <2>2, <2>3, <2>4, <2>5 DEF TypeOK
<1>2. Phases'
  BY DEF Inv, Dispose, CancelRuns, Running, TypeOK, Phases, Attempt, Over,
     Started, Unfinished, Ordinary, Compared
<1>3. Registered'
  BY DEF Inv, Dispose, CancelRuns, Running, Registered, Attempt, Over, Started,
     Unfinished, Ordinary, Compared
<1>4. Reviewed'
  BY DEF Inv, Dispose, CancelRuns, Phases, Reviewed, SentAsReviewed,
     Unselected, Attempt, Over, Started, Thread, Record, Ordinary, Compared,
     Unfinished
<1>5. Halts'
  BY DEF Dispose, Halts, Halting
<1>6. Budget'
  BY DEF Inv, Dispose, CancelRuns, Phases, Budget, Owes, OwesTurn, Unselected,
     Thread, Record, Attempt, Unfinished, Over, Started
<1> QED BY <1>1, <1>2, <1>3, <1>4, <1>5, <1>6 DEF Inv

(* Inspect keeps the invariant.                                            *)
LEMMA InspectKeeps == ASSUME Inv, Inspect PROVE Inv'
<1>1. TypeOK'
  BY BoundAssumption DEF Inv, Inspect, Quiet, Ghosts, TypeOK
<1>2. Phases'
  BY DEF Inv, Inspect, Phases, Over, Started, Unfinished, Running, Ordinary,
     Compared
<1>3. Registered'
  BY DEF Inspect, Quiet, Registered, Started, Unfinished, Running, Ordinary,
     Compared
<1>4. Reviewed'
  BY DEF Inspect, Quiet, Reviewed, SentAsReviewed, Unselected, Attempt, Over,
     Started, Thread, Record, Ordinary, Compared, Unfinished
<1>5. Halts'
  BY DEF Inspect, Quiet, Halts
<1>6. Budget'
  BY DEF Inv, Inspect, Ghosts, Phases, Budget, Owes, OwesTurn, Unselected,
     Thread, Record, Attempt, Unfinished, Over, Started
<1> QED BY <1>1, <1>2, <1>3, <1>4, <1>5, <1>6 DEF Inv

(* Reconcile keeps the invariant.                                          *)
LEMMA ReconcileKeeps == ASSUME Inv, Reconcile PROVE Inv'
<1>1. TypeOK'
  <2> QED BY DEF Inv, TypeOK, Reconcile, Flags, Ghosts
<1>2. Phases'
  BY DEF Inv, Reconcile, Phases, Over, Started, Unfinished, Running, Ordinary,
     Compared
<1>3. Registered'
  BY DEF Inv, Reconcile, Registered, Started, Unfinished, Running, Ordinary,
     Compared
<1>4. Reviewed'
  BY DEF Inv, Reconcile, Ghosts, Phases, Reviewed, SentAsReviewed, Unselected,
     Attempt, Over, Started, Thread, Record, Ordinary, Compared, Unfinished
<1>5. Halts'
  BY DEF Inv, Reconcile, Flags, Ghosts, Halts, Halting
<1>6. Budget'
  BY DEF Inv, Reconcile, Ghosts, Phases, Budget, Owes, OwesTurn, Unselected,
     Thread, Record, Attempt, Unfinished, Over, Started
<1> QED BY <1>1, <1>2, <1>3, <1>4, <1>5, <1>6 DEF Inv

(* Foreign keeps the invariant.                                            *)
LEMMA ForeignKeeps == ASSUME Inv, Foreign PROVE Inv'
<1>1. TypeOK'
  <2>1. thread' \in Thread /\ mine' \in Thread
    <3>1. thread.revision + 1 \in 0 .. MaxRevision
      BY Room DEF Foreign
    <3>2. thread.context + 1 \in 0 .. MaxForeign /\ thread.policy + 1 \in 0 .. MaxForeign
      BY BoundAssumption DEF Inv, TypeOK, Thread, Budget, Foreign
    <3> QED BY <3>1, <3>2 DEF Inv, TypeOK, Thread, Foreign
  <2>2. att' \in [Attempt -> Record]
    BY DEF Inv, Foreign, TypeOK
  <2>3. (op = "none" <=> step = "idle")'
    BY DEF Inv, Foreign, TypeOK
  <2>4. (op = "none" => runs = {} /\ \A b \in Attempt : att[b].pc \in Over \cup {"none"})'
    BY DEF Inv, Foreign, TypeOK
  <2>5. /\ op' \in {"none", "send", "compare", "regenerate"}
          /\ step' \in {"idle", "viewing", "reading", "saving", "attempts", "deciding"}
          /\ run' \in {0} \cup Attempt /\ runs' \subseteq Attempt
          /\ plan' \in BOOLEAN /\ pending' \in BOOLEAN
          /\ cancelled' \in BOOLEAN /\ disposed' \in BOOLEAN /\ halted' \in BOOLEAN
          /\ ops' \in 0 .. MaxOps /\ foreign' \in 0 .. MaxForeign /\ begun' \in 0 .. MaxForeign
    BY BoundAssumption DEF Inv, Foreign, Flags, TypeOK
  <2> QED BY <2>1, <2>2, <2>3, <2>4, <2>5 DEF TypeOK
<1>2. Phases'
  BY DEF Inv, Foreign, Phases, Started, Unfinished, Running, Ordinary, Compared
<1>3. Registered'
  BY DEF Inv, Foreign, Registered, Over, Started, Unfinished, Running,
     Ordinary, Compared
<1>4. Reviewed'
  BY DEF Inv, Foreign, TypeOK, Reviewed, SentAsReviewed, Unselected, Attempt,
     Over, Started, Thread, Record, Ordinary, Compared, Unfinished
<1>5. Halts'
  BY DEF Inv, Foreign, Flags, Halts, Halting
<1>6. Budget'
  BY DEF Inv, Foreign, TypeOK, Budget, Owes, OwesTurn, Unselected, Thread,
     Record, Attempt, Unfinished, Over, Started
<1> QED BY <1>1, <1>2, <1>3, <1>4, <1>5, <1>6 DEF Inv

(* A stuttering step keeps the invariant.                                  *)
LEMMA IdlesKeeps == ASSUME Inv, UNCHANGED vars PROVE Inv'
<1>1. TypeOK'
  BY DEF Inv, vars, TypeOK
<1>2. Phases'
  BY DEF Inv, vars, Phases, Unfinished, Running, Ordinary, Compared
<1>3. Registered'
  BY DEF Inv, vars, Registered, Started, Unfinished, Running, Ordinary,
     Compared
<1>4. Reviewed'
  BY DEF Inv, vars, Reviewed, SentAsReviewed, Attempt, Over, Started, Thread,
     Record, Ordinary, Compared, Unfinished
<1>5. Halts'
  BY DEF Inv, vars, Halts, Halting
<1>6. Budget'
  BY DEF Inv, vars, Budget, Owes, OwesTurn, Unselected, Thread, Record,
     Attempt, Unfinished, Over, Started
<1> QED BY <1>1, <1>2, <1>3, <1>4, <1>5, <1>6 DEF Inv

(* Every step keeps the invariant.                                         *)
LEMMA StepInv == ASSUME Inv, [Next]_vars PROVE Inv'
<1>1. ASSUME NEW kind \in {"send", "compare", "regenerate"}, Start(kind) PROVE Inv'
  BY <1>1, StartKeeps
<1>2. CASE Operation
  BY <1>2, ReadThreadKeeps, ReadPathKeeps, SaveTurnKeeps, AfterAttemptsKeeps, DecideKeeps DEF Operation
<1>3. ASSUME NEW a \in Attempt, Work(a) PROVE Inv'
  BY <1>3, ViewKeeps, LeaseKeeps, CreateKeeps, SelectOutputKeeps, PrepareKeeps, SendRequestKeeps,
     BreakOffKeeps DEF Work
<1>4. ASSUME NEW a \in Attempt, Respond(a) PROVE Inv'
  BY <1>4, RespondKeeps
<1>5. CASE Stop \/ Dispose \/ Inspect \/ Reconcile \/ Foreign
  BY <1>5, StopKeeps, DisposeKeeps, InspectKeeps, ReconcileKeeps, ForeignKeeps
<1>6. CASE UNCHANGED vars
  BY <1>6, IdlesKeeps
<1> QED BY <1>1, <1>2, <1>3, <1>4, <1>5, <1>6 DEF Next

(* The invariant holds of every reachable state.                           *)
THEOREM Invariance == Spec => []Inv
<1>1. Init => Inv
  BY InitInv
<1>2. Inv /\ [Next]_vars => Inv'
  BY StepInv
<1> QED BY <1>1, <1>2, PTL DEF Spec

(* State is typed, and an idle controller has no attempt on its way.       *)
THEOREM Typing == Spec => []TypeOK
<1>1. Inv => TypeOK
  BY DEF Inv
<1> QED BY <1>1, Invariance, PTL

(* Whatever runs has a handle that stop() reaches.                         *)
LEMMA InvReaches == ASSUME Inv PROVE StopReachesAll
<1> SUFFICES ASSUME NEW a \in Attempt, Running(a) PROVE a \in Reached
  BY DEF StopReachesAll
<1>1. Unfinished(a)
  BY DEF Running, Unfinished, Started, Over
<1>2. step = "attempts" /\ op \in {"send", "compare", "regenerate"}
  BY <1>1 DEF Inv, TypeOK, Phases
<1>3. CASE Ordinary
  BY <1>3 DEF Inv, Registered, Reached
<1>4. CASE Compared
  BY <1>2, <1>4 DEF Inv, Phases, Reached
<1> QED BY <1>2, <1>3, <1>4 DEF Ordinary, Compared

(* Whatever the moment of a stop, no attempt that has been started is      *)
(* missing from the handles the controller cancels.                        *)
THEOREM Reaches == Spec => []StopReachesAll
<1>1. Inv => StopReachesAll
  BY InvReaches
<1> QED BY <1>1, Invariance, PTL

(* An ordinary first attempt that is prepared or sent was selected before  *)
(* any other tab had changed the conversation that the operation saw: the  *)
(* user's own view for a turn, the one read after the request for a        *)
(* regeneration or a critique (chat.ts, send, regenerate and onCreated).   *)
THEOREM Reviewing == Spec => []SentAsReviewed
<1>1. Inv => SentAsReviewed
  BY DEF Inv, Reviewed
<1> QED BY <1>1, Invariance, PTL

(* Only SendRequest sends.                                                 *)
LEMMA SendsUnstopped ==
  ASSUME Inv, [Next]_vars, NEW a \in Attempt, att'[a].sent, ~att[a].sent
  PROVE  ~halted
<1> USE DEF Attempt
<1>1. att \in [Attempt -> Record] /\ op \in {"none", "send", "compare", "regenerate"}
  BY DEF Inv, TypeOK
<1>2. ASSUME NEW b \in Attempt, SendRequest(b) PROVE ~halted
  <2>1. op # "none"
    BY <1>2 DEF Inv, TypeOK, SendRequest, At, Over
  <2>2. att'[a] = att[a] \/ Cleared(b)
    BY <1>1, <1>2 DEF SendRequest, Fails, Ends, Goes, Record
  <2>3. att'[a] = att[a] \/ att'[a].sent = att[a].sent \/ ~Halting
    BY <2>2 DEF Cleared
  <2>4. ~Halting
    BY <1>1, <2>3
  <2> QED BY <2>1, <2>4 DEF Inv, Halts
<1>3. ASSUME NEW kind \in {"send", "compare", "regenerate"}, Start(kind) PROVE FALSE
  BY <1>3 DEF Start, NoAttempt
<1>4. CASE Operation
  BY <1>4 DEF Operation, ReadThread, ReadPath, SaveTurn, AfterAttempts, Decide, Launch,
     NoAttempt
<1>5. ASSUME NEW b \in Attempt, View(b) \/ Lease(b) \/ Create(b) PROVE FALSE
  BY <1>5, <1>1 DEF View, Lease, Create, Fails, Ends, Goes, Record
<1>6. ASSUME NEW b \in Attempt, SelectOutput(b) \/ Prepare(b) PROVE FALSE
  BY <1>6, <1>1 DEF SelectOutput, Prepare, Fails, Ends, Goes, Record
<1>7. ASSUME NEW b \in Attempt, BreakOff(b) \/ Respond(b) PROVE FALSE
  BY <1>7, <1>1 DEF BreakOff, Respond, Ends, Goes, Record
<1>8. CASE Stop \/ Dispose
  BY <1>8, <1>1 DEF Stop, Dispose, CancelRuns, Record
<1>9. CASE Inspect \/ Reconcile \/ Foreign \/ UNCHANGED vars
  BY <1>9 DEF Inspect, Reconcile, Foreign, vars
<1> QED BY <1>2, <1>3, <1>4, <1>5, <1>6, <1>7, <1>8, <1>9 DEF Next, Work

(* Nothing of an operation goes out to a provider after the user stopped   *)
(* it or the tab went.                                                     *)
THEOREM Silence == Spec => NothingSentAfterStop
<1>1. Inv /\ [Next]_vars => [\A a \in Attempt : att'[a].sent /\ ~att[a].sent => ~halted]_vars
  BY SendsUnstopped
<1> QED BY <1>1, Invariance, PTL DEF Spec, NothingSentAfterStop

-----------------------------------------------------------------------------
(* The end of a stopped operation.  TLC checks that it ends (StopEnds);    *)
(* what that rests on is that no attempt is left with a provider that was  *)
(* never told to stop: every other step of an attempt is the tab's own.    *)
(* dispose() cancels the single run only, hence the second condition.      *)
StoppedAreTold ==
  op # "none" /\ halted /\ (Ordinary \/ ~disposed) =>
     \A a \in Attempt : Running(a) => att[a].stopped

(* The steps of the attempts and of the operation: an attempt that runs    *)
(* after one ran before it and is as stopped as it was, or registers its   *)
(* run and is stopped if the controller halts.                             *)
LEMMA RunsOn ==
  ASSUME Inv, NEW a \in Attempt, Running(a)',
         \/ \E kind \in {"send", "compare", "regenerate"} : Start(kind)
         \/ Operation \/ \E b \in Attempt : Work(b) \/ Respond(b)
  PROVE  \/ Running(a) /\ att'[a].stopped = att[a].stopped
         \/ At(a, "lease") /\ att'[a].stopped = Halting
<1>1. att \in [Attempt -> Record]
  BY DEF Inv, TypeOK
<1>2. CASE \E kind \in {"send", "compare", "regenerate"} : Start(kind)
  BY <1>2 DEF Start, NoAttempt, Running, Started
<1>3. CASE Operation
  BY <1>3 DEF Operation, ReadThread, ReadPath, SaveTurn, AfterAttempts, Decide, Launch, NoAttempt, Running,
     Started
<1>4. ASSUME NEW b \in Attempt, Work(b) \/ Respond(b), a # b
      PROVE  att'[a] = att[a]
  BY <1>1, <1>4 DEF Work, View, Lease, Create, SelectOutput, Prepare, SendRequest, BreakOff,
     Respond, Fails, Ends, Goes
<1>5. ASSUME Lease(a)
      PROVE  At(a, "lease") /\ att'[a].stopped = Halting
  <2>1. ~Ends(a, "thrown")
    BY <1>1 DEF Ends, Goes, Running, Started, Record
  <2>. QED
    BY <1>1, <1>5, <2>1 DEF Lease, Record
<1>6. ASSUME View(a) \/ Respond(a) \/ BreakOff(a)
      PROVE  FALSE
  BY <1>1, <1>6 DEF View, Respond, BreakOff, Ends, Goes, Running, Started, Record
<1>7. ASSUME Create(a) \/ SelectOutput(a) \/ Prepare(a) \/ SendRequest(a)
      PROVE  Running(a) /\ att'[a].stopped = att[a].stopped
  <2>1. Running(a)
    BY <1>7 DEF Create, SelectOutput, Prepare, SendRequest, At, Running, Started
  <2>2. att'[a].stopped = att[a].stopped
    <3>1. CASE Create(a)
      BY <1>1, <3>1 DEF Create, Fails, Ends, Goes, Record
    <3>2. CASE SelectOutput(a)
      BY <1>1, <3>2 DEF SelectOutput, Fails, Ends, Goes, Record
    <3>3. CASE Prepare(a)
      BY <1>1, <3>3 DEF Prepare, Fails, Ends, Goes, Record
    <3>4. CASE SendRequest(a)
      BY <1>1, <3>4 DEF SendRequest, Fails, Ends, Goes, Record
    <3>. QED
      BY <1>7, <3>1, <3>2, <3>3, <3>4
  <2>. QED
    BY <2>1, <2>2
<1>. QED
  BY <1>2, <1>3, <1>4, <1>5, <1>6, <1>7 DEF Work, Running

(* Every step keeps a stopped operation's attempts told.                   *)
LEMMA ToldNext ==
  ASSUME Inv, Inv', StopReachesAll, StoppedAreTold, [Next]_vars
  PROVE  StoppedAreTold'
<1>. SUFFICES ASSUME op' # "none", halted', Ordinary' \/ ~disposed', NEW a \in Attempt, Running(a)'
              PROVE  att'[a].stopped
  BY DEF StoppedAreTold
<1>1. att \in [Attempt -> Record]
  BY DEF Inv, TypeOK
<1>2. CASE \E kind \in {"send", "compare", "regenerate"} : Start(kind)
  BY <1>2 DEF Start
<1>3. CASE Operation \/ \E b \in Attempt : Work(b) \/ Respond(b)
  <2>1. op' = op /\ halted' = halted /\ disposed' = disposed
    <3>1. op' = op \/ op' = "none"
      BY <1>3 DEF Operation, ReadThread, ReadPath, SaveTurn, AfterAttempts, Decide, Finish, Work, View, Lease,
         Create, SelectOutput, Prepare, SendRequest, BreakOff, Respond, Kept
    <3>2. UNCHANGED <<halted, disposed>>
      BY <1>3 DEF Operation, ReadThread, ReadPath, SaveTurn, AfterAttempts, Decide, Work, View, Lease,
         Create, SelectOutput, Prepare, SendRequest, BreakOff, Respond, Kept, Flags, Ghosts
    <3>. QED
      BY <3>1, <3>2
  <2>2. Halting
    BY <2>1 DEF Inv, Halts
  <2>3. \/ Running(a) /\ att'[a].stopped = att[a].stopped
        \/ att'[a].stopped = Halting
    BY <1>3, RunsOn
  <2>4. Running(a) => att[a].stopped
    BY <2>1 DEF StoppedAreTold, Ordinary
  <2>. QED
    BY <2>2, <2>3, <2>4
<1>4. CASE Stop
  <2>1. att'[a] = [att[a] EXCEPT !.stopped = TRUE]
    <3>1. Running(a)
      BY <1>1, <1>4 DEF Stop, CancelRuns, Running, Record
    <3>. QED
      BY <1>4, <3>1 DEF Stop, CancelRuns, StopReachesAll
  <2>. QED
    BY <1>1, <2>1 DEF Record
<1>5. CASE Dispose
  <2>1. Ordinary /\ run = a
    <3>1. Ordinary /\ Running(a)
      BY <1>1, <1>5 DEF Dispose, CancelRuns, Running, Record, Ordinary
    <3>. QED
      BY <3>1 DEF Inv, Registered
  <2>2. Running(a)
    BY <1>1, <1>5 DEF Dispose, CancelRuns, Running, Record
  <2>3. att'[a] = [att[a] EXCEPT !.stopped = TRUE]
    BY <1>5, <2>1, <2>2 DEF Dispose, CancelRuns
  <2>. QED
    BY <1>1, <2>3 DEF Record
<1>6. CASE Inspect \/ Reconcile \/ Foreign \/ UNCHANGED vars
  BY <1>6 DEF Inspect, Reconcile, Foreign, vars, Flags, Ghosts, StoppedAreTold, Running, Ordinary
<1>. QED
  BY <1>2, <1>3, <1>4, <1>5, <1>6 DEF Next

(* After a stop no request is left with a provider that was not told:      *)
(* whatever was being started, selected or handed over when the user       *)
(* pressed stop, its run is cancelled, so the operation ends by its own    *)
(* steps (chat.ts, stop and attempt).                                      *)
THEOREM Told == Spec => []StoppedAreTold
<1>1. Init => StoppedAreTold
  BY DEF Init, StoppedAreTold
<1>2. Inv => StopReachesAll
  BY InvReaches
<1>. QED
  BY <1>1, <1>2, InitInv, StepInv, ToldNext, PTL DEF Spec
=============================================================================
