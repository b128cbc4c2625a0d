----------------------- MODULE SelectionCatalogProofs -----------------------
(***************************************************************************)
(* Theorems about SelectionCatalog for any contexts, operations, archives  *)
(* and bounds.  Every conjunct of the inductive invariant Inv says what a  *)
(* step under the gate may rely on although its check was made earlier:    *)
(* nobody else moves the selection while the gate is held.                 *)
(***************************************************************************)
EXTENDS SelectionCatalog, FiniteSetTheorems, TLAPS

Definite == {"CANCELLED", "CONFLICT", "FAILED"}

(* What holds of a call at each stage of it.                               *)
CallOk(c) ==
  /\ call[c].stage # "idle" => pin[c] # None
  /\ Activating(c) => call[c].op \in Operation /\ args[call[c].op] # None
  /\ Activating(c) /\ call[c].stage # "idle" => Reviewed(c).expected = pin[c]
  /\ call[c].stage \notin {"idle", "closing"} => ~call[c].known
  /\ At(c, "admitted") => Writing(c) /\ Current(c)
  /\ At(c, "reviewing") => Activating(c) /\ Fresh(c) /\ call[c].op \notin Committed
  /\ At(c, "failing") =>
       /\ Activating(c) /\ call[c].value \in Definite
       /\ call[c].op \in Committed => call[c].published
  /\ At(c, "closing") /\ Activating(c) =>
       /\ call[c].value = "OK" \/ call[c].known => call[c].op \in Committed
       /\ call[c].value \in {"CANCELLED", "CONFLICT"} => call[c].op \notin Committed

CallsOk == \A c \in Context : CallOk(c)

(* The selected archive has not been left by any committed operation.      *)
Line ==
  /\ \A o \in Operation : state[o] # "none" => args[o] # None
  /\ head.archive \in retained
  /\ \A o \in Committed :
       /\ args[o].expected.archive \in retained \ {head.archive}
       /\ args[o].expected.revision < head.revision

Inv == TypeOK /\ Lineage /\ SourceFrozen /\ PreparedIsRunning /\ Line /\ CallsOk
-----------------------------------------------------------------------------
(* Lemmas.                                                                 *)
LEMMA InterruptedKeeps ==
  ASSUME TypeOK
  PROVE  /\ Interrupted \in [Operation -> {"none", "interrupted", "failed", "committed"}]
         /\ \A o \in Operation : /\ Interrupted[o] = "committed" <=> state[o] = "committed"
                                 /\ Interrupted[o] = "none" <=> state[o] = "none"
BY DEF TypeOK, Interrupted

(* Reading the catalog interrupts what was prepared, and no commit.        *)
LEMMA InterruptedState ==
  ASSUME Inv, state' = Interrupted
  PROVE  /\ state' \in [Operation -> {"none", "interrupted", "failed", "committed"}]
         /\ Committed' = Committed
         /\ \A o \in Operation : /\ state'[o] = "committed" <=> state[o] = "committed"
                                 /\ state'[o] # "none" => args[o] # None
<1>1. TypeOK /\ \A o \in Operation : state[o] # "none" => args[o] # None
  BY DEF Inv, Line
<1>2. \A o \in Operation : /\ state'[o] = "committed" <=> state[o] = "committed"
                           /\ state'[o] = "none" <=> state[o] = "none"
  BY <1>1, InterruptedKeeps
<1>3. Committed' = Committed
  BY <1>2 DEF Committed
<1>4. \A o \in Operation : state'[o] # "none" => args[o] # None
  BY <1>1, <1>2
<1>5. state' \in [Operation -> {"none", "interrupted", "failed", "committed"}]
  BY <1>1, InterruptedKeeps
<1> QED BY <1>2, <1>3, <1>4, <1>5

(* A step that leaves head, reviews and archives alone, and at most ends   *)
(* intents that are not committed.                                         *)
LEMMA Kept ==
  ASSUME Inv,
         head' = head, retained' = retained, args' = args, water' = water,
         \A o \in Operation : state'[o] = "committed" <=> state[o] = "committed",
         \A o \in Operation : state'[o] # "none" => args[o] # None
  PROVE  Committed' = Committed /\ Lineage' /\ SourceFrozen' /\ Line'
<1>1. Committed' = Committed
  BY DEF Committed
<1>2. Lineage'
  BY <1>1 DEF Inv, Lineage, Selected, Receipt
<1>3. SourceFrozen'
  BY <1>1 DEF Inv, SourceFrozen
<1>4. Line'
  BY <1>1 DEF Inv, Line
<1> QED BY <1>1, <1>2, <1>3, <1>4

(* The call of another context is as it was: either nothing it relies on   *)
(* has changed, or the gate is taken and it relies on nothing.             *)
LEMMA OthersOk ==
  ASSUME NEW c \in Context, NEW d \in Context, d # c,
         TypeOK, CallsOk,
         call'[d] = call[d], pin'[d] = pin[d],
         \A o \in Operation : args[o] # None => args'[o] = args[o],
         gate = c \/ (head' = head /\ retained' = retained /\ Committed' = Committed)
  PROVE  CallOk(d)'
<1>1. CallOk(d)
  BY DEF CallsOk
<1>2. Activating(d)' = Activating(d) /\ Writing(d)' = Writing(d)
  BY DEF Activating, Writing
<1>3. Activating(d) => call[d].op \in Operation /\ args'[call[d].op] # None
                         /\ args'[call[d].op] = args[call[d].op]
  BY <1>1 DEF CallOk
<1>4. CASE gate = c
  <2>1. ~Inside(d)
    BY <1>4 DEF TypeOK
  <2> QED BY <1>1, <1>2, <1>3, <2>1 DEF CallOk, Inside, At, Reviewed
<1>5. CASE head' = head /\ retained' = retained /\ Committed' = Committed
  BY <1>1, <1>2, <1>3, <1>5 DEF CallOk, At, Reviewed, Current, Selected, Fresh
<1> QED BY <1>4, <1>5

(* The record of a call stays a record.                                    *)
LEMMA CallFields ==
  ASSUME TypeOK, NEW c \in Context
  PROVE  /\ call[c].kind \in {"none", "write", "activate"}
         /\ call[c].op \in Operation \cup {None}
         /\ call[c].stage \in Stage /\ call[c].value \in Answer
         /\ call[c].aborted \in BOOLEAN /\ call[c].published \in BOOLEAN
         /\ call[c].known \in BOOLEAN
BY DEF TypeOK, Call

-----------------------------------------------------------------------------
(* Steps that find the gate free.                                          *)
LEMMA InvInit == Init => Inv
<1> SUFFICES ASSUME Init PROVE Inv
  OBVIOUS
<1>1. Committed = {}
  BY DEF Init, Committed
<1>2. Cardinality(Operation) \in Nat /\ Cardinality(Committed) = 0
  BY <1>1, FiniteAssumption, FS_CardinalityType, FS_EmptySet
<1>3. NoCall \in Call
  BY DEF NoCall, Call, Stage, Answer
<1>4. TypeOK
  BY <1>2, <1>3, ArchiveAssumption, NoneAssumption, BoundAssumption
     DEF Init, TypeOK, Inside, NoCall, Selection
<1>5. Lineage /\ SourceFrozen /\ Line
  BY <1>1, <1>2 DEF Init, Lineage, SourceFrozen, Line, Selected
<1>6. PreparedIsRunning /\ CallsOk
  BY DEF Init, PreparedIsRunning, CallsOk, CallOk, NoCall, At, Activating
<1> QED BY <1>4, <1>5, <1>6 DEF Inv

(* Opening keeps the invariant.                                            *)
LEMMA OpenStep ==
  ASSUME Inv, NEW c \in Context, Open(c)
  PROVE  Inv'
<1> USE DEF GateFree
<1>1. TypeOK /\ gate = None /\ call' = call /\ pin[c] = None
  BY DEF Inv, Open
<1>2. Committed' = Committed /\ Lineage' /\ SourceFrozen' /\ Line'
  <2>1. state' = Interrupted /\ head' = head /\ retained' = retained /\ args' = args /\ water' = water
    BY DEF Open
  <2>2. \A o \in Operation : /\ state'[o] = "committed" <=> state[o] = "committed"
                             /\ state'[o] # "none" => args[o] # None
    BY <2>1, InterruptedState
  <2> QED BY <2>1, <2>2, Kept
<1>3. Selected \in Selection
  BY <1>1 DEF TypeOK, Selected, Selection
<1>4. TypeOK'
  BY <1>1, <1>3, InterruptedKeeps DEF Open, TypeOK, Inside
<1>5. PreparedIsRunning'
  BY <1>1 DEF Open, PreparedIsRunning
<1>6. ASSUME NEW d \in Context PROVE CallOk(d)'
  <2>1. CASE d = c
    <3>1. call[c].stage = "idle" /\ CallOk(c)
      BY <1>1 DEF Inv, CallsOk, CallOk
    <3> QED BY <2>1, <3>1, <1>1 DEF CallOk, Open, At, Activating, Reviewed
  <2>2. CASE d # c
    BY <2>2, <1>1, <1>2, OthersOk DEF Inv, Open, TypeOK
  <2> QED BY <2>1, <2>2
<1> QED BY <1>2, <1>4, <1>5, <1>6 DEF Inv, CallsOk

(* Reading the catalog from a short-lived worker keeps the invariant.      *)
LEMMA InquireStep ==
  ASSUME Inv, Inquire
  PROVE  Inv'
<1> USE DEF GateFree
<1>1. TypeOK /\ gate = None /\ call' = call /\ pin' = pin
  BY DEF Inv, Inquire
<1>2. Committed' = Committed /\ Lineage' /\ SourceFrozen' /\ Line'
  <2>1. state' = Interrupted /\ head' = head /\ retained' = retained /\ args' = args /\ water' = water
    BY DEF Inquire
  <2>2. \A o \in Operation : /\ state'[o] = "committed" <=> state[o] = "committed"
                             /\ state'[o] # "none" => args[o] # None
    BY <2>1, InterruptedState
  <2> QED BY <2>1, <2>2, Kept
<1>3. TypeOK'
  BY <1>1, InterruptedKeeps DEF Inquire, TypeOK, Inside
<1>4. PreparedIsRunning'
  BY <1>1 DEF Inquire, PreparedIsRunning
<1>5. CallsOk'
  BY <1>1, <1>2 DEF Inv, Inquire, CallsOk, CallOk, At, Activating, Writing, Reviewed, Current,
                    Selected, Fresh
<1> QED BY <1>2, <1>3, <1>4, <1>5 DEF Inv

(* A review keeps the invariant.                                           *)
LEMMA ReviewStep ==
  ASSUME Inv, NEW c \in Context, NEW o \in Operation, Review(c, o)
  PROVE  Inv'
<1> USE DEF GateFree
<1>1. TypeOK /\ gate = None /\ call' = call /\ pin' = pin /\ args[o] = None
  BY DEF Inv, Review
<1>2. PICK a \in Archive \ {Default, pin[c].archive} :
        args' = [args EXCEPT ![o] = [expected |-> pin[c], candidate |-> a,
                                     water |-> water[pin[c].archive]]]
  BY DEF Review
<1>3. pin[c] \in Selection /\ args'[o] \in Args /\ args'[o] # None
  <2>1. pin[c] \in Selection /\ pin[c].archive \in Archive
    BY <1>1 DEF Review, Ready, TypeOK, Selection
  <2>2. args'[o] \in Args
    BY <2>1, <1>1, <1>2 DEF TypeOK, Args
  <2> QED BY <2>1, <2>2, NoneAssumption
<1>4. state' = Interrupted /\ head' = head /\ retained' = retained /\ water' = water
  BY DEF Review
<1>5. Committed' = Committed /\ o \notin Committed
  BY <1>1, <1>4, InterruptedState DEF Committed, Inv, Line
<1>6. \A p \in Operation : p # o => args'[p] = args[p]
  BY <1>1, <1>2 DEF TypeOK
<1>7. Lineage' /\ SourceFrozen' /\ Line'
  <2>1. \A p \in Committed : p \in Operation /\ args'[p] = args[p]
    BY <1>5, <1>6 DEF Committed
  <2>2. Lineage'
    BY <2>1, <1>4, <1>5 DEF Inv, Lineage, Selected, Receipt
  <2>3. SourceFrozen'
    BY <2>1, <1>4, <1>5 DEF Inv, SourceFrozen
  <2>4. Line'
    <3>1. \A p \in Operation : state'[p] # "none" => args'[p] # None
      BY <1>3, <1>4, <1>6, InterruptedState
    <3> QED BY <2>1, <3>1, <1>4, <1>5 DEF Inv, Line
  <2> QED BY <2>2, <2>3, <2>4
<1>8. TypeOK'
  BY <1>1, <1>2, <1>3, <1>4, InterruptedKeeps DEF Review, TypeOK, Inside
<1>9. PreparedIsRunning'
  BY <1>1 DEF Review, PreparedIsRunning
<1>10. CallsOk'
  BY <1>1, <1>3, <1>4, <1>5, <1>6
     DEF Inv, CallsOk, CallOk, At, Activating, Writing, Reviewed, Current, Selected, Fresh
<1> QED BY <1>7, <1>8, <1>9, <1>10 DEF Inv

(* A new call keeps the invariant.                                         *)
LEMMA AskStep ==
  ASSUME Inv, NEW c \in Context, NEW kind \in {"write", "activate"},
         NEW o \in Operation \cup {None},
         kind = "activate" => o \in Operation /\ args[o] # None /\ args[o].expected = pin[c],
         Ask(c, kind, o)
  PROVE  Inv'
<1> DEFINE r == [NoCall EXCEPT !.kind = kind, !.op = o, !.stage = "waiting"]
<1>1. TypeOK /\ CallsOk /\ pin[c] # None /\ call[c].stage = "idle"
  BY DEF Inv, Ask, Ready
<1>2. r \in Call /\ r.stage = "waiting" /\ r.op = o /\ r.kind = kind /\ ~r.known
  BY DEF NoCall, Call, Stage, Answer
<1>3. /\ call' \in [Context -> Call] /\ call'[c] = r
      /\ \A d \in Context : d # c => call'[d] = call[d]
  BY <1>1, <1>2 DEF Ask, TypeOK
<1>4. Committed' = Committed /\ Lineage' /\ SourceFrozen' /\ Line'
  BY Kept DEF Inv, Line, Ask, catalog
<1>5. TypeOK'
  <2>1. \A d \in Context : Inside(d)' <=> Inside(d)
    BY <1>1, <1>2, <1>3 DEF Inside
  <2>2. calls' \in 0 .. MaxCalls
    BY <1>1, BoundAssumption DEF Ask, TypeOK
  <2> QED BY <1>1, <1>3, <2>1, <2>2 DEF Ask, catalog, TypeOK
<1>6. PreparedIsRunning'
  <2>1. gate' = gate /\ state' = state /\ gate # c
    BY <1>1 DEF Ask, catalog, TypeOK, Inside
  <2>2. gate # None => gate \in Context
    BY <1>1 DEF TypeOK
  <2> QED BY <1>3, <2>1, <2>2 DEF Inv, PreparedIsRunning
<1>7. CallOk(c)'
  BY <1>1, <1>2, <1>3 DEF Ask, CallOk, At, Activating, Reviewed
<1>8. \A d \in Context : d # c => CallOk(d)'
  BY <1>1, <1>3, <1>4, OthersOk DEF Ask, catalog
<1> QED BY <1>4, <1>5, <1>6, <1>7, <1>8 DEF Inv, CallsOk

(* Entering the gate keeps the invariant.                                  *)
LEMMA EnterStep ==
  ASSUME Inv, NEW c \in Context, Enter(c)
  PROVE  Inv'
<1> USE DEF GateFree
<1>1. TypeOK /\ CallsOk /\ gate = None /\ call[c].stage = "waiting" /\ state' = Interrupted
  BY DEF Inv, Enter, At
<1>2. /\ call' \in [Context -> Call] /\ call'[c] = [call[c] EXCEPT !.stage = "open"]
      /\ \A d \in Context : d # c => call'[d] = call[d]
  BY <1>1 DEF Enter, Goes, TypeOK, Call, Stage
<1>3. /\ call'[c].stage = "open" /\ call'[c].kind = call[c].kind /\ call'[c].op = call[c].op
      /\ call'[c].known = call[c].known
  BY <1>1, <1>2 DEF TypeOK, Call
<1>4. Committed' = Committed /\ Lineage' /\ SourceFrozen' /\ Line'
  <2>1. head' = head /\ retained' = retained /\ args' = args /\ water' = water
    BY DEF Enter
  <2>2. \A o \in Operation : /\ state'[o] = "committed" <=> state[o] = "committed"
                             /\ state'[o] # "none" => args[o] # None
    BY <1>1, InterruptedState
  <2> QED BY <2>1, <2>2, Kept
<1>5. TypeOK'
  <2>1. \A d \in Context : Inside(d)' <=> gate' = d
    <3>1. gate' = c /\ Inside(c)'
      BY <1>3 DEF Enter, Inside
    <3>2. \A d \in Context : d # c => (Inside(d)' <=> Inside(d)) /\ ~Inside(d)
      BY <1>1, <1>2, NoneAssumption DEF Inside, TypeOK
    <3> QED BY <3>1, <3>2
  <2> QED BY <1>1, <1>2, <2>1, InterruptedKeeps DEF Enter, TypeOK
<1>6. PreparedIsRunning'
  BY <1>1, InterruptedState DEF PreparedIsRunning
<1>7. CallOk(c)'
  <2>1. CallOk(c)
    BY <1>1 DEF CallsOk
  <2> QED BY <1>1, <1>3, <2>1 DEF Enter, CallOk, At, Activating, Reviewed
<1>8. \A d \in Context : d # c => CallOk(d)'
  BY <1>1, <1>2, <1>4, OthersOk DEF Enter
<1> QED BY <1>4, <1>5, <1>6, <1>7, <1>8 DEF Inv, CallsOk

(* Steps of a context that leave everything but its call alone.            *)
LEMMA CallOnly ==
  ASSUME Inv, NEW c \in Context,
         UNCHANGED <<catalog, args, water, pin, gate, calls>>,
         unavailable' \in [Context -> BOOLEAN],
         call' \in [Context -> Call],
         \A d \in Context : d # c => call'[d] = call[d],
         call'[c].op = call[c].op,
         Inside(c)' <=> Inside(c), CallOk(c)'
  PROVE  Inv'
<1>1. TypeOK /\ CallsOk
  BY DEF Inv
<1>2. Committed' = Committed /\ Lineage' /\ SourceFrozen' /\ Line'
  BY Kept DEF Inv, Line, catalog
<1>3. TypeOK'
  <2>1. \A d \in Context : Inside(d)' <=> gate' = d
    BY <1>1 DEF TypeOK, Inside
  <2> QED BY <1>1, <2>1 DEF catalog, TypeOK
<1>4. PreparedIsRunning'
  <2>1. gate # None => gate \in Context
    BY <1>1 DEF TypeOK
  <2> QED BY <2>1 DEF Inv, PreparedIsRunning, catalog
<1>5. \A d \in Context : d # c => CallOk(d)'
  BY <1>1, <1>2, OthersOk DEF catalog
<1> QED BY <1>2, <1>3, <1>4, <1>5 DEF Inv, CallsOk

(* What the helpers of the actions make of a call.                         *)
LEMMA GoesCall ==
  ASSUME TypeOK, NEW c \in Context, NEW s \in Stage, Goes(c, s)
  PROVE  /\ call' \in [Context -> Call]
         /\ call'[c].stage = s /\ call'[c].kind = call[c].kind /\ call'[c].op = call[c].op
         /\ call'[c].value = call[c].value /\ call'[c].known = call[c].known
         /\ \A d \in Context : d # c => call'[d] = call[d]
<1> DEFINE r == [call[c] EXCEPT !.stage = s]
<1>1. call[c] \in Call /\ call \in [Context -> Call]
  BY DEF TypeOK
<1>2. /\ r \in Call /\ r.stage = s /\ r.kind = call[c].kind /\ r.op = call[c].op
      /\ r.value = call[c].value /\ r.known = call[c].known
  BY <1>1 DEF Call
<1>3. call' = [call EXCEPT ![c] = r]
  BY DEF Goes
<1> HIDE DEF r
<1> QED BY <1>1, <1>2, <1>3

(* What a call is after it yields a result.                                *)
LEMMA YieldsCall ==
  ASSUME TypeOK, NEW c \in Context, NEW s \in Stage, NEW v \in Answer, Yields(c, s, v)
  PROVE  /\ call' \in [Context -> Call]
         /\ call'[c].stage = s /\ call'[c].kind = call[c].kind /\ call'[c].op = call[c].op
         /\ call'[c].value = v /\ call'[c].known = call[c].known
         /\ call'[c].published = call[c].published
         /\ \A d \in Context : d # c => call'[d] = call[d]
<1> DEFINE r == [call[c] EXCEPT !.stage = s, !.value = v]
<1>1. call[c] \in Call /\ call \in [Context -> Call]
  BY DEF TypeOK
<1>2. /\ r \in Call /\ r.stage = s /\ r.kind = call[c].kind /\ r.op = call[c].op
      /\ r.value = v /\ r.known = call[c].known /\ r.published = call[c].published
  BY <1>1 DEF Call
<1>3. call' = [call EXCEPT ![c] = r]
  BY <1>1 DEF Yields
<1> HIDE DEF r
<1> QED BY <1>1, <1>2, <1>3

(* What a call is after its effect.                                        *)
LEMMA SucceedsCall ==
  ASSUME TypeOK, NEW c \in Context,
         call' = [call EXCEPT ![c].stage = "closing", ![c].value = "OK", ![c].known = TRUE]
  PROVE  /\ call' \in [Context -> Call]
         /\ call'[c].stage = "closing" /\ call'[c].kind = call[c].kind
         /\ call'[c].op = call[c].op /\ call'[c].value = "OK"
         /\ \A d \in Context : d # c => call'[d] = call[d]
<1> DEFINE r == [call[c] EXCEPT !.stage = "closing", !.value = "OK", !.known = TRUE]
<1>1. call[c] \in Call /\ call \in [Context -> Call]
  BY DEF TypeOK
<1>2. /\ r \in Call /\ r.stage = "closing" /\ r.kind = call[c].kind /\ r.op = call[c].op
      /\ r.value = "OK"
  BY <1>1 DEF Call, Stage, Answer
<1>3. call' = [call EXCEPT ![c] = r]
  BY <1>1
<1> HIDE DEF r
<1> QED BY <1>1, <1>2, <1>3

(* An open that fails keeps the invariant.                                 *)
LEMMA OpenFailsStep ==
  ASSUME Inv, NEW c \in Context, OpenFails(c)
  PROVE  Inv'
<1>1. TypeOK /\ CallOk(c) /\ call[c].stage = "waiting" /\ Yields(c, "idle", "FAILED")
  BY DEF Inv, CallsOk, OpenFails, At
<1>2. /\ call' \in [Context -> Call] /\ call'[c].stage = "idle"
      /\ call'[c].kind = call[c].kind /\ call'[c].op = call[c].op
      /\ \A d \in Context : d # c => call'[d] = call[d]
  BY <1>1, YieldsCall DEF Stage, Answer
<1>3. CallOk(c)'
  BY <1>1, <1>2 DEF OpenFails, CallOk, At, Activating
<1>4. unavailable' \in [Context -> BOOLEAN]
  BY <1>1, BoundAssumption DEF OpenFails, TypeOK
<1>5. Inside(c)' <=> Inside(c)
  BY <1>1, <1>2 DEF Inside
<1> QED BY <1>2, <1>3, <1>4, <1>5, CallOnly DEF OpenFails

(* An abort signal keeps the invariant.                                    *)
LEMMA AbortStep ==
  ASSUME Inv, NEW c \in Context, Abort(c)
  PROVE  Inv'
<1>1. TypeOK /\ CallOk(c)
  BY DEF Inv, CallsOk
<1>2. /\ call' \in [Context -> Call]
      /\ call'[c].stage = call[c].stage /\ call'[c].kind = call[c].kind
      /\ call'[c].op = call[c].op /\ call'[c].value = call[c].value
      /\ call'[c].known = call[c].known /\ call'[c].published = call[c].published
      /\ \A d \in Context : d # c => call'[d] = call[d]
  <2> DEFINE r == [call[c] EXCEPT !.aborted = TRUE]
  <2>1. call[c] \in Call /\ call \in [Context -> Call]
    BY <1>1 DEF TypeOK
  <2>2. /\ r \in Call /\ r.stage = call[c].stage /\ r.kind = call[c].kind
        /\ r.op = call[c].op /\ r.value = call[c].value /\ r.known = call[c].known
        /\ r.published = call[c].published
    BY <2>1 DEF Call
  <2>3. call' = [call EXCEPT ![c] = r]
    BY DEF Abort
  <2> HIDE DEF r
  <2> QED BY <2>1, <2>2, <2>3
<1>3. CallOk(c)'
  BY <1>1, <1>2
     DEF Abort, catalog, CallOk, At, Activating, Writing, Reviewed, Current, Selected, Fresh,
         Committed
<1>4. unavailable' \in [Context -> BOOLEAN]
  BY <1>1 DEF Abort, TypeOK
<1>5. Inside(c)' <=> Inside(c)
  BY <1>2 DEF Inside
<1> QED BY <1>2, <1>3, <1>4, <1>5, CallOnly DEF Abort

-----------------------------------------------------------------------------
(* Steps under the gate.                                                   *)
LEMMA ReportStep ==
  ASSUME Inv, NEW c \in Context,
         Admit(c) \/ Refuse(c) \/ Replay(c) \/ ReviewRefuses(c) \/ ReceiptFound(c)
  PROVE  Inv'
<1>1. TypeOK /\ CallOk(c)
  BY DEF Inv, CallsOk
<1>2. UNCHANGED <<catalog, args, water, pin, gate, calls>> /\ unavailable' = unavailable
  BY DEF Admit, Refuse, Replay, ReviewRefuses, ReceiptFound
<1>3. Committed' = Committed
  BY <1>2 DEF catalog, Committed
<1>4. unavailable' \in [Context -> BOOLEAN]
  BY <1>1, <1>2 DEF TypeOK
<1> DEFINE Moved == /\ call' \in [Context -> Call]
                    /\ \A d \in Context : d # c => call'[d] = call[d]
                    /\ call'[c].op = call[c].op
                    /\ Inside(c) /\ Inside(c)' /\ CallOk(c)'
<1>5. ASSUME Admit(c) PROVE Moved
  <2>1. Goes(c, "admitted") /\ Writing(c) /\ Current(c) /\ call[c].stage = "open"
    BY <1>5 DEF Admit, At
  <2>2. /\ call' \in [Context -> Call] /\ call'[c].stage = "admitted"
        /\ call'[c].known = call[c].known /\ call'[c].kind = call[c].kind /\ call'[c].op = call[c].op
        /\ \A d \in Context : d # c => call'[d] = call[d]
    BY <1>1, <2>1, GoesCall DEF Stage
  <2>3. CallOk(c)'
    BY <1>1, <1>2, <2>1, <2>2 DEF catalog, CallOk, At, Activating, Writing, Reviewed, Current, Selected
  <2> QED BY <2>1, <2>2, <2>3 DEF Inside
<1>6. ASSUME Refuse(c) PROVE Moved
  <2>1. PICK v \in Refusals(c) : Yields(c, "closing", v)
    BY <1>6 DEF Refuse
  <2>2. v \in Answer /\ v # "OK"
    BY <2>1 DEF Refusals, Answer
  <2>3. /\ call' \in [Context -> Call] /\ call'[c].stage = "closing"
        /\ call'[c].kind = call[c].kind /\ call'[c].op = call[c].op /\ call'[c].value = v
        /\ call'[c].known = call[c].known
        /\ \A d \in Context : d # c => call'[d] = call[d]
    BY <1>1, <2>1, <2>2, YieldsCall DEF Stage
  <2>4. call[c].stage \in {"open", "admitted"} /\ (Activating(c) => call[c].op \notin Committed)
    BY <1>6 DEF Refuse, At
  <2>5. Activating(c) => ~call[c].known
    BY <1>1, <2>4 DEF CallOk
  <2>6. CallOk(c)'
    BY <1>1, <1>2, <1>3, <2>2, <2>3, <2>4, <2>5 DEF CallOk, At, Activating, Reviewed
  <2> QED BY <2>3, <2>4, <2>6 DEF Inside
<1>7. ASSUME Replay(c) \/ ReceiptFound(c) PROVE Moved
  <2>1. /\ call[c].stage \in {"open", "failing"} /\ Activating(c) /\ call[c].op \in Committed
        /\ call' = [call EXCEPT ![c].stage = "closing", ![c].value = "OK", ![c].known = TRUE]
    BY <1>1, <1>7 DEF Replay, ReceiptFound, At, CallOk
  <2>2. /\ call' \in [Context -> Call] /\ call'[c].stage = "closing"
        /\ call'[c].kind = call[c].kind /\ call'[c].op = call[c].op /\ call'[c].value = "OK"
        /\ \A d \in Context : d # c => call'[d] = call[d]
    BY <1>1, <2>1, SucceedsCall
  <2>3. CallOk(c)'
    BY <1>1, <1>2, <1>3, <2>1, <2>2 DEF CallOk, At, Activating, Reviewed
  <2> QED BY <2>1, <2>2, <2>3 DEF Inside
<1>8. ASSUME ReviewRefuses(c) PROVE Moved
  <2>1. PICK v \in Definite : Yields(c, "failing", v)
    BY <1>8 DEF ReviewRefuses, Definite
  <2>2. /\ call' \in [Context -> Call] /\ call'[c].stage = "failing"
        /\ call'[c].known = call[c].known /\ call'[c].kind = call[c].kind /\ call'[c].op = call[c].op /\ call'[c].value = v
        /\ \A d \in Context : d # c => call'[d] = call[d]
    BY <1>1, <2>1, YieldsCall DEF Stage, Answer, Definite
  <2>3. call[c].stage = "reviewing" /\ Activating(c) /\ call[c].op \notin Committed
    BY <1>1, <1>8 DEF ReviewRefuses, At, CallOk
  <2>4. CallOk(c)'
    BY <1>1, <1>2, <1>3, <2>2, <2>3 DEF CallOk, At, Activating, Reviewed
  <2> QED BY <2>2, <2>3, <2>4 DEF Inside
<1>9. Moved
  BY <1>5, <1>6, <1>7, <1>8
<1> QED BY <1>2, <1>4, <1>9, CallOnly

(* A step of the holder of the gate that keeps it.                         *)
LEMMA HolderStep ==
  ASSUME Inv, NEW c \in Context, Inside(c), Inside(c)',
         UNCHANGED <<args, pin, gate>>,
         \A d \in Context : d # c => call'[d] = call[d],
         call'[c].op = call[c].op,
         \A o \in Operation : state'[o] = "prepared" => state[o] = "prepared" \/ o = call[c].op,
         CallOk(c)'
  PROVE  /\ \A d \in Context : Inside(d)' <=> gate' = d
         /\ PreparedIsRunning' /\ CallsOk'
<1>1. TypeOK /\ CallsOk /\ gate = c
  BY DEF Inv, TypeOK
<1>2. \A d \in Context : Inside(d)' <=> gate' = d
  BY <1>1 DEF TypeOK, Inside
<1>3. PreparedIsRunning'
  BY <1>1, NoneAssumption DEF Inv, PreparedIsRunning
<1>4. \A d \in Context : d # c => CallOk(d)'
  BY <1>1, OthersOk
<1> QED BY <1>2, <1>3, <1>4 DEF CallsOk

(* A write under the gate keeps the invariant.                             *)
LEMMA WriteStep ==
  ASSUME Inv, NEW c \in Context, Write(c)
  PROVE  Inv'
<1> DEFINE a == pin[c].archive
<1>1. /\ TypeOK /\ Line /\ CallOk(c) /\ call[c].stage = "admitted"
      /\ Writing(c) /\ pin[c] = Selected
  BY DEF Inv, CallsOk, Write, At, CallOk, Current
<1>2. a = head.archive /\ a \in Archive
  BY <1>1 DEF Selected, TypeOK
<1>3. /\ UNCHANGED <<head, state, retained, args, pin, unavailable, gate, calls>>
      /\ Committed' = Committed
  BY DEF Write, catalog, Committed
<1>4. /\ call' \in [Context -> Call] /\ call'[c].stage = "closing"
      /\ call'[c].kind = call[c].kind /\ call'[c].op = call[c].op
      /\ \A d \in Context : d # c => call'[d] = call[d]
  BY <1>1, SucceedsCall DEF Write
<1>5. water' \in [Archive -> 0 .. MaxWrites] /\ \A b \in Archive : b # a => water'[b] = water[b]
  BY <1>1, <1>2, BoundAssumption DEF Write, TypeOK
<1>6. CallOk(c)'
  BY <1>1, <1>3, <1>4 DEF CallOk, At, Activating, Writing, Reviewed
<1>7. (\A d \in Context : Inside(d)' <=> gate' = d) /\ PreparedIsRunning' /\ CallsOk'
  BY <1>1, <1>3, <1>4, <1>6, HolderStep DEF Inside
<1>8. TypeOK'
  BY <1>1, <1>3, <1>4, <1>5, <1>7 DEF TypeOK
<1>9. SourceFrozen'
  <2>1. \A o \in Committed : args[o].expected.archive \in Archive \ {a}
    BY <1>1, <1>2 DEF Line, TypeOK
  <2> QED BY <2>1, <1>3, <1>5 DEF Inv, SourceFrozen
<1>10. Lineage' /\ Line'
  BY <1>3 DEF Inv, Lineage, Line, Selected, Receipt
<1> QED BY <1>7, <1>8, <1>9, <1>10 DEF Inv

(* Recording an intent keeps the invariant.                                *)
LEMMA IntendStep ==
  ASSUME Inv, NEW c \in Context, Intend(c)
  PROVE  Inv'
<1> DEFINE o == call[c].op
<1>1. /\ TypeOK /\ CallOk(c) /\ call[c].stage = "open" /\ Activating(c) /\ Fresh(c)
      /\ o \in Operation /\ args[o] # None /\ o \notin Committed
  BY DEF Inv, CallsOk, Intend, At, CallOk
<1>2. UNCHANGED <<head, retained, args, water, pin, unavailable, gate, calls>>
  BY DEF Intend
<1>3. /\ state' = [state EXCEPT ![o] = "prepared"]
      /\ \A p \in Operation : p # o => state'[p] = state[p]
      /\ state'[o] = "prepared" /\ state[o] # "committed"
  BY <1>1 DEF Intend, TypeOK, Committed
<1>4. /\ call' \in [Context -> Call] /\ call'[c].stage = "reviewing"
      /\ call'[c].kind = call[c].kind /\ call'[c].op = o
      /\ call'[c].known = call[c].known
      /\ \A d \in Context : d # c => call'[d] = call[d]
  BY <1>1, GoesCall DEF Intend, Stage
<1>5. Committed' = Committed /\ Lineage' /\ SourceFrozen' /\ Line'
  <2>1. \A p \in Operation : /\ state'[p] = "committed" <=> state[p] = "committed"
                             /\ state'[p] # "none" => args[p] # None
    BY <1>1, <1>3 DEF Inv, Line
  <2> QED BY <2>1, <1>2, Kept
<1>6. CallOk(c)'
  BY <1>1, <1>2, <1>4, <1>5 DEF CallOk, At, Activating, Writing, Reviewed, Fresh
<1>7. (\A d \in Context : Inside(d)' <=> gate' = d) /\ PreparedIsRunning' /\ CallsOk'
  BY <1>1, <1>2, <1>3, <1>4, <1>6, HolderStep DEF Inside
<1>8. TypeOK'
  BY <1>1, <1>2, <1>3, <1>4, <1>7 DEF TypeOK
<1> QED BY <1>5, <1>7, <1>8 DEF Inv

(* Reading the operation back leaves an answer behind, and at most ends    *)
(* the intent.                                                             *)
LEMMA ReadBackStep ==
  ASSUME Inv, NEW c \in Context, NoReceipt(c) \/ Unreadable(c)
  PROVE  Inv'
<1> DEFINE o == call[c].op
<1>1. /\ TypeOK /\ CallOk(c) /\ call[c].stage = "failing" /\ Activating(c)
      /\ o \in Operation /\ args[o] # None /\ call[c].value \in Definite
      /\ o \in Committed => call[c].published
  BY DEF Inv, CallsOk, NoReceipt, Unreadable, At, CallOk
<1>2. UNCHANGED <<head, retained, args, water, pin, unavailable, gate, calls>>
  BY DEF NoReceipt, Unreadable
<1>3. MarkFailed(o)
  BY DEF NoReceipt, Unreadable
<1>4. PICK v \in Answer :
        /\ Yields(c, "closing", v) /\ v # "OK"
        /\ v \in {"CANCELLED", "CONFLICT"} => o \notin Committed
  <2>1. Failure(c) \in Definite
    BY <1>1 DEF Failure, Definite
  <2>2. CASE NoReceipt(c)
    BY <2>1, <2>2 DEF NoReceipt, Definite, Answer
  <2>3. CASE Unreadable(c)
    BY <1>1, <2>1, <2>3 DEF Unreadable, Uncertain, Definite, Answer
  <2> QED BY <2>2, <2>3
<1>5. /\ call' \in [Context -> Call] /\ call'[c].stage = "closing"
      /\ call'[c].kind = call[c].kind /\ call'[c].op = o /\ call'[c].value = v
      /\ call'[c].known = call[c].known
      /\ \A d \in Context : d # c => call'[d] = call[d]
  BY <1>1, <1>4, YieldsCall DEF Stage
<1>6. /\ state' \in [Operation -> {"none", "prepared", "interrupted", "failed", "committed"}]
      /\ \A p \in Operation : /\ state'[p] = "committed" <=> state[p] = "committed"
                              /\ state'[p] # "none" => args[p] # None
                              /\ state'[p] = "prepared" => state[p] = "prepared"
  BY <1>1, <1>3 DEF MarkFailed, TypeOK, Inv, Line
<1>7. Committed' = Committed /\ Lineage' /\ SourceFrozen' /\ Line'
  BY <1>2, <1>6, Kept
<1>8. CallOk(c)'
  BY <1>1, <1>2, <1>4, <1>5, <1>7 DEF CallOk, At, Activating, Reviewed
<1>9. (\A d \in Context : Inside(d)' <=> gate' = d) /\ PreparedIsRunning' /\ CallsOk'
  BY <1>1, <1>2, <1>5, <1>6, <1>8, HolderStep DEF Inside
<1>10. TypeOK'
  BY <1>1, <1>2, <1>5, <1>6, <1>9 DEF TypeOK
<1> QED BY <1>7, <1>9, <1>10 DEF Inv

(* Closing keeps the invariant.                                            *)
LEMMA CloseStep ==
  ASSUME Inv, NEW c \in Context, Close(c)
  PROVE  Inv'
<1>1. TypeOK /\ CallOk(c) /\ call[c].stage = "closing" /\ gate = c
  BY DEF Inv, CallsOk, Close, At, TypeOK, Inside
<1>2. UNCHANGED <<head, state, retained, args, water, pin, calls>> /\ gate' = None
  BY DEF Close, catalog
<1>3. /\ call' \in [Context -> Call] /\ call'[c].stage = "idle"
      /\ call'[c].kind = call[c].kind /\ call'[c].op = call[c].op
      /\ \A d \in Context : d # c => call'[d] = call[d]
  <2>1. CASE Goes(c, "idle")
    BY <1>1, <2>1, GoesCall DEF Stage
  <2>2. CASE \E v \in Answer : Yields(c, "idle", v)
    BY <1>1, <2>2, YieldsCall DEF Stage
  <2> QED BY <2>1, <2>2 DEF Close, Answer
<1>4. unavailable' \in [Context -> BOOLEAN]
  BY <1>1 DEF Close, TypeOK
<1>5. Committed' = Committed /\ Lineage' /\ SourceFrozen' /\ Line'
  BY <1>2, Kept DEF Inv, Line
<1>6. TypeOK'
  <2>1. \A d \in Context : ~Inside(d)'
    BY <1>1, <1>3 DEF TypeOK, Inside
  <2> QED BY <1>1, <1>2, <1>3, <1>4, <2>1, NoneAssumption DEF TypeOK
<1>7. PreparedIsRunning'
  BY <1>2 DEF PreparedIsRunning
<1>8. CallOk(c)'
  BY <1>1, <1>2, <1>3 DEF CallOk, At, Activating
<1>9. \A d \in Context : d # c => CallOk(d)'
  BY <1>1, <1>2, <1>3, OthersOk DEF Inv
<1> QED BY <1>5, <1>6, <1>7, <1>8, <1>9 DEF Inv, CallsOk

(* A crash keeps the invariant.                                            *)
LEMMA CrashStep ==
  ASSUME Inv, NEW c \in Context, Crash(c)
  PROVE  Inv'
<1>1. TypeOK /\ CallsOk
  BY DEF Inv
<1>2. UNCHANGED <<head, state, retained, args, water, calls>>
  BY DEF Crash, catalog
<1>3. /\ call' \in [Context -> Call] /\ call'[c] = NoCall
      /\ \A d \in Context : d # c => call'[d] = call[d] /\ pin'[d] = pin[d]
  BY <1>1 DEF Crash, TypeOK, Call, NoCall, Stage, Answer
<1>4. Committed' = Committed /\ Lineage' /\ SourceFrozen' /\ Line'
  BY <1>2, Kept DEF Inv, Line
<1>5. TypeOK'
  <2>1. \A d \in Context : Inside(d)' <=> gate' = d
    BY <1>1, <1>3, NoneAssumption DEF Crash, TypeOK, Inside, NoCall
  <2> QED BY <1>1, <1>2, <1>3, <2>1 DEF Crash, TypeOK
<1>6. PreparedIsRunning'
  <2>1. gate' # None => gate' = gate /\ gate \in Context /\ gate # c
    BY <1>1 DEF Crash, TypeOK
  <2> QED BY <1>2, <1>3, <2>1 DEF Inv, PreparedIsRunning
<1>7. CallOk(c)'
  BY <1>3 DEF CallOk, NoCall, At, Activating
<1>8. \A d \in Context : d # c => CallOk(d)'
  BY <1>1, <1>2, <1>3, <1>4, OthersOk
<1> QED BY <1>4, <1>5, <1>6, <1>7, <1>8 DEF Inv, CallsOk

(* A publication adds the operation to the end of the line.                *)
LEMMA DurableStep ==
  ASSUME Inv, NEW o \in Operation, o \notin Committed,
         args[o] # None, args[o].expected = Selected, args[o].candidate \notin retained,
         water[args[o].expected.archive] = args[o].water,
         head' = [archive |-> Receipt(args[o]).archive, revision |-> Receipt(args[o]).revision,
                  op |-> o],
         state' = [state EXCEPT ![o] = "committed"],
         retained' = retained \cup {args[o].candidate},
         UNCHANGED <<args, water>>
  PROVE  /\ Lineage' /\ SourceFrozen' /\ Line'
         /\ head' \in [archive : Archive, revision : 0 .. Cardinality(Operation),
                       op : Operation \cup {None}]
         /\ retained' \subseteq Archive
<1>1. TypeOK /\ Lineage /\ SourceFrozen /\ Line
  BY DEF Inv
<1>2. /\ args[o] \in Args /\ args[o].candidate \in Archive
      /\ args[o].expected.archive = head.archive
      /\ args[o].expected.revision = head.revision
  BY <1>1 DEF TypeOK, Args, Selected
<1>3. /\ head'.archive = args[o].candidate /\ head'.revision = head.revision + 1
      /\ head'.op = o
  BY <1>2 DEF Receipt
<1>4. Committed' = Committed \cup {o}
  BY <1>1 DEF Committed, TypeOK
<1>5. /\ Cardinality(Committed') = Cardinality(Committed) + 1
      /\ Cardinality(Committed') \in 0 .. Cardinality(Operation)
  <2>1. Committed' \subseteq Operation /\ Committed \subseteq Operation
    BY <1>4 DEF Committed
  <2>2. IsFiniteSet(Committed)
    BY <2>1, FiniteAssumption, FS_Subset
  <2>3. Cardinality(Committed') = Cardinality(Committed) + 1
    BY <2>2, <1>4, FS_AddElement
  <2>4. /\ Cardinality(Committed') <= Cardinality(Operation)
        /\ Cardinality(Committed') \in Nat /\ Cardinality(Operation) \in Nat
    BY <2>1, FiniteAssumption, FS_Subset, FS_CardinalityType
  <2> QED BY <2>3, <2>4
<1>6. head'.revision = Cardinality(Committed')
  BY <1>1, <1>3, <1>5 DEF Lineage
<1>7. Lineage'
  <2>1. retained' = {Default} \cup {args'[p].candidate : p \in Committed'}
    BY <1>1, <1>4 DEF Lineage
  <2>2. head'.op # None /\ head'.op \in Committed' /\ Selected' = Receipt(args[o])
    BY <1>3, <1>4, NoneAssumption DEF Selected, Receipt
  <2>3. ASSUME NEW p \in Committed', NEW q \in Committed', p # q
        PROVE  /\ args[p].candidate # args[q].candidate
               /\ args[p].expected.revision # args[q].expected.revision
    <3>1. \A x \in Committed : /\ args[x].candidate \in retained
                              /\ args[x].expected.revision < head.revision
      BY <1>1 DEF Lineage, Line
    <3>2. \A x \in Committed : args[x].expected.revision \in Nat
      BY <1>1 DEF Committed, TypeOK, Line, Args, Selection
    <3> QED BY <3>1, <3>2, <2>3, <1>1, <1>2, <1>4 DEF Lineage, TypeOK
  <2> QED BY <1>3, <1>6, <2>1, <2>2, <2>3 DEF Lineage, Receipt
<1>8. SourceFrozen'
  BY <1>1, <1>4 DEF SourceFrozen
<1>9. Line'
  <2>1. \A p \in Operation : state'[p] # "none" => args[p] # None
    BY <1>1 DEF Line, TypeOK
  <2>2. \A p \in Committed : args[p].expected.revision \in Nat
    BY <1>1 DEF Committed, TypeOK, Line, Args, Selection
  <2> QED BY <1>1, <1>2, <1>3, <1>4, <2>1, <2>2 DEF Line, TypeOK
<1>10. head' \in [archive : Archive, revision : 0 .. Cardinality(Operation),
                 op : Operation \cup {None}]
  BY <1>2, <1>3, <1>5, <1>6 DEF Receipt
<1> QED BY <1>1, <1>2, <1>7, <1>8, <1>9, <1>10 DEF TypeOK

(* Publishing a choice keeps the invariant.                                *)
LEMMA PublishStep ==
  ASSUME Inv, NEW c \in Context, Publish(c)
  PROVE  Inv'
<1> DEFINE o == call[c].op
           confirmed == [call[c] EXCEPT !.stage = "closing", !.value = "OK",
                                        !.published = TRUE, !.known = TRUE]
           unconfirmed == [call[c] EXCEPT !.stage = "failing", !.value = "FAILED",
                                          !.published = TRUE]
           said(r) == call' = [call EXCEPT ![c] = r]
           durable == /\ head' = [archive |-> Receipt(args[o]).archive,
                                  revision |-> Receipt(args[o]).revision, op |-> o]
                      /\ state' = [state EXCEPT ![o] = "committed"]
                      /\ retained' = retained \cup {args[o].candidate}
<1>1. /\ TypeOK /\ CallOk(c) /\ call[c].stage = "reviewing" /\ Activating(c)
      /\ o \in Operation /\ args[o] # None /\ o \notin Committed /\ ~call[c].known
      /\ args[o].expected = Selected /\ args[o].candidate \notin retained
      /\ water[args[o].expected.archive] = args[o].water
  BY DEF Inv, CallsOk, Publish, At, CallOk, Fresh, Fenced, Current, Reviewed
<1>2. UNCHANGED <<args, water, pin, unavailable, gate, calls>>
  BY DEF Publish
<1>3. call[c] \in Call /\ call \in [Context -> Call]
  BY <1>1 DEF TypeOK
<1>4. \/ durable /\ said(confirmed)
      \/ durable /\ said(unconfirmed)
      \/ UNCHANGED catalog /\ said(unconfirmed)
  <2>1. /\ said(confirmed) <=>
             call' = [call EXCEPT ![c].stage = "closing", ![c].value = "OK",
                                  ![c].published = TRUE, ![c].known = TRUE]
        /\ said(unconfirmed) <=>
             call' = [call EXCEPT ![c].stage = "failing", ![c].value = "FAILED",
                                  ![c].published = TRUE]
    BY <1>3
  <2> HIDE DEF said
  <2> QED BY <2>1 DEF Publish, Reviewed
<1>5. PICK r \in {confirmed, unconfirmed}, known \in BOOLEAN :
        /\ said(r) /\ r = IF known THEN confirmed ELSE unconfirmed
        /\ durable \/ (UNCHANGED catalog /\ ~known)
  <2> HIDE DEF said, durable, confirmed, unconfirmed
  <2> QED BY <1>4
<1>6. /\ call' \in [Context -> Call] /\ call'[c].stage = (IF known THEN "closing" ELSE "failing")
      /\ call'[c].kind = call[c].kind /\ call'[c].op = o /\ call'[c].known = known
      /\ call'[c].value = (IF known THEN "OK" ELSE "FAILED") /\ call'[c].published
      /\ \A d \in Context : d # c => call'[d] = call[d]
  <2>1. /\ r \in Call /\ r.stage = (IF known THEN "closing" ELSE "failing")
        /\ r.kind = call[c].kind /\ r.op = o /\ r.known = known
        /\ r.value = (IF known THEN "OK" ELSE "FAILED") /\ r.published
    <3>1. CASE known
      BY <1>3, <1>5, <3>1 DEF Call, Stage, Answer
    <3>2. CASE ~known
      BY <1>1, <1>3, <1>5, <3>2 DEF Call, Stage, Answer
    <3> QED BY <3>1, <3>2
  <2>2. call' = [call EXCEPT ![c] = r]
    BY <1>5
  <2> QED BY <1>3, <2>1, <2>2
<1> HIDE DEF said, confirmed, unconfirmed
<1>7. /\ Lineage' /\ SourceFrozen' /\ Line'
      /\ head' \in [archive : Archive, revision : 0 .. Cardinality(Operation),
                    op : Operation \cup {None}]
      /\ state' \in [Operation -> {"none", "prepared", "interrupted", "failed", "committed"}]
      /\ retained' \subseteq Archive
      /\ \A p \in Operation : state'[p] = "prepared" => state[p] = "prepared"
      /\ known => o \in Committed'
  <2>1. CASE durable
    <3>1. /\ state' \in [Operation -> {"none", "prepared", "interrupted", "failed", "committed"}]
          /\ \A p \in Operation : state'[p] = "prepared" => state[p] = "prepared"
          /\ o \in Committed'
      BY <1>1, <2>1 DEF TypeOK, Committed
    <3>2. /\ Lineage' /\ SourceFrozen' /\ Line'
          /\ head' \in [archive : Archive, revision : 0 .. Cardinality(Operation),
                        op : Operation \cup {None}]
          /\ retained' \subseteq Archive
      BY <1>1, <1>2, <2>1, DurableStep
    <3> QED BY <3>1, <3>2
  <2>2. CASE UNCHANGED catalog /\ ~known
    BY <1>1, <1>2, <2>2, Kept DEF catalog, Inv, Line, TypeOK
  <2> QED BY <1>5, <2>1, <2>2
<1>8. CallOk(c)'
  BY <1>1, <1>2, <1>5, <1>6, <1>7 DEF CallOk, At, Activating, Reviewed, Definite
<1>9. (\A d \in Context : Inside(d)' <=> gate' = d) /\ PreparedIsRunning' /\ CallsOk'
  BY <1>1, <1>2, <1>6, <1>7, <1>8, HolderStep DEF Inside
<1>10. TypeOK'
  BY <1>1, <1>2, <1>6, <1>7, <1>9 DEF TypeOK
<1> QED BY <1>7, <1>9, <1>10 DEF Inv

(* Every step keeps the invariant.                                         *)
LEMMA InvNext == Inv /\ [Next]_vars => Inv'
<1> SUFFICES ASSUME Inv, [Next]_vars PROVE Inv'
  OBVIOUS
<1>1. CASE UNCHANGED vars
  <2>1. UNCHANGED <<head, state, retained, args, water, pin, call, unavailable, gate, calls>>
    BY <1>1 DEF vars, catalog
  <2>2. Committed' = Committed /\ Lineage' /\ SourceFrozen' /\ Line'
    BY <2>1, Kept DEF Inv, Line
  <2>3. TypeOK' /\ PreparedIsRunning'
    BY <2>1 DEF Inv, TypeOK, PreparedIsRunning, Inside
  <2>4. CallsOk'
    BY <2>1, <2>2
       DEF Inv, CallsOk, CallOk, At, Activating, Writing, Reviewed, Current, Selected, Fresh
  <2> QED BY <2>2, <2>3, <2>4 DEF Inv
<1>2. CASE Inquire
  BY <1>2, InquireStep
<1>3. ASSUME NEW c \in Context,
             Open(c) \/ Enter(c) \/ OpenFails(c) \/ Close(c) \/ Abort(c) \/ Crash(c)
      PROVE  Inv'
  BY <1>3, OpenStep, EnterStep, OpenFailsStep, CloseStep, AbortStep, CrashStep
<1>4. ASSUME NEW c \in Context, Guarded(c) \/ Activation(c)
      PROVE  Inv'
  BY <1>4, ReportStep, WriteStep, IntendStep, PublishStep, ReadBackStep DEF Guarded, Activation
<1>5. ASSUME NEW c \in Context, AskWrite(c)
      PROVE  Inv'
  BY <1>5, AskStep DEF AskWrite
<1>6. ASSUME NEW c \in Context, NEW o \in Operation, Review(c, o) \/ AskActivation(c, o)
      PROVE  Inv'
  BY <1>6, ReviewStep, AskStep DEF AskActivation
<1> QED BY <1>1, <1>2, <1>3, <1>4, <1>5, <1>6 DEF Next

(* Types: what the catalog, the contexts and the gate hold, and that only  *)
(* the holder of the gate has the catalog open (managed-catalog.ts, gated).*)
THEOREM Typing == Spec => []TypeOK
<1>1. Inv => TypeOK
  BY DEF Inv
<1> QED BY <1>1, InvInit, InvNext, PTL DEF Spec

(* The committed activations form one line from the default archive to the *)
(* selected one, on which no archive occurs twice (managed-catalog.ts,     *)
(* current).                                                               *)
THEOREM OneLine == Spec => []Lineage
<1>1. Inv => Lineage
  BY DEF Inv
<1> QED BY <1>1, InvInit, InvNext, PTL DEF Spec

(* A replaced archive keeps the high-water that was reviewed, for good:    *)
(* the fence before publication and fenced() in every write suffice.       *)
THEOREM Frozen == Spec => []SourceFrozen
<1>1. Inv => SourceFrozen
  BY DEF Inv
<1> QED BY <1>1, InvInit, InvNext, PTL DEF Spec

(* While the gate is held, the only intent still prepared is that of the   *)
(* activation that holds it (managed-catalog.ts, open).                    *)
THEOREM Prepared == Spec => []PreparedIsRunning
<1>1. Inv => PreparedIsRunning
  BY DEF Inv
<1> QED BY <1>1, InvInit, InvNext, PTL DEF Spec

-----------------------------------------------------------------------------
(* A call is answered where its catalog fails to open, and where it closes.*)
LEMMA EndsWhere ==
  ASSUME Inv, [Next]_vars, NEW c \in Context, Ends(c)
  PROVE  OpenFails(c) \/ Close(c)
<1>1. TypeOK /\ call[c].stage # "idle" /\ call'[c].stage = "idle" /\ pin'[c] # None
  BY DEF Inv, Ends
<1>2. TypeOK /\ call[c] \in Call /\ call \in [Context -> Call]
  BY DEF Inv, TypeOK
<1>3. ASSUME NEW d \in Context, NEW s, Goes(d, s)
      PROVE  call'[c].stage \in {s, call[c].stage}
  BY <1>2, <1>3 DEF Goes, Call
<1>4. ASSUME NEW d \in Context, NEW s, NEW v, Yields(d, s, v)
      PROVE  call'[c].stage = s \/ (d # c /\ call'[c].stage = call[c].stage)
  BY <1>2, <1>4 DEF Yields, Call
<1>5. ASSUME NEW d \in Context, Enter(d) \/ Guarded(d) \/ Activation(d) PROVE FALSE
  <2>1. /\ ~Enter(d) /\ ~Admit(d) /\ ~Refuse(d) /\ ~Intend(d)
        /\ ~ReviewRefuses(d) /\ ~NoReceipt(d) /\ ~Unreadable(d)
    BY <1>1, <1>3, <1>4 DEF Enter, Admit, Refuse, Intend, ReviewRefuses, NoReceipt, Unreadable
  <2>2. ~Write(d) /\ ~Replay(d) /\ ~ReceiptFound(d)
    BY <1>1, <1>2 DEF Write, Replay, ReceiptFound, Call
  <2>3. ~Publish(d)
    BY <1>1, <1>2 DEF Publish, Call
  <2> QED BY <1>5, <2>1, <2>2, <2>3 DEF Guarded, Activation
<1>6. ASSUME NEW d \in Context, OpenFails(d) \/ Close(d) PROVE d = c
  BY <1>1, <1>2, <1>6 DEF OpenFails, Close, Goes, Yields
<1>7. ASSUME NEW d \in Context, Open(d) \/ AskWrite(d) \/ Abort(d) \/ Crash(d) PROVE FALSE
  <2>1. ~Open(d)
    BY <1>1 DEF Open
  <2>2. ~AskWrite(d)
    BY <1>1, <1>2 DEF AskWrite, Ask, NoCall
  <2>3. ~Abort(d)
    BY <1>1, <1>2 DEF Abort, Call
  <2>4. ~Crash(d)
    BY <1>1, <1>2 DEF Crash, TypeOK
  <2> QED BY <1>7, <2>1, <2>2, <2>3, <2>4
<1>8. ASSUME NEW d \in Context, NEW o \in Operation, Review(d, o) \/ AskActivation(d, o) PROVE FALSE
  BY <1>1, <1>2, <1>8 DEF Review, AskActivation, Ask, NoCall
<1>9. ~Inquire /\ ~UNCHANGED vars
  BY <1>1 DEF Inquire, vars
<1> QED BY <1>5, <1>6, <1>7, <1>8, <1>9 DEF Next

(* What is said of an activation is true when it is said, whatever was     *)
(* lost on the way (managed-catalog.ts, activateReviewed).                 *)
THEOREM Truth == Spec => AnswersTrue
<1>1. ASSUME Inv, [Next]_vars, NEW c \in Context, Ends(c), Activating(c)
      PROVE  /\ call'[c].value = "OK" => call[c].op \in Committed
             /\ call'[c].value \in {"CANCELLED", "CONFLICT"} => call[c].op \notin Committed
  <2>1. TypeOK /\ CallOk(c) /\ call[c] \in Call /\ call \in [Context -> Call]
    BY <1>1 DEF Inv, CallsOk, TypeOK
  <2>2. CASE OpenFails(c)
    BY <2>1, <2>2 DEF OpenFails, Yields, Call
  <2>3. CASE Close(c)
    <3>1. call[c].stage = "closing"
      BY <2>3 DEF Close, At
    <3>2. CASE Goes(c, "idle")
      BY <1>1, <2>1, <3>1, <3>2 DEF Goes, CallOk, At, Call
    <3>3. CASE Yields(c, "idle", IF Activating(c) /\ call[c].known THEN "OK" ELSE "FAILED")
      <4>1. call'[c].value = IF call[c].known THEN "OK" ELSE "FAILED"
        BY <1>1, <2>1, <3>3 DEF Yields, Call
      <4> QED BY <1>1, <2>1, <3>1, <4>1 DEF CallOk, At
    <3> QED BY <2>3, <3>2, <3>3 DEF Close
  <2> QED BY <1>1, <2>2, <2>3, EndsWhere
<1>2. Inv /\ [Next]_vars =>
        [\A c \in Context : Ends(c) /\ Activating(c) =>
           /\ call'[c].value = "OK" => call[c].op \in Committed
           /\ call'[c].value \in {"CANCELLED", "CONFLICT"} => call[c].op \notin Committed]_vars
  BY <1>1
<1> QED BY <1>2, InvInit, InvNext, PTL DEF Spec, AnswersTrue

-----------------------------------------------------------------------------
(* The catalog starts as the register does,                                *)
LEMMA RegisterInit == Init => Register!Init
BY DEF Init, Register!Init, Selected

(* and each of its steps is one of the register, or a stutter.             *)
LEMMA RegisterStep ==
  ASSUME Inv, [Next]_vars
  PROVE  [Register!Next]_(Register!vars)
<1>1. ASSUME UNCHANGED <<head, args, water>> PROVE UNCHANGED Register!vars
  BY <1>1 DEF Register!vars, Selected
<1>2. ASSUME NEW c \in Context, Write(c) PROVE Register!Write
  <2>1. pin[c] = Selected /\ UNCHANGED <<head, args>>
    BY <1>2 DEF Inv, CallsOk, CallOk, Write, At, Current, catalog
  <2> QED BY <1>2, <2>1 DEF Write, Register!Write, Selected
<1>3. ASSUME NEW c \in Context, NEW o \in Operation, Review(c, o) PROVE Register!Review(o)
  <2>1. pin[c] = Selected /\ UNCHANGED <<head, water>>
    BY <1>3 DEF Review, Current
  <2> QED BY <1>3, <2>1 DEF Review, Register!Review, Selected
<1>4. ASSUME NEW c \in Context, Publish(c) PROVE [Register!Next]_(Register!vars)
  <2> DEFINE o == call[c].op
  <2>1. /\ o \in Operation /\ args[o] # None /\ args[o].expected = Selected
        /\ args[o].water = water[Selected.archive] /\ UNCHANGED <<args, water>>
    BY <1>4 DEF Inv, CallsOk, CallOk, Publish, At, Fenced, Current, Reviewed, Activating
  <2>2. CASE UNCHANGED catalog
    BY <1>1, <2>1, <2>2 DEF catalog
  <2>3. CASE head' = [archive |-> Receipt(args[o]).archive,
                      revision |-> Receipt(args[o]).revision, op |-> o]
    <3>1. Selected' = [archive |-> args[o].candidate, revision |-> Selected.revision + 1]
      BY <2>1, <2>3 DEF Selected, Receipt
    <3>2. Register!Switch(o)
      BY <2>1, <3>1 DEF Register!Switch
    <3> QED BY <2>1, <3>2 DEF Register!Next
  <2> QED BY <1>4, <2>2, <2>3 DEF Publish, Reviewed
<1>5. ASSUME NEW c \in Context, Open(c) \/ AskWrite(c) \/ Enter(c) \/ OpenFails(c) \/ Close(c)
                                  \/ Abort(c) \/ Crash(c) \/ Admit(c) \/ Refuse(c)
      PROVE  UNCHANGED <<head, args, water>>
  BY <1>5 DEF Open, AskWrite, Ask, Enter, OpenFails, Close, Abort, Crash, Admit, Refuse, catalog
<1>6. ASSUME NEW c \in Context, Replay(c) \/ Intend(c) \/ ReviewRefuses(c) \/ ReceiptFound(c)
                                  \/ NoReceipt(c) \/ Unreadable(c)
      PROVE  UNCHANGED <<head, args, water>>
  BY <1>6 DEF Replay, Intend, ReviewRefuses, ReceiptFound, NoReceipt, Unreadable, catalog
<1>7. ASSUME NEW c \in Context, NEW o \in Operation, AskActivation(c, o)
      PROVE  UNCHANGED <<head, args, water>>
  BY <1>7 DEF AskActivation, Ask, catalog
<1>8. Inquire \/ UNCHANGED vars => UNCHANGED <<head, args, water>>
  BY DEF Inquire, vars, catalog
<1> QED BY <1>1, <1>2, <1>3, <1>4, <1>5, <1>6, <1>7, <1>8
        DEF Next, Guarded, Activation, Register!Next

(* The catalog and the workers that use it implement the register: one     *)
(* selected archive, written only while selected, and replaced in one step *)
(* by what was reviewed against it.                                        *)
THEOREM Refinement == Spec => ActsAsRegister
<1>1. Inv /\ [Next]_vars => [Register!Next]_(Register!vars)
  BY RegisterStep
<1> QED BY <1>1, InvInit, InvNext, RegisterInit, PTL DEF Spec, ActsAsRegister, Register!Spec


-----------------------------------------------------------------------------
(* An archive that was replaced is out of use for good: it is neither      *)
(* written nor selected again, by whatever context and however old its     *)
(* view of the selection (managed-catalog.ts, guard and retained).         *)
ReplacedForGood ==
  [][\A a \in retained \ {head.archive} :
       /\ a \in retained' /\ head'.archive # a
       /\ water'[a] = water[a]]_vars

(* Only a publication moves the head, to an archive that was never         *)
(* retained, and only the selected archive is written.                     *)
LEMMA Replaces ==
  ASSUME Inv, [Next]_vars, NEW a \in retained \ {head.archive}
  PROVE  a \in retained' /\ head'.archive # a /\ water'[a] = water[a]
<1>1. CASE UNCHANGED <<head, retained, water>>
  BY <1>1
<1>2. ASSUME NEW c \in Context, Write(c)
      PROVE  a \in retained' /\ head'.archive # a /\ water'[a] = water[a]
  <2>1. pin[c].archive = head.archive /\ UNCHANGED <<head, retained>>
    BY <1>2 DEF Inv, CallsOk, CallOk, Write, At, Current, Selected, catalog
  <2>2. water' = [water EXCEPT ![pin[c].archive] = @ + 1]
    BY <1>2 DEF Write
  <2>3. water \in [Archive -> 0 .. MaxWrites] /\ a \in Archive
    BY DEF Inv, TypeOK
  <2> QED BY <2>1, <2>2, <2>3
<1>3. ASSUME NEW c \in Context, Publish(c)
      PROVE  a \in retained' /\ head'.archive # a /\ water'[a] = water[a]
  <2>1. Reviewed(c).candidate \notin retained
    BY <1>3 DEF Inv, CallsOk, CallOk, Publish, At, Fresh
  <2>2. CASE UNCHANGED catalog
    BY <1>3, <2>2 DEF Publish, catalog
  <2>3. CASE ~UNCHANGED catalog
    <3>1. /\ head'.archive = Reviewed(c).candidate /\ water' = water
          /\ retained' = retained \cup {Reviewed(c).candidate}
      BY <1>3, <2>3 DEF Publish, Receipt
    <3> QED BY <2>1, <3>1
  <2> QED BY <2>2, <2>3
<1>4. ASSUME NEW c \in Context, Open(c) \/ AskWrite(c) \/ Enter(c) \/ OpenFails(c) \/ Close(c)
                                  \/ Abort(c) \/ Crash(c) \/ Admit(c) \/ Refuse(c)
      PROVE  UNCHANGED <<head, retained, water>>
  BY <1>4 DEF Open, AskWrite, Ask, Enter, OpenFails, Close, Abort, Crash, Admit, Refuse, catalog
<1>5. ASSUME NEW c \in Context, Replay(c) \/ Intend(c) \/ ReviewRefuses(c) \/ ReceiptFound(c)
                                  \/ NoReceipt(c) \/ Unreadable(c)
      PROVE  UNCHANGED <<head, retained, water>>
  BY <1>5 DEF Replay, Intend, ReviewRefuses, ReceiptFound, NoReceipt, Unreadable, catalog
<1>6. ASSUME NEW c \in Context, NEW o \in Operation, Review(c, o) \/ AskActivation(c, o)
      PROVE  UNCHANGED <<head, retained, water>>
  BY <1>6 DEF Review, AskActivation, Ask, catalog
<1>7. Inquire \/ UNCHANGED vars => UNCHANGED <<head, retained, water>>
  BY DEF Inquire, vars, catalog
<1> QED BY <1>1, <1>2, <1>3, <1>4, <1>5, <1>6, <1>7 DEF Next, Guarded, Activation

(* A switch cannot be undone by a later one, nor by a worker that still    *)
(* has the replaced archive open: what was left stays as it was left.      *)
THEOREM Retired == Spec => ReplacedForGood
<1>1. Inv /\ [Next]_vars =>
        [\A a \in retained \ {head.archive} :
           /\ a \in retained' /\ head'.archive # a
           /\ water'[a] = water[a]]_vars
  BY Replaces
<1> QED BY <1>1, InvInit, InvNext, PTL DEF Spec, ReplacedForGood
=============================================================================
