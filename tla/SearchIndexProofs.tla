-------------------------- MODULE SearchIndexProofs --------------------------
(***************************************************************************)
(* Theorems about SearchIndex for any number of sources, chunks and pages  *)
(* and any number of changes and interruptions.                            *)
(***************************************************************************)
EXTENDS SearchIndex, FiniteSetTheorems, WellFoundedInduction, TLAPS

(* A run is one of a living epoch; while its source is the one it began    *)
(* with, the source is there.                                              *)
RunIsLive ==
  work # None => /\ work.epoch \in Live
                 /\ work.text <= text[work.source]
                 /\ Current => present[work.source]

(* NothingForgotten tells a source that is there from one that has gone:   *)
(* a sweep finds the first again, only the queue knows of the second.      *)
Remembered ==
  ~broken => \A e \in Live, s \in Source :
    \/ queued[e][s] # "no"
    \/ IF present[s] THEN Visible(e, s) \/ sweep[e] < s ELSE head[e][s] = None

Inv ==
  /\ TypeOK /\ EmptyEpoch /\ RunIsLive /\ VisibleIsCurrent /\ Remembered /\ GarbageIsSeen
-----------------------------------------------------------------------------
(* What the actions use of the constants.                                  *)
LEMMA Sizes ==
  /\ N \in Nat \ {0} /\ Size \in Nat \ {0} /\ Page \in Nat \ {0}
  /\ MaxText \in Nat /\ MaxCuts \in Nat /\ None \notin Head \cup Work
BY SizeAssumption, BoundAssumption, NoneAssumption

(* One row of the queue, one head.                                         *)
LEMMA QueuedAt ==
  ASSUME TypeOK, NEW e \in Epoch, NEW s \in Source, NEW v \in {"no", "queued", "failed"},
         queued' = [queued EXCEPT ![e][s] = v]
  PROVE  /\ queued' \in [Epoch -> [Source -> {"no", "queued", "failed"}]]
         /\ \A f \in Epoch, t \in Source :
              queued'[f][t] = IF f = e /\ t = s THEN v ELSE queued[f][t]
BY DEF TypeOK

(* One head, of one epoch.                                                 *)
LEMMA HeadAt ==
  ASSUME TypeOK, NEW e \in Epoch, NEW s \in Source, NEW v \in Head \cup {None},
         head' = [head EXCEPT ![e][s] = v]
  PROVE  /\ head' \in [Epoch -> [Source -> Head \cup {None}]]
         /\ \A f \in Epoch, t \in Source :
              head'[f][t] = IF f = e /\ t = s THEN v ELSE head[f][t]
BY DEF TypeOK

(* A failure leaves the same sources in the queue.                         *)
LEMMA FailsAt ==
  ASSUME TypeOK, NEW e \in Epoch, NEW s \in Source, Fails(e, s)
  PROVE  \A f \in Epoch, t \in Source : queued'[f][t] = "no" <=> queued[f][t] = "no"
BY DEF TypeOK, Fails

(* A set of numbers has a least one.                                       *)
LEMMA Least ==
  ASSUME NEW S \in SUBSET Nat, S # {}
  PROVE  \E x \in S : \A y \in S : x <= y
<1> DEFINE R == OpToRel(<, Nat)
<1>1. PICK x \in S : \A y \in S : <<y, x>> \notin R
  <2>1. IsWellFoundedOn(R, Nat)
    BY NatLessThanWellFounded
  <2> HIDE DEF R
  <2> QED BY <2>1, WFMin
<1>2. \A y \in S : y < x => <<y, x>> \in R
  BY DEF OpToRel
<1> HIDE DEF R
<1>3. \A y \in S : ~(y < x)
  BY <1>1, <1>2
<1>4. \A y \in S : y \in Nat /\ x \in Nat
  OBVIOUS
<1> QED BY <1>3, <1>4

(* The first Page of some sources in key order.                            *)
FirstPage(rest) == {s \in rest : Cardinality({t \in rest : t <= s}) <= Page}
(* A page is a beginning of the sources, and one not full is all of them.  *)
LEMMA PageIsFirst ==
  ASSUME NEW rest \in SUBSET Source
  PROVE  /\ \A s \in rest, l \in FirstPage(rest) : s <= l => s \in FirstPage(rest)
         /\ Cardinality(FirstPage(rest)) < Page => FirstPage(rest) = rest
<1> DEFINE page == FirstPage(rest)
           upto(s) == {t \in rest : t <= s}
<1>1. IsFiniteSet(rest) /\ \A s \in rest : s \in Nat
  <2>1. IsFiniteSet(1 .. N)
    BY Sizes, FS_Interval
  <2>2. IsFiniteSet(rest)
    BY <2>1, FS_Subset DEF Source
  <2> QED BY <2>2 DEF Source
<1>2. \A s : IsFiniteSet(upto(s)) /\ Cardinality(upto(s)) \in Nat
  <2> SUFFICES ASSUME NEW s PROVE IsFiniteSet(upto(s)) /\ Cardinality(upto(s)) \in Nat
    OBVIOUS
  <2>1. upto(s) \in SUBSET rest
    OBVIOUS
  <2> HIDE DEF upto
  <2> QED BY <1>1, <2>1, FS_Subset, FS_CardinalityType
<1>3. \A s : s \in page <=> s \in rest /\ Cardinality(upto(s)) <= Page
  BY DEF FirstPage
<1> HIDE DEF page
<1>4. \A s : s \in page => s \in rest
  BY <1>3
<1>5. ASSUME NEW s \in rest, NEW l \in page, s <= l PROVE s \in page
  <2>1. \A t \in rest : t <= s => t <= l
    BY <1>1, <1>4, <1>5
  <2>2. upto(s) \in SUBSET upto(l)
    BY <2>1
  <2> HIDE DEF upto
  <2>3. Cardinality(upto(s)) <= Cardinality(upto(l)) /\ Cardinality(upto(l)) <= Page
    BY <1>2, <1>3, <2>2, FS_Subset
  <2>4. Cardinality(upto(s)) \in Nat /\ Cardinality(upto(l)) \in Nat
    BY <1>2
  <2>5. Cardinality(upto(s)) <= Page
    BY <2>3, <2>4, SizeAssumption
  <2> QED BY <1>3, <2>5
<1>6. ASSUME Cardinality(page) < Page, page # rest PROVE FALSE
  <2>1. PICK s \in rest \ page : \A t \in rest \ page : s <= t
    <3>1. rest \ page \in SUBSET Nat /\ rest \ page # {}
      BY <1>1, <1>4, <1>6
    <3> QED BY <3>1, Least
  <2>2. \A t \in rest : t <= s => t \in page \cup {s}
    BY <1>1, <2>1
  <2>3. upto(s) \in SUBSET (page \cup {s})
    BY <2>2
  <2>4. IsFiniteSet(page) /\ Cardinality(page) \in Nat
    <3>1. page \in SUBSET rest
      BY <1>4
    <3> QED BY <1>1, <3>1, FS_Subset, FS_CardinalityType
  <2> HIDE DEF upto
  <2>5. IsFiniteSet(page \cup {s}) /\ Cardinality(page \cup {s}) = Cardinality(page) + 1
    BY <2>1, <2>4, FS_AddElement
  <2>6. Cardinality(upto(s)) <= Cardinality(page \cup {s})
    BY <2>3, <2>5, FS_Subset
  <2>7. Cardinality(upto(s)) \in Nat
    BY <1>2
  <2>8. Cardinality(upto(s)) <= Page
    BY <1>6, <2>4, <2>5, <2>6, <2>7, SizeAssumption
  <2> QED BY <1>3, <2>1, <2>8
<1> QED BY <1>5, <1>6 DEF page

(* An expansion queues or skips each source that it sweeps over.           *)
LEMMA Expanded ==
  ASSUME Inv, Expand
  PROVE  /\ sweep' \in [Epoch -> 0 .. N + 1]
         /\ queued' \in [Epoch -> [Source -> {"no", "queued", "failed"}]]
         /\ \A e \in Epoch \ Live : sweep'[e] = sweep[e] /\ queued'[e] = queued[e]
         /\ \A e \in Live, s \in Source :
              /\ queued[e][s] # "no" => queued'[e][s] # "no"
              /\ present[s] /\ sweep[e] < s =>
                   Visible(e, s) \/ queued'[e][s] = "queued" \/ sweep'[e] < s
<1>1. PICK e \in Epoch : PicksScope(e)
        /\ LET rest == {s \in Source : present[s] /\ s > sweep[e]}
               page == {s \in rest : Cardinality({t \in rest : t <= s}) <= Page}
           IN /\ queued' = [queued EXCEPT ![e] = [s \in Source |->
                              IF s \in page /\ ~Visible(e, s) THEN "queued" ELSE @[s]]]
              /\ IF LastPage(page) THEN sweep' = [sweep EXCEPT ![e] = N + 1]
                 ELSE \E last \in page : /\ \A t \in page : t <= last
                                         /\ sweep' = [sweep EXCEPT ![e] = last]
  BY DEF Expand
<1> DEFINE rest == {s \in Source : present[s] /\ s > sweep[e]}
           page == {s \in rest : Cardinality({t \in rest : t <= s}) <= Page}
<1>2. /\ queued' = [queued EXCEPT ![e] = [s \in Source |->
                      IF s \in page /\ ~Visible(e, s) THEN "queued" ELSE queued[e][s]]]
      /\ IF LastPage(page) THEN sweep' = [sweep EXCEPT ![e] = N + 1]
         ELSE \E last \in page : /\ \A t \in page : t <= last
                                 /\ sweep' = [sweep EXCEPT ![e] = last]
  BY <1>1 DEF Inv, TypeOK
<1>3. /\ \A s \in rest, l \in page : s <= l => s \in page
      /\ LastPage(page) => page = rest
  <2>1. rest \in SUBSET Source
    OBVIOUS
  <2>2. page = FirstPage(rest)
    BY DEF FirstPage
  <2> HIDE DEF rest, page
  <2> QED BY <2>1, <2>2, PageIsFirst DEF LastPage
<1>4. e \in Live
  BY <1>1, Sizes DEF PicksScope, Inv, EmptyEpoch, Live, Epoch
<1>5. page \subseteq rest /\ rest \subseteq Source
  OBVIOUS
<1>6. \A s \in Source : present[s] /\ sweep[e] < s => s \in rest
  BY DEF Inv, TypeOK, Source
<1> HIDE DEF page, rest
<1>7. /\ queued' \in [Epoch -> [Source -> {"no", "queued", "failed"}]]
      /\ \A s \in page : Visible(e, s) \/ queued'[e][s] = "queued"
      /\ \A s \in Source : queued'[e][s] = queued[e][s] \/ queued'[e][s] = "queued"
      /\ \A f \in Epoch \ {e} : queued'[f] = queued[f]
  BY <1>2, <1>5 DEF Inv, TypeOK
<1>8. /\ sweep' \in [Epoch -> 0 .. N + 1]
      /\ \A f \in Epoch \ {e} : sweep'[f] = sweep[f]
      /\ \A s \in rest : s \in page \/ sweep'[e] < s
  <2>1. CASE LastPage(page)
    BY <1>2, <1>3, <2>1, Sizes DEF Inv, TypeOK
  <2>2. CASE ~LastPage(page)
    <3>1. PICK last \in page : sweep' = [sweep EXCEPT ![e] = last]
      BY <1>2, <2>2
    <3>2. last \in 0 .. N + 1
      BY <1>5, Sizes DEF Source
    <3>3. \A s \in rest : s \in page \/ last < s
      BY <1>3, <1>5, Sizes DEF Source
    <3> QED BY <3>1, <3>2, <3>3 DEF Inv, TypeOK
  <2> QED BY <2>1, <2>2
<1>9. ASSUME NEW f \in Live, NEW s \in Source
      PROVE  /\ queued[f][s] # "no" => queued'[f][s] # "no"
             /\ present[s] /\ sweep[f] < s =>
                  Visible(f, s) \/ queued'[f][s] = "queued" \/ sweep'[f] < s
  BY <1>6, <1>7, <1>8 DEF Live, Epoch
<1>10. \A f \in Epoch \ Live : sweep'[f] = sweep[f] /\ queued'[f] = queued[f]
  BY <1>4, <1>7, <1>8
<1> QED BY <1>7, <1>8, <1>9, <1>10

(* A change marks heads and nothing else of them.                          *)
LEMMA StaleHeads ==
  ASSUME TypeOK, NEW S \in SUBSET Source, head' = Stale(S)
  PROVE  /\ head' \in [Epoch -> [Source -> Head \cup {None}]]
         /\ \A e \in Epoch, s \in Source :
              /\ head'[e][s] = None <=> head[e][s] = None
              /\ s \in S => ~Visible(e, s)'
              /\ s \notin S => head'[e][s] = head[e][s]
<1>1. ASSUME NEW h \in Head
      PROVE  [h EXCEPT !.stale = TRUE] \in Head /\ [h EXCEPT !.stale = TRUE].stale
  BY DEF Head
<1>2. \A e \in Epoch, s \in Source : head[e][s] \in Head \cup {None}
  BY DEF TypeOK
<1>3. \A e \in Epoch, s \in Source :
        head'[e][s] = IF s \in S /\ head[e][s] # None THEN [head[e][s] EXCEPT !.stale = TRUE]
                      ELSE head[e][s]
  BY DEF Stale
<1>4. head' \in [Epoch -> [Source -> Head \cup {None}]]
  BY <1>1, <1>2 DEF Stale
<1>5. ASSUME NEW e \in Epoch, NEW s \in Source
      PROVE  /\ head'[e][s] = None <=> head[e][s] = None
             /\ s \in S => ~Visible(e, s)'
             /\ s \notin S => head'[e][s] = head[e][s]
  <2>1. head[e][s] # None => [head[e][s] EXCEPT !.stale = TRUE] # None
    BY <1>1, <1>2, Sizes
  <2>2. s \in S /\ head[e][s] # None => head'[e][s].stale
    BY <1>1, <1>2, <1>3
  <2> QED BY <1>3, <2>1, <2>2 DEF Visible
<1> QED BY <1>4, <1>5

(* The invariant holds at the start.                                       *)
LEMMA InitInv == ASSUME Init PROVE Inv
<1>1. TypeOK
  <2>1. /\ queued \in [Epoch -> [Source -> {"no", "queued", "failed"}]]
        /\ head \in [Epoch -> [Source -> Head \cup {None}]] /\ work \in Work \cup {None}
    BY DEF Init, NoRows, NoHeads
  <2>2. /\ sweep \in [Epoch -> 0 .. N + 1] /\ text \in [Source -> 0 .. MaxText]
        /\ litter \in Nat /\ cuts \in 0 .. MaxCuts
    BY Sizes DEF Init
  <2>3. rebuilding \in BOOLEAN /\ maybe \in BOOLEAN /\ slice \in BOOLEAN /\ broken \in BOOLEAN
    BY DEF Init
  <2> QED BY <2>1, <2>2, <2>3 DEF Init, TypeOK
<1>2. EmptyEpoch /\ RunIsLive /\ GarbageIsSeen
  BY DEF Init, EmptyEpoch, RunIsLive, GarbageIsSeen, NoRows, NoHeads, Epoch,
     Source
<1>3. VisibleIsCurrent /\ Remembered
  BY DEF Init, VisibleIsCurrent, Remembered, Visible, NoHeads, Live, Epoch,
     Source
<1> QED BY <1>1, <1>2, <1>3 DEF Inv

(* DropStale keeps the invariant.                                         *)
LEMMA DropStaleKeeps ==
  ASSUME Inv, DropStale, ~broken, slice' \in BOOLEAN,
         UNCHANGED <<canonical, broken, cuts>>
  PROVE  Inv'
<1>1. TypeOK'
  BY DEF Inv, DropStale, Release, OrphansOfRun, TypeOK, Epoch, Source, Live,
     canonical, Head, Work
<1>2. EmptyEpoch'
  BY DEF Inv, DropStale, EmptyEpoch
<1>3. RunIsLive'
  BY DEF DropStale, Release, Live, canonical, RunIsLive, Work, EmptyEpoch
<1>4. VisibleIsCurrent'
  BY DEF Inv, DropStale, Live, canonical, VisibleIsCurrent, EmptyEpoch,
     RunIsLive, Visible, Head, Work
<1>5. Remembered'
  BY DEF Inv, DropStale, Live, canonical, Remembered, VisibleIsCurrent,
     EmptyEpoch, RunIsLive, Visible, Head, Work
<1>6. GarbageIsSeen'
  BY DEF DropStale, Release, GarbageIsSeen
<1> QED BY <1>1, <1>2, <1>3, <1>4, <1>5, <1>6 DEF Inv

(* CleanUp keeps the invariant.                                           *)
LEMMA CleanUpKeeps ==
  ASSUME Inv, CleanUp, ~broken, slice' \in BOOLEAN,
         UNCHANGED <<canonical, broken, cuts>>
  PROVE  Inv'
<1>1. TypeOK'
  BY DEF Inv, CleanUp, TypeOK, Live, canonical, Head, Work
<1>2. EmptyEpoch'
  BY DEF Inv, CleanUp, EmptyEpoch
<1>3. RunIsLive'
  BY DEF CleanUp, NoWork, RunIsLive
<1>4. VisibleIsCurrent'
  BY DEF Inv, CleanUp, Live, canonical, VisibleIsCurrent, EmptyEpoch,
     RunIsLive, Visible, Head, Work, Current
<1>5. Remembered'
  BY DEF Inv, CleanUp, Live, canonical, Remembered, VisibleIsCurrent,
     EmptyEpoch, RunIsLive, Visible, Head, Work, Current
<1>6. GarbageIsSeen'
  BY DEF CleanUp, GarbageIsSeen
<1> QED BY <1>1, <1>2, <1>3, <1>4, <1>5, <1>6 DEF Inv

(* Expand keeps the invariant.                                            *)
LEMMA ExpandKeeps ==
  ASSUME Inv, Expand, ~broken, slice' \in BOOLEAN,
         UNCHANGED <<canonical, broken, cuts>>
  PROVE  Inv'
<1>1. TypeOK'
  <2>1. queued' \in [Epoch -> [Source -> {"no", "queued", "failed"}]]
    BY Expanded
  <2>2. sweep' \in [Epoch -> 0 .. N + 1]
    BY Expanded
  <2>3. head' \in [Epoch -> [Source -> Head \cup {None}]]
    BY DEF Inv, Expand, TypeOK
  <2>4. litter' \in Nat
    BY DEF Inv, Expand, TypeOK
  <2>5. work' \in Work \cup {None}
    BY DEF Expand, Tidy, NoWork
  <2>6. present' \in [Source -> BOOLEAN] /\ text' \in [Source -> 0 .. MaxText]
    BY DEF Inv, TypeOK, Live, canonical, Head, Work
  <2>7. rebuilding' \in BOOLEAN /\ maybe' \in BOOLEAN
    BY DEF Inv, Expand, TypeOK
  <2>8. slice' \in BOOLEAN /\ broken' \in BOOLEAN /\ cuts' \in 0 .. MaxCuts
    BY DEF Inv, TypeOK
  <2> QED BY <2>1, <2>2, <2>3, <2>4, <2>5, <2>6, <2>7, <2>8 DEF TypeOK
<1>2. EmptyEpoch'
  <2> SUFFICES ASSUME ~rebuilding PROVE EmptyEpoch'
    BY DEF EmptyEpoch, Expand
  <2>1. "rebuilding" \in Epoch \ Live
    BY DEF Live, Epoch
  <2>2. /\ sweep'["rebuilding"] = sweep["rebuilding"]
        /\ queued'["rebuilding"] = queued["rebuilding"]
    BY <2>1, Expanded
  <2>3. head' = head /\ EmptyEpoch
    BY DEF Inv, Expand
  <2> QED BY <2>2, <2>3 DEF EmptyEpoch
<1>3. RunIsLive'
  BY DEF Expand, Tidy, NoWork, RunIsLive, Current
<1>4. VisibleIsCurrent'
  BY DEF Inv, Expand, Live, canonical, VisibleIsCurrent, EmptyEpoch, RunIsLive,
     Visible, Head, Work, Current
<1>5. Remembered'
  <2>1. UNCHANGED <<present, head, rebuilding, broken>>
    BY DEF Expand, canonical
  <2>2. \A e \in Live, s \in Source :
          /\ queued[e][s] # "no" => queued'[e][s] # "no"
          /\ present[s] /\ sweep[e] < s =>
               Visible(e, s) \/ queued'[e][s] = "queued" \/ sweep'[e] < s
    BY Expanded
  <2> QED BY <2>1, <2>2 DEF Inv, Remembered, Visible, Live
<1>6. GarbageIsSeen'
  BY DEF Expand, GarbageIsSeen
<1> QED BY <1>1, <1>2, <1>3, <1>4, <1>5, <1>6 DEF Inv

(* SkipVisible keeps the invariant.                                       *)
LEMMA SkipVisibleKeeps ==
  ASSUME Inv, SkipVisible, ~broken, slice' \in BOOLEAN,
         UNCHANGED <<canonical, broken, cuts>>
  PROVE  Inv'
<1>1. TypeOK'
  <2>1. queued' \in [Epoch -> [Source -> {"no", "queued", "failed"}]]
    BY DEF Inv, SkipVisible, TypeOK
  <2>2. sweep' \in [Epoch -> 0 .. N + 1]
    BY DEF Inv, SkipVisible, TypeOK
  <2>3. head' \in [Epoch -> [Source -> Head \cup {None}]]
    BY DEF Inv, SkipVisible, TypeOK
  <2>4. litter' \in Nat
    BY DEF Inv, SkipVisible, TypeOK
  <2>5. work' \in Work \cup {None}
    BY DEF SkipVisible, Tidy, NoWork
  <2>6. present' \in [Source -> BOOLEAN] /\ text' \in [Source -> 0 .. MaxText]
    BY DEF Inv, TypeOK, Live, canonical, Head, Work
  <2>7. rebuilding' \in BOOLEAN /\ maybe' \in BOOLEAN
    BY DEF Inv, SkipVisible, TypeOK
  <2>8. slice' \in BOOLEAN /\ broken' \in BOOLEAN /\ cuts' \in 0 .. MaxCuts
    BY DEF Inv, TypeOK
  <2> QED BY <2>1, <2>2, <2>3, <2>4, <2>5, <2>6, <2>7, <2>8 DEF TypeOK
<1>2. EmptyEpoch'
  BY DEF Inv, SkipVisible, EmptyEpoch
<1>3. RunIsLive'
  BY DEF SkipVisible, Tidy, NoWork, RunIsLive, Current
<1>4. VisibleIsCurrent'
  BY DEF Inv, SkipVisible, Live, canonical, VisibleIsCurrent, EmptyEpoch,
     RunIsLive, Visible, Head, Work, Current
<1>5. Remembered'
  <2>1. PICK e \in Epoch, s \in Source :
          Picks(e, s) /\ Visible(e, s) /\ queued' = [queued EXCEPT ![e][s] = "no"]
    BY DEF SkipVisible
  <2>2. \A f \in Epoch, t \in Source :
          queued'[f][t] = IF f = e /\ t = s THEN "no" ELSE queued[f][t]
    <3>1. TypeOK
      BY DEF Inv
    <3> QED BY ZenonT(60), <2>1, <3>1, QueuedAt
  <2>3. e \in Live
    BY <2>1 DEF Inv, EmptyEpoch, Picks, Live, Epoch
  <2>4. present[s]
    BY <2>1, <2>3 DEF Inv, VisibleIsCurrent
  <2> QED BY <2>2, <2>4 DEF Inv, Remembered, SkipVisible, Visible, Live, Epoch,
       canonical
<1>6. GarbageIsSeen'
  BY DEF Inv, SkipVisible, Tidy, Garbage, GarbageIsSeen
<1> QED BY <1>1, <1>2, <1>3, <1>4, <1>5, <1>6 DEF Inv

(* DropAbsent keeps the invariant.                                        *)
LEMMA DropAbsentKeeps ==
  ASSUME Inv, DropAbsent, ~broken, slice' \in BOOLEAN,
         UNCHANGED <<canonical, broken, cuts>>
  PROVE  Inv'
<1>1. TypeOK'
  BY DEF Inv, DropAbsent, Orphans, TypeOK, Epoch, Source, Live, canonical,
     Head, Work
<1>2. EmptyEpoch'
  BY DEF Inv, DropAbsent, EmptyEpoch
<1>3. RunIsLive'
  BY DEF DropAbsent, Tidy, NoWork, canonical, RunIsLive, Work, EmptyEpoch,
     Current
<1>4. VisibleIsCurrent'
  BY DEF Inv, DropAbsent, Live, canonical, VisibleIsCurrent, EmptyEpoch,
     RunIsLive, Visible, Head, Work, Current
<1>5. Remembered'
  <2>1. PICK e \in Epoch, s \in Source :
          /\ ~present[s]
          /\ queued' = [queued EXCEPT ![e][s] = "no"] /\ head' = [head EXCEPT ![e][s] = None]
    BY DEF DropAbsent
  <2>3. \A f \in Epoch, t \in Source :
          head'[f][t] = IF f = e /\ t = s THEN None ELSE head[f][t]
    <3>1. TypeOK
      BY DEF Inv
    <3> QED BY <2>1, <3>1, HeadAt
  <2>4. UNCHANGED <<present, rebuilding, sweep, broken>>
    BY DEF DropAbsent, canonical
  <2> QED BY <2>1, <2>3, <2>4 DEF Inv, Remembered, Visible, Live, Epoch
<1>6. GarbageIsSeen'
  BY DEF DropAbsent, GarbageIsSeen
<1> QED BY <1>1, <1>2, <1>3, <1>4, <1>5, <1>6 DEF Inv

(* Begin keeps the invariant.                                             *)
LEMMA BeginKeeps ==
  ASSUME Inv, Begin, ~broken, slice' \in BOOLEAN,
         UNCHANGED <<canonical, broken, cuts>>
  PROVE  Inv'
<1>1. TypeOK'
  <2>1. queued' \in [Epoch -> [Source -> {"no", "queued", "failed"}]]
    BY DEF Inv, Begin, TypeOK
  <2>2. sweep' \in [Epoch -> 0 .. N + 1]
    BY DEF Inv, Begin, TypeOK
  <2>3. head' \in [Epoch -> [Source -> Head \cup {None}]]
    BY DEF Inv, Begin, TypeOK
  <2>4. litter' \in Nat
    BY DEF Inv, Begin, TypeOK
  <2>5. work' \in Work \cup {None}
    BY Sizes DEF Inv, Begin, TypeOK, Live, canonical, Head, Work
  <2>6. present' \in [Source -> BOOLEAN] /\ text' \in [Source -> 0 .. MaxText]
    BY DEF Inv, TypeOK, Live, canonical, Head, Work
  <2>7. rebuilding' \in BOOLEAN /\ maybe' \in BOOLEAN
    BY DEF Inv, Begin, TypeOK
  <2>8. slice' \in BOOLEAN /\ broken' \in BOOLEAN /\ cuts' \in 0 .. MaxCuts
    BY DEF Inv, TypeOK
  <2> QED BY <2>1, <2>2, <2>3, <2>4, <2>5, <2>6, <2>7, <2>8 DEF TypeOK
<1>2. EmptyEpoch'
  BY DEF Inv, Begin, EmptyEpoch
<1>3. RunIsLive'
  BY DEF Inv, Begin, Picks, TypeOK, Epoch, Source, Live, canonical, RunIsLive,
     Work, EmptyEpoch, Current
<1>4. VisibleIsCurrent'
  BY DEF Inv, Begin, Live, canonical, VisibleIsCurrent, EmptyEpoch, RunIsLive,
     Visible, Head, Work, Current
<1>5. Remembered'
  BY DEF Inv, Begin, Source, Live, canonical, Remembered, VisibleIsCurrent,
     EmptyEpoch, RunIsLive, Visible, Head, Work, Current
<1>6. GarbageIsSeen'
  BY DEF Inv, Begin, Tidy, Garbage, GarbageIsSeen
<1> QED BY <1>1, <1>2, <1>3, <1>4, <1>5, <1>6 DEF Inv

(* WriteChunk keeps the invariant.                                        *)
LEMMA WriteChunkKeeps ==
  ASSUME Inv, WriteChunk, ~broken, slice' \in BOOLEAN,
         UNCHANGED <<canonical, broken, cuts>>
  PROVE  Inv'
<1>1. TypeOK'
  <2>1. queued' \in [Epoch -> [Source -> {"no", "queued", "failed"}]]
    BY DEF Inv, WriteChunk, TypeOK, Work
  <2>2. sweep' \in [Epoch -> 0 .. N + 1]
    BY DEF Inv, WriteChunk, TypeOK, Work
  <2>3. head' \in [Epoch -> [Source -> Head \cup {None}]]
    BY DEF Inv, WriteChunk, TypeOK, Work
  <2>4. litter' \in Nat
    BY DEF Inv, WriteChunk, TypeOK, Work
  <2>5. work' \in Work \cup {None}
    <3>1. work \in Work /\ work.rows + 1 \in 0 .. Size
      BY Sizes DEF Inv, TypeOK, WriteChunk, NoWork, ChunksLeft, Work
    <3> QED BY <3>1 DEF WriteChunk, Work
  <2>6. present' \in [Source -> BOOLEAN] /\ text' \in [Source -> 0 .. MaxText]
    BY DEF Inv, TypeOK, canonical, Head, Work
  <2>7. rebuilding' \in BOOLEAN /\ maybe' \in BOOLEAN
    BY DEF Inv, WriteChunk, TypeOK, Work
  <2>8. slice' \in BOOLEAN /\ broken' \in BOOLEAN /\ cuts' \in 0 .. MaxCuts
    BY DEF Inv, TypeOK
  <2> QED BY <2>1, <2>2, <2>3, <2>4, <2>5, <2>6, <2>7, <2>8 DEF TypeOK
<1>2. EmptyEpoch'
  BY DEF Inv, WriteChunk, EmptyEpoch, RunIsLive
<1>3. RunIsLive'
  BY DEF Inv, WriteChunk, NoWork, Live, canonical, RunIsLive, Work, EmptyEpoch
<1>4. VisibleIsCurrent'
  BY DEF Inv, WriteChunk, VisibleIsCurrent, Visible, Live, canonical
<1>5. Remembered'
  BY DEF Inv, WriteChunk, Live, canonical, Remembered, VisibleIsCurrent,
     EmptyEpoch, RunIsLive, Visible, Head, Work
<1>6. GarbageIsSeen'
  BY DEF Inv, WriteChunk, GarbageIsSeen
<1> QED BY <1>1, <1>2, <1>3, <1>4, <1>5, <1>6 DEF Inv

(* Publish keeps the invariant.                                           *)
LEMMA PublishKeeps ==
  ASSUME Inv, Publish, ~broken, slice' \in BOOLEAN,
         UNCHANGED <<canonical, broken, cuts>>
  PROVE  Inv'
<1>1. TypeOK'
  BY DEF Inv, Publish, NoWork, Current, Orphans, MarkedBy, TypeOK, Epoch,
     Source, Live, canonical, Head, Work
<1>2. EmptyEpoch'
  BY DEF Inv, Publish, NoWork, Live, canonical, EmptyEpoch, RunIsLive
<1>3. RunIsLive'
  BY DEF Publish, RunIsLive
<1>4. VisibleIsCurrent'
  <2>1. work \in Work /\ work.epoch \in Epoch /\ work.source \in Source
    BY DEF Inv, TypeOK, Publish, NoWork, Work
  <2>2. [rows |-> work.rows, text |-> work.text, stale |-> FALSE] \in Head
    BY <2>1 DEF Work, Head
  <2>3. \A f \in Epoch, t \in Source :
          head'[f][t] = IF f = work.epoch /\ t = work.source
                        THEN [rows |-> work.rows, text |-> work.text, stale |-> FALSE]
                        ELSE head[f][t]
    <3>1. /\ TypeOK
          /\ head' = [head EXCEPT ![work.epoch][work.source] =
                        [rows |-> work.rows, text |-> work.text, stale |-> FALSE]]
      BY DEF Inv, Publish
    <3> QED BY <2>1, <2>2, <3>1, HeadAt
  <2>4. present[work.source] /\ work.text = text[work.source]
    BY DEF Inv, RunIsLive, Publish, NoWork, Current
  <2>5. UNCHANGED <<present, text, rebuilding, sweep, broken>>
    BY DEF Publish, canonical
  <2> QED BY <2>3, <2>4, <2>5 DEF Inv, VisibleIsCurrent, Visible, Live, Epoch
<1>5. Remembered'
  <2>1. work \in Work /\ work.epoch \in Epoch /\ work.source \in Source
    BY DEF Inv, TypeOK, Publish, NoWork, Work
  <2>2. [rows |-> work.rows, text |-> work.text, stale |-> FALSE] \in Head
    BY <2>1 DEF Work, Head
  <2>3. \A f \in Epoch, t \in Source :
          head'[f][t] = IF f = work.epoch /\ t = work.source
                        THEN [rows |-> work.rows, text |-> work.text, stale |-> FALSE]
                        ELSE head[f][t]
    <3>1. /\ TypeOK
          /\ head' = [head EXCEPT ![work.epoch][work.source] =
                        [rows |-> work.rows, text |-> work.text, stale |-> FALSE]]
      BY DEF Inv, Publish
    <3> QED BY <2>1, <2>2, <3>1, HeadAt
  <2>4. present[work.source] /\ work.text = text[work.source]
    BY DEF Inv, RunIsLive, Publish, NoWork, Current
  <2>5. UNCHANGED <<present, text, rebuilding, sweep, broken>>
    BY DEF Publish, canonical
  <2>6. \A f \in Epoch, t \in Source :
          queued'[f][t] = IF f = work.epoch /\ t = work.source THEN "no" ELSE queued[f][t]
    <3>1. TypeOK /\ queued' = [queued EXCEPT ![work.epoch][work.source] = "no"]
      BY DEF Inv, Publish
    <3> QED BY ZenonT(60), <2>1, <3>1, QueuedAt
  <2> PICK e \in Epoch, s \in Source : e = work.epoch /\ s = work.source
    BY <2>1
  <2>7. Visible(e, s)'
    <3> DEFINE h == [rows |-> work.rows, text |-> work.text, stale |-> FALSE]
    <3>1. h # None /\ ~h.stale
      BY <2>2, Sizes
    <3>2. head'[e][s] = h
      BY <2>3
    <3> HIDE DEF h
    <3> QED BY <3>1, <3>2 DEF Visible
  <2>8. ASSUME NEW f \in Live, NEW t \in Source, f # e \/ t # s
        PROVE  Visible(f, t)' = Visible(f, t) /\ head'[f][t] = head[f][t]
    BY <2>3, <2>8 DEF Visible, Live, Epoch
  <2> SUFFICES ASSUME ~broken, NEW f \in Live, NEW t \in Source
               PROVE  \/ queued'[f][t] # "no"
                      \/ IF present[t] THEN Visible(f, t)' \/ sweep[f] < t ELSE head'[f][t] = None
    BY <2>5 DEF Remembered, Live
  <2>9. CASE f = e /\ t = s
    BY <2>4, <2>7, <2>9
  <2>10. CASE f # e \/ t # s
    <3>1. queued'[f][t] = queued[f][t]
      BY <2>6, <2>10 DEF Live, Epoch
    <3>2. Visible(f, t)' = Visible(f, t) /\ head'[f][t] = head[f][t]
      BY <2>8, <2>10
    <3> QED BY <3>1, <3>2 DEF Inv, Remembered
  <2> QED BY <2>9, <2>10
<1>6. GarbageIsSeen'
  <2> DEFINE e == work.epoch
             s == work.source
  <2>1. litter' = litter + Orphans(e, s) /\ maybe' = MarkedBy(e, s) /\ broken' = broken
    BY DEF Publish
  <2>2. head[e][s] = None => Orphans(e, s) = 0
    BY DEF Orphans
  <2>3. CASE head[e][s] = None
    BY <2>1, <2>2, <2>3 DEF Inv, TypeOK, GarbageIsSeen, MarkedBy
  <2>4. CASE head[e][s] # None
    BY <2>1, <2>4 DEF GarbageIsSeen, MarkedBy
  <2> QED BY <2>3, <2>4
<1> QED BY <1>1, <1>2, <1>3, <1>4, <1>5, <1>6 DEF Inv

(* CannotBegin keeps the invariant.                                       *)
LEMMA CannotBeginKeeps ==
  ASSUME Inv, CannotBegin, ~broken, slice' \in BOOLEAN,
         cuts' \in 0 .. MaxCuts, UNCHANGED <<canonical, broken>>
  PROVE  Inv'
<1>1. TypeOK'
  <2>1. queued' \in [Epoch -> [Source -> {"no", "queued", "failed"}]]
    BY DEF Inv, CannotBegin, Fails, TypeOK, Epoch, Source, Live, canonical,
       Head, Work
  <2>2. sweep' \in [Epoch -> 0 .. N + 1]
    BY DEF Inv, CannotBegin, TypeOK
  <2>3. head' \in [Epoch -> [Source -> Head \cup {None}]]
    BY DEF Inv, CannotBegin, TypeOK
  <2>4. litter' \in Nat
    BY DEF Inv, CannotBegin, TypeOK
  <2>5. work' \in Work \cup {None}
    BY DEF CannotBegin, Tidy, NoWork
  <2>6. present' \in [Source -> BOOLEAN] /\ text' \in [Source -> 0 .. MaxText]
    BY DEF Inv, TypeOK, Source, Live, canonical, Head, Work
  <2>7. rebuilding' \in BOOLEAN /\ maybe' \in BOOLEAN
    BY DEF Inv, CannotBegin, TypeOK
  <2>8. slice' \in BOOLEAN /\ broken' \in BOOLEAN /\ cuts' \in 0 .. MaxCuts
    BY DEF Inv, TypeOK
  <2> QED BY <2>1, <2>2, <2>3, <2>4, <2>5, <2>6, <2>7, <2>8 DEF TypeOK
<1>2. EmptyEpoch'
  BY DEF Inv, CannotBegin, Fails, Source, Live, canonical, EmptyEpoch,
     RunIsLive
<1>3. RunIsLive'
  BY DEF CannotBegin, Tidy, NoWork, canonical, RunIsLive, Work, EmptyEpoch,
     Current
<1>4. VisibleIsCurrent'
  BY DEF Inv, CannotBegin, Live, canonical, VisibleIsCurrent, EmptyEpoch,
     RunIsLive, Visible, Head, Work, Current
<1>5. Remembered'
  BY DEF Inv, CannotBegin, Fails, TypeOK, Epoch, Source, Live, canonical,
     Remembered, VisibleIsCurrent, EmptyEpoch, RunIsLive, Visible, Head, Work,
     Current
<1>6. GarbageIsSeen'
  BY DEF Inv, CannotBegin, Tidy, Garbage, Picks, Fails, TypeOK, Epoch, Source,
     Live, canonical, GarbageIsSeen
<1> QED BY <1>1, <1>2, <1>3, <1>4, <1>5, <1>6 DEF Inv

(* FailRun keeps the invariant.                                           *)
LEMMA FailRunKeeps ==
  ASSUME Inv, FailRun, ~broken, slice' \in BOOLEAN,
         cuts' \in 0 .. MaxCuts, UNCHANGED <<canonical, broken>>
  PROVE  Inv'
<1>1. TypeOK'
  BY DEF Inv, FailRun, NoWork, Fails, Release, OrphansOfRun, TypeOK, Epoch,
     Source, Live, canonical, Head, Work
<1>2. EmptyEpoch'
  BY DEF Inv, FailRun, Fails, TypeOK, Epoch, Source, Live, canonical,
     EmptyEpoch, RunIsLive
<1>3. RunIsLive'
  BY DEF FailRun, Release, Source, Live, canonical, RunIsLive, Work, EmptyEpoch
<1>4. VisibleIsCurrent'
  BY DEF Inv, FailRun, VisibleIsCurrent, Visible, Live, canonical
<1>5. Remembered'
  <2>1. \A f \in Epoch, t \in Source : queued'[f][t] = "no" <=> queued[f][t] = "no"
    BY FailsAt DEF Inv, TypeOK, FailRun, NoWork, Work
  <2> QED BY <2>1 DEF Inv, FailRun, Remembered, Visible, Live, Epoch, canonical
<1>6. GarbageIsSeen'
  BY DEF FailRun, Release, Source, Live, canonical, GarbageIsSeen
<1> QED BY <1>1, <1>2, <1>3, <1>4, <1>5, <1>6 DEF Inv

(* SwitchEpoch keeps the invariant.                                       *)
LEMMA SwitchEpochKeeps ==
  ASSUME Inv, SwitchEpoch, ~broken, slice' \in BOOLEAN,
         UNCHANGED <<canonical, broken, cuts>>
  PROVE  Inv'
<1>1. TypeOK'
  <2>1. queued' \in [Epoch -> [Source -> {"no", "queued", "failed"}]]
    BY DEF SwitchEpoch, NoRows
  <2>2. sweep' \in [Epoch -> 0 .. N + 1]
    BY DEF Inv, SwitchEpoch, TypeOK
  <2>3. head' \in [Epoch -> [Source -> Head \cup {None}]]
    BY DEF Inv, SwitchEpoch, NoHeads, TypeOK, Epoch, Source, Live, canonical,
       Head, Work
  <2>4. litter' \in Nat
    BY DEF SwitchEpoch
  <2>5. work' \in Work \cup {None}
    BY DEF SwitchEpoch, Switches, Tidy, NoWork
  <2>6. present' \in [Source -> BOOLEAN] /\ text' \in [Source -> 0 .. MaxText]
    BY DEF Inv, TypeOK, Epoch, Source, Live, canonical, Head, Work
  <2>7. rebuilding' \in BOOLEAN /\ maybe' \in BOOLEAN
    BY DEF SwitchEpoch
  <2>8. slice' \in BOOLEAN /\ broken' \in BOOLEAN /\ cuts' \in 0 .. MaxCuts
    BY DEF Inv, TypeOK
  <2> QED BY <2>1, <2>2, <2>3, <2>4, <2>5, <2>6, <2>7, <2>8 DEF TypeOK
<1>2. EmptyEpoch'
  BY DEF SwitchEpoch, Switches, QueueEmpty, NoRows, NoHeads, ScopeRows, TypeOK,
     Epoch, Source, Live, canonical, EmptyEpoch, RunIsLive
<1>3. RunIsLive'
  BY DEF SwitchEpoch, Switches, Tidy, NoWork, Live, canonical, RunIsLive, Work,
     EmptyEpoch, Current
<1>4. VisibleIsCurrent'
  BY DEF Inv, SwitchEpoch, Epoch, Source, Live, canonical, VisibleIsCurrent,
     EmptyEpoch, RunIsLive, Visible, Head, Work, Current
<1>5. Remembered'
  BY DEF Inv, SwitchEpoch, Switches, QueueEmpty, NoRows, NoHeads, ScopeRows,
     TypeOK, Epoch, Source, Live, canonical, Remembered, VisibleIsCurrent,
     EmptyEpoch, RunIsLive, Visible, Head, Work, Current
<1>6. GarbageIsSeen'
  BY DEF SwitchEpoch, GarbageIsSeen
<1> QED BY <1>1, <1>2, <1>3, <1>4, <1>5, <1>6 DEF Inv

(* Settle keeps the invariant.                                            *)
LEMMA SettleKeeps ==
  ASSUME Inv, Settle
  PROVE  Inv'
<1>1. TypeOK'
  BY DEF Inv, Settle, TypeOK, Source, Live, canonical, Head, Work
<1>2. EmptyEpoch'
  BY DEF Inv, Settle, EmptyEpoch, RunIsLive
<1>3. RunIsLive'
  BY DEF Settle, Tidy, NoWork, RunIsLive, Work, EmptyEpoch, Current
<1>4. VisibleIsCurrent'
  BY DEF Inv, Settle, Live, canonical, VisibleIsCurrent, EmptyEpoch, RunIsLive,
     Visible, Head, Work, Current
<1>5. Remembered'
  BY DEF Inv, Settle, Live, canonical, Remembered, VisibleIsCurrent,
     EmptyEpoch, RunIsLive, Visible, Head, Work, Current
<1>6. GarbageIsSeen'
  BY DEF Inv, Settle, Tidy, Garbage, Source, Live, canonical, GarbageIsSeen
<1> QED BY <1>1, <1>2, <1>3, <1>4, <1>5, <1>6 DEF Inv

(* Change keeps the invariant.                                            *)
LEMMA ChangeKeeps ==
  ASSUME Inv, NEW s \in Source, Change(s)
  PROVE  Inv'
<1>1. TypeOK'
  <2>1. queued' \in [Epoch -> [Source -> {"no", "queued", "failed"}]]
    <3>1. CASE Tracked(s)
      BY <3>1 DEF Inv, TypeOK, Tracked
    <3>2. CASE Untracked
      BY <3>2 DEF Inv, TypeOK, Untracked
    <3> QED BY <3>1, <3>2 DEF Change
  <2>2. sweep' \in [Epoch -> 0 .. N + 1]
    BY DEF Inv, Change, Tracked, Untracked, TypeOK, Epoch, Source, Live,
       canonical, Head, Work
  <2>3. head' \in [Epoch -> [Source -> Head \cup {None}]]
    <3>1. CASE Tracked(s)
      BY <3>1, StaleHeads DEF Inv, Tracked
    <3>2. CASE Untracked
      BY <3>2 DEF Inv, TypeOK, Untracked
    <3> QED BY <3>1, <3>2 DEF Change
  <2>4. litter' \in Nat
    BY DEF Inv, Change, TypeOK
  <2>5. work' \in Work \cup {None}
    BY DEF Inv, Change, Process, TypeOK, Epoch, Source, Live, canonical, Head,
       Work
  <2>6. present' \in [Source -> BOOLEAN] /\ text' \in [Source -> 0 .. MaxText]
    BY Sizes DEF Inv, Change, TypeOK
  <2>7. rebuilding' \in BOOLEAN /\ maybe' \in BOOLEAN
    BY DEF Inv, Change, Process, TypeOK, Epoch, Source, Live, canonical, Head,
       Work
  <2>8. slice' \in BOOLEAN /\ broken' \in BOOLEAN /\ cuts' \in 0 .. MaxCuts
    BY DEF Inv, Change, Process, TypeOK, Epoch, Source, Live, canonical, Head,
       Work
  <2> QED BY <2>1, <2>2, <2>3, <2>4, <2>5, <2>6, <2>7, <2>8 DEF TypeOK
<1>2. EmptyEpoch'
  BY SMTT(60), Sizes DEF Inv, Change, Tracked, Untracked, Dirtied, Stale, Process, TypeOK, Epoch,
     Source, Live, canonical, EmptyEpoch, RunIsLive
<1>3. RunIsLive'
  BY DEF Inv, Change, Process, TypeOK, Epoch, Source, Live, canonical,
     RunIsLive, Work, EmptyEpoch, Current
<1>4. VisibleIsCurrent'
  <2> SUFFICES ASSUME ~broken, NEW e \in Live, NEW t \in Source, Visible(e, t)'
               PROVE  present'[t] /\ head'[e][t].text = text'[t]
    BY DEF VisibleIsCurrent, Change, Process, Live
  <2>1. t # s /\ head'[e][t] = head[e][t]
    BY StaleHeads DEF Inv, Change, Tracked, Untracked, Live, Epoch
  <2>2. present'[t] = present[t] /\ text'[t] = text[t]
    BY <2>1 DEF Change, Inv, TypeOK
  <2> QED BY <2>1, <2>2 DEF Inv, VisibleIsCurrent, Visible
<1>5. Remembered'
  BY SMTT(60), Sizes DEF Inv, Change, Tracked, Untracked, Dirtied, Stale, Process, TypeOK, Epoch,
     Source, Live, canonical, Remembered, VisibleIsCurrent, EmptyEpoch, RunIsLive, Visible,
     Head, Work, Current
<1>6. GarbageIsSeen'
  BY DEF Inv, Change, Process, Source, Live, canonical, GarbageIsSeen
<1> QED BY <1>1, <1>2, <1>3, <1>4, <1>5, <1>6 DEF Inv

(* ChangeShared keeps the invariant.                                      *)
LEMMA ChangeSharedKeeps ==
  ASSUME Inv, ChangeShared
  PROVE  Inv'
<1>1. TypeOK'
  <2>1. queued' \in [Epoch -> [Source -> {"no", "queued", "failed"}]]
    BY DEF Inv, ChangeShared, TrackedAll, Untracked, TypeOK, Epoch, Source,
       Live, canonical, Head, Work
  <2>2. sweep' \in [Epoch -> 0 .. N + 1]
    BY Sizes DEF Inv, ChangeShared, TrackedAll, Untracked, TypeOK, Epoch,
       Source, Live, canonical, Head, Work
  <2>3. head' \in [Epoch -> [Source -> Head \cup {None}]]
    <3>1. CASE TrackedAll
      BY <3>1, StaleHeads DEF Inv, TrackedAll
    <3>2. CASE Untracked
      BY <3>2 DEF Inv, TypeOK, Untracked
    <3> QED BY <3>1, <3>2 DEF ChangeShared
  <2>4. litter' \in Nat
    BY DEF Inv, ChangeShared, TypeOK
  <2>5. work' \in Work \cup {None}
    BY DEF Inv, ChangeShared, Process, TypeOK, Epoch, Source, Live, canonical,
       Head, Work
  <2>6. present' \in [Source -> BOOLEAN] /\ text' \in [Source -> 0 .. MaxText]
    BY Sizes DEF Inv, ChangeShared, Process, TypeOK, Epoch, Source, Live,
       canonical, Head, Work
  <2>7. rebuilding' \in BOOLEAN /\ maybe' \in BOOLEAN
    BY DEF Inv, ChangeShared, Process, TypeOK, Epoch, Source, Live, canonical,
       Head, Work
  <2>8. slice' \in BOOLEAN /\ broken' \in BOOLEAN /\ cuts' \in 0 .. MaxCuts
    BY DEF Inv, ChangeShared, Process, TypeOK, Epoch, Source, Live, canonical,
       Head, Work
  <2> QED BY <2>1, <2>2, <2>3, <2>4, <2>5, <2>6, <2>7, <2>8 DEF TypeOK
<1>2. EmptyEpoch'
  BY Sizes DEF Inv, ChangeShared, TrackedAll, Untracked, Dirtied, Stale, Process, TypeOK,
     Epoch, Source, Live, canonical, EmptyEpoch, RunIsLive
<1>3. RunIsLive'
  BY DEF Inv, ChangeShared, Process, TypeOK, Epoch, Source, Live, canonical,
     RunIsLive, Work, EmptyEpoch, Current
<1>4. VisibleIsCurrent'
  <2> SUFFICES ASSUME ~broken, NEW e \in Live, NEW t \in Source, Visible(e, t)' PROVE FALSE
    BY DEF VisibleIsCurrent, ChangeShared, Process, Live
  <2> QED BY StaleHeads DEF Inv, ChangeShared, TrackedAll, Untracked, Live, Epoch
<1>5. Remembered'
  BY Sizes DEF Inv, ChangeShared, TrackedAll, Untracked, Dirtied, Stale, Process, TypeOK,
     Epoch, Source, Live, canonical, Remembered, VisibleIsCurrent, EmptyEpoch, RunIsLive,
     Visible, Head, Work, Current
<1>6. GarbageIsSeen'
  BY DEF Inv, ChangeShared, Process, Source, Live, canonical, GarbageIsSeen
<1> QED BY <1>1, <1>2, <1>3, <1>4, <1>5, <1>6 DEF Inv

(* Rebuild keeps the invariant.                                           *)
LEMMA RebuildKeeps ==
  ASSUME Inv, Rebuild
  PROVE  Inv'
<1>1. TypeOK'
  BY Sizes DEF Inv, Rebuild, Cut, StartRebuild, TypeOK, Epoch, Source, Live, canonical, Head,
     Work
<1>2. EmptyEpoch'
  BY DEF Rebuild, StartRebuild, EmptyEpoch, RunIsLive
<1>3. RunIsLive'
  BY DEF Inv, Rebuild, StartRebuild, Epoch, Source, Live, canonical, RunIsLive,
     Work, EmptyEpoch, Current
<1>4. VisibleIsCurrent'
  BY DEF Inv, Rebuild, Epoch, Live, canonical, VisibleIsCurrent, EmptyEpoch,
     RunIsLive, Visible, Head, Work, Current
<1>5. Remembered'
  BY DEF Inv, Rebuild, StartRebuild, TypeOK, Epoch, Source, Live, canonical,
     Remembered, VisibleIsCurrent, EmptyEpoch, RunIsLive, Visible, Head, Work,
     Current
<1>6. GarbageIsSeen'
  BY DEF Rebuild, GarbageIsSeen
<1> QED BY <1>1, <1>2, <1>3, <1>4, <1>5, <1>6 DEF Inv

(* Yield keeps the invariant.                                             *)
LEMMA YieldKeeps ==
  ASSUME Inv, Yield
  PROVE  Inv'
<1>1. TypeOK'
  BY Sizes DEF Inv, Yield, Cut, Release, OrphansOfRun, TypeOK, Epoch, Source,
     Live, canonical, Head, Work
<1>2. EmptyEpoch'
  BY DEF Inv, Yield, EmptyEpoch
<1>3. RunIsLive'
  BY DEF Yield, Release, Live, canonical, RunIsLive, Work, EmptyEpoch, Current
<1>4. VisibleIsCurrent'
  BY Sizes DEF Inv, Yield, Live, canonical, VisibleIsCurrent, EmptyEpoch,
     RunIsLive, Visible, Head, Work, Current
<1>5. Remembered'
  BY DEF Inv, Yield, Source, Live, canonical, Remembered, VisibleIsCurrent,
     EmptyEpoch, RunIsLive, Visible, Head, Work, Current
<1>6. GarbageIsSeen'
  BY DEF Yield, Release, GarbageIsSeen
<1> QED BY <1>1, <1>2, <1>3, <1>4, <1>5, <1>6 DEF Inv

(* Restart keeps the invariant.                                           *)
LEMMA RestartKeeps ==
  ASSUME Inv, Restart
  PROVE  Inv'
<1>1. TypeOK'
  <2>1. queued' \in [Epoch -> [Source -> {"no", "queued", "failed"}]]
    BY DEF Inv, Restart, TypeOK
  <2>2. sweep' \in [Epoch -> 0 .. N + 1]
    BY Sizes DEF Inv, Restart, StartRebuild, TypeOK, Epoch, Source, Live,
       canonical, Head, Work
  <2>3. head' \in [Epoch -> [Source -> Head \cup {None}]]
    BY DEF Inv, Restart, TypeOK
  <2>4. litter' \in Nat
    BY DEF Inv, Restart, OrphansOfRun, TypeOK, Epoch, Source, Live, canonical,
       Head, Work
  <2>5. work' \in Work \cup {None}
    BY DEF Restart
  <2>6. present' \in [Source -> BOOLEAN] /\ text' \in [Source -> 0 .. MaxText]
    BY DEF Inv, Restart, TypeOK, Live, canonical, Head, Work
  <2>7. rebuilding' \in BOOLEAN /\ maybe' \in BOOLEAN
    BY DEF Inv, Restart, StartRebuild, TypeOK, Epoch, Source, Live, canonical,
       Head, Work
  <2>8. slice' \in BOOLEAN /\ broken' \in BOOLEAN /\ cuts' \in 0 .. MaxCuts
    BY Sizes DEF Inv, Restart, Cut, TypeOK, Epoch, Source, Live, canonical,
       Head, Work
  <2> QED BY <2>1, <2>2, <2>3, <2>4, <2>5, <2>6, <2>7, <2>8 DEF TypeOK
<1>2. EmptyEpoch'
  BY DEF Inv, Restart, StartRebuild, EmptyEpoch, RunIsLive
<1>3. RunIsLive'
  BY DEF Restart, RunIsLive
<1>4. VisibleIsCurrent'
  BY DEF Inv, Restart, Epoch, Source, Live, canonical, VisibleIsCurrent,
     EmptyEpoch, RunIsLive, Visible, Head, Work, Current
<1>5. Remembered'
  <2>1. /\ UNCHANGED <<present, head, queued, broken>>
        /\ \/ rebuilding' = TRUE /\ sweep' = [sweep EXCEPT !["rebuilding"] = 0]
           \/ UNCHANGED <<rebuilding, sweep>>
    BY DEF Restart, StartRebuild, canonical
  <2>2. CASE UNCHANGED <<rebuilding, sweep>>
    BY <2>1, <2>2 DEF Inv, Remembered, Visible, Live
  <2>3. CASE rebuilding' = TRUE /\ sweep' = [sweep EXCEPT !["rebuilding"] = 0]
    <3>1. \A s \in Source : sweep'["rebuilding"] < s
      BY <2>3 DEF Inv, TypeOK, Epoch, Source
    <3>2. \A s \in Source : \/ present[s] \/ head["rebuilding"][s] = None
                            \/ queued["rebuilding"][s] # "no" \/ broken
      BY DEF Inv, Remembered, EmptyEpoch, Live, Epoch
    <3>3. sweep'["active"] = sweep["active"]
      BY <2>3 DEF Inv, TypeOK, Epoch
    <3> QED BY <2>1, <3>1, <3>2, <3>3 DEF Inv, Remembered, Visible, Live, Epoch
  <2> QED BY <2>1, <2>2, <2>3
<1>6. GarbageIsSeen'
  BY DEF Restart, GarbageIsSeen
<1> QED BY <1>1, <1>2, <1>3, <1>4, <1>5, <1>6 DEF Inv

(* Break keeps the invariant.                                             *)
LEMMA BreakKeeps ==
  ASSUME Inv, Break
  PROVE  Inv'
<1>1. TypeOK'
  BY Sizes DEF Inv, Break, Cut, TypeOK, canonical, Head, Work
<1>2. EmptyEpoch'
  BY DEF Inv, Break, EmptyEpoch
<1>3. RunIsLive'
  BY DEF Inv, Break, Live, canonical, RunIsLive, Work, EmptyEpoch, Current
<1>4. VisibleIsCurrent'
  BY DEF Break, VisibleIsCurrent
<1>5. Remembered'
  BY DEF Break, Remembered
<1>6. GarbageIsSeen'
  BY DEF Break, GarbageIsSeen
<1> QED BY <1>1, <1>2, <1>3, <1>4, <1>5, <1>6 DEF Inv

(* Repair keeps the invariant.                                            *)
LEMMA RepairKeeps ==
  ASSUME Inv, Repair
  PROVE  Inv'
<1>1. TypeOK'
  <2>1. queued' \in [Epoch -> [Source -> {"no", "queued", "failed"}]]
    BY DEF Repair, Fresh, NoRows
  <2>2. sweep' \in [Epoch -> 0 .. N + 1]
    BY Sizes DEF Repair, Fresh
  <2>3. head' \in [Epoch -> [Source -> Head \cup {None}]]
    BY DEF Repair, Fresh, NoHeads
  <2>4. litter' \in Nat
    BY DEF Repair, Fresh
  <2>5. work' \in Work \cup {None}
    BY DEF Repair
  <2>6. present' \in [Source -> BOOLEAN] /\ text' \in [Source -> 0 .. MaxText]
    BY DEF Inv, Repair, TypeOK, Source, Live, canonical, Head, Work
  <2>7. rebuilding' \in BOOLEAN /\ maybe' \in BOOLEAN
    BY DEF Repair, Fresh
  <2>8. slice' \in BOOLEAN /\ broken' \in BOOLEAN /\ cuts' \in 0 .. MaxCuts
    BY DEF Inv, Repair, TypeOK, Work
  <2> QED BY <2>1, <2>2, <2>3, <2>4, <2>5, <2>6, <2>7, <2>8 DEF TypeOK
<1>2. EmptyEpoch'
  BY DEF Repair, Fresh, NoRows, NoHeads, Epoch, Source, Live, canonical,
     EmptyEpoch, RunIsLive
<1>3. RunIsLive'
  BY DEF Repair, RunIsLive
<1>4. VisibleIsCurrent'
  BY DEF Repair, Fresh, NoHeads, Epoch, Source, Live, canonical,
     VisibleIsCurrent, EmptyEpoch, RunIsLive, Visible, Head, Work, Current
<1>5. Remembered'
  BY DEF Repair, Fresh, NoHeads, Epoch, Source, Live, canonical, Remembered,
     VisibleIsCurrent, EmptyEpoch, RunIsLive, Visible, Head, Work, Current
<1>6. GarbageIsSeen'
  BY DEF Repair, Fresh, GarbageIsSeen
<1> QED BY <1>1, <1>2, <1>3, <1>4, <1>5, <1>6 DEF Inv

(* Idles keeps the invariant.                                             *)
LEMMA IdlesKeeps ==
  ASSUME Inv, UNCHANGED vars
  PROVE  Inv'
<1>1. TypeOK'
  BY DEF Inv, vars, TypeOK, canonical, Head, Work
<1>2. EmptyEpoch'
  BY DEF Inv, vars, EmptyEpoch
<1>3. RunIsLive'
  BY DEF Inv, vars, Live, canonical, RunIsLive, Work, EmptyEpoch, Current
<1>4. VisibleIsCurrent'
  BY DEF Inv, vars, Live, canonical, VisibleIsCurrent, EmptyEpoch, RunIsLive,
     Visible, Head, Work, Current
<1>5. Remembered'
  BY DEF Inv, vars, Live, canonical, Remembered, VisibleIsCurrent, EmptyEpoch,
     RunIsLive, Visible, Head, Work, Current
<1>6. GarbageIsSeen'
  BY DEF Inv, vars, GarbageIsSeen
<1> QED BY <1>1, <1>2, <1>3, <1>4, <1>5, <1>6 DEF Inv

(* Every step keeps the invariant.                                         *)
LEMMA StepInv == ASSUME Inv, [Next]_vars PROVE Inv'
<1>1. CASE Advance
  <2>1. ~broken /\ slice' \in BOOLEAN /\ UNCHANGED <<canonical, broken, cuts>>
    BY <1>1 DEF Advance, Runs
  <2>2. CASE Turn
    BY <2>1, <2>2, DropStaleKeeps, ExpandKeeps, SkipVisibleKeeps, DropAbsentKeeps, BeginKeeps,
       WriteChunkKeeps, PublishKeeps DEF Turn
  <2>3. CASE CleanUp \/ SwitchEpoch
    BY <2>1, <2>3, CleanUpKeeps, SwitchEpochKeeps
  <2> QED BY <1>1, <2>2, <2>3 DEF Advance
<1>2. CASE AdvanceFails
  <2>1. /\ ~broken /\ slice' \in BOOLEAN /\ cuts' \in 0 .. MaxCuts
        /\ UNCHANGED <<canonical, broken>>
    BY <1>2, Sizes DEF AdvanceFails, Runs, Cut, Inv, TypeOK
  <2> QED BY <1>2, <2>1, CannotBeginKeeps, FailRunKeeps DEF AdvanceFails
<1>3. ASSUME NEW s \in Source, Change(s) PROVE Inv'
  BY <1>3, ChangeKeeps
<1>4. CASE Settle \/ ChangeShared \/ Rebuild \/ Yield \/ Restart \/ Break \/ Repair
  BY <1>4, SettleKeeps, ChangeSharedKeeps, RebuildKeeps, YieldKeeps, RestartKeeps, BreakKeeps,
     RepairKeeps
<1>5. CASE UNCHANGED vars
  BY <1>5, IdlesKeeps
<1> QED BY <1>1, <1>2, <1>3, <1>4, <1>5 DEF Next

(* The invariant holds of every reachable state.                           *)
THEOREM Invariance == Spec => []Inv
<1>1. Init => Inv
  BY InitInv
<1>2. Inv /\ [Next]_vars => Inv'
  BY StepInv
<1> QED BY <1>1, <1>2, PTL DEF Spec

(* State is typed; without a rebuild its epoch has no rows.                *)
THEOREM Typing == Spec => [](TypeOK /\ EmptyEpoch)
<1>1. Inv => TypeOK /\ EmptyEpoch
  BY DEF Inv
<1> QED BY <1>1, Invariance, PTL

(* No head made of another text than the present one answers a search.     *)
THEOREM Visibility == Spec => []VisibleIsCurrent
<1>1. Inv => VisibleIsCurrent
  BY DEF Inv
<1> QED BY <1>1, Invariance, PTL

(* No change is lost.                                                      *)
THEOREM Memory == Spec => []NothingForgotten
<1>1. ASSUME Inv PROVE NothingForgotten
  BY <1>1 DEF Inv, Remembered, NothingForgotten
<1> QED BY <1>1, Invariance, PTL

(* Rows that nothing owns are looked for.                                  *)
THEOREM Scans == Spec => []GarbageIsSeen
<1>1. Inv => GarbageIsSeen
  BY DEF Inv
<1> QED BY <1>1, Invariance, PTL

(* The epoch that takes over has been swept, and its queue is empty.       *)
LEMMA Switching ==
  ASSUME Inv, [Next]_vars, rebuilding, ~rebuilding', ~broken, NEW s \in Source
  PROVE  IF present[s] THEN head'["active"][s] # None /\ head'["active"][s].text = text[s]
         ELSE head'["active"][s] = None
<1>1. SwitchEpoch
  BY DEF Next, Advance, Turn, AdvanceFails, Settle, Change, ChangeShared, Rebuild, Yield, Restart,
     Break, Repair, DropStale, CleanUp, Expand, SkipVisible, DropAbsent, Begin, WriteChunk,
     Publish, CannotBegin, FailRun, StartRebuild, vars
<1>2. queued["rebuilding"][s] = "no" /\ sweep["rebuilding"] = N + 1 /\ ~(N + 1 < s)
  BY <1>1, Sizes DEF SwitchEpoch, Switches, QueueEmpty, Source
<1>3. IF present[s] THEN Visible("rebuilding", s) ELSE head["rebuilding"][s] = None
  BY <1>2 DEF Inv, Remembered, Live, Epoch
<1>4. head'["active"][s] = head["rebuilding"][s]
  BY <1>1 DEF SwitchEpoch, Epoch
<1>5. Visible("rebuilding", s) => head["rebuilding"][s].text = text[s]
  BY DEF Inv, VisibleIsCurrent, Live, Epoch
<1> QED BY <1>3, <1>4, <1>5 DEF Visible

(* An epoch that takes over shows every source as it is, and no other.     *)
THEOREM CompleteSwitch == Spec => SwitchIsComplete
<1>1. Inv /\ [Next]_vars =>
        [rebuilding /\ ~rebuilding' /\ ~broken =>
           \A s \in Source :
             IF present[s] THEN head'["active"][s] # None /\ head'["active"][s].text = text[s]
             ELSE head'["active"][s] = None]_vars
  BY Switching
<1> QED BY <1>1, Invariance, PTL DEF Spec, SwitchIsComplete

-----------------------------------------------------------------------------
(* What status() promises.  TLC checks that sources get indexed            *)
(* (EventuallyIndexed); what that rests on is that a count of nothing is   *)
(* the truth, and a count of something finds a turn to take.               *)

(* Every source of a living epoch is shown as it is, or reported as        *)
(* failed, and no row is left that nothing owns.                           *)
Shown(e, s) ==
  IF present[s] THEN Visible(e, s) /\ head[e][s].text = text[s] ELSE ~Visible(e, s)
CaughtUp ==
  /\ litter = 0
  /\ \A e \in Live, s \in Source : Shown(e, s) \/ queued[e][s] = "failed"

(* A slice has something to do: a run to go on with, rows to clean, the    *)
(* row of a source or of a scope to take.                                  *)
HasTurn ==
  \/ ~NoWork
  \/ Garbage
  \/ \E e \in Epoch, s \in Source : Picks(e, s)
  \/ \E e \in Epoch : PicksScope(e)

CaughtUpOrDue ==
  ~broken => /\ ~Pending => CaughtUp
             /\ Pending => HasTurn

(* What status() does not count is settled.                                *)
LEMMA NothingCounted ==
  ASSUME Inv, ~broken, ~Pending
  PROVE  CaughtUp
<1>1. litter = 0
  BY DEF Inv, TypeOK, GarbageIsSeen, Pending, Garbage
<1>2. ASSUME NEW e \in Live, NEW s \in Source, queued[e][s] # "failed"
      PROVE  Shown(e, s)
  <2>1. e \in Epoch
    BY DEF Live, Epoch
  <2>2. queued[e][s] = "no"
    BY <1>2, <2>1 DEF Inv, TypeOK, Pending, SourceRows
  <2>3. ~(sweep[e] < s)
    <3>1. sweep[e] \in Nat /\ s \in Nat /\ N \in Nat /\ s <= N /\ ~(sweep[e] <= N)
      BY <2>1, Sizes DEF Inv, TypeOK, Pending, ScopeRows, Source
    <3> QED BY <3>1
  <2>4. IF present[s] THEN Visible(e, s) ELSE head[e][s] = None
    BY <2>2, <2>3 DEF Inv, Remembered
  <2>5. Visible(e, s) => head[e][s].text = text[s]
    BY DEF Inv, VisibleIsCurrent
  <2> QED BY <2>4, <2>5 DEF Shown, Visible
<1> QED BY <1>1, <1>2 DEF CaughtUp

(* The oldest row of the queue is taken first, and there is one.           *)
LEMMA FirstRow ==
  ASSUME SourceRows
  PROVE  \E e \in Epoch, s \in Source : Picks(e, s)
<1> DEFINE rows(e) == {s \in Source : queued[e][s] = "queued"}
<1>1. ASSUME NEW e \in Epoch, rows(e) # {}
      PROVE  \E s \in rows(e) : \A t \in rows(e) : s <= t
  <2>1. rows(e) \in SUBSET Nat
    BY DEF Source
  <2> HIDE DEF rows
  <2> QED BY <1>1, <2>1, Least
<1>2. CASE rows("active") # {}
  <2>1. PICK s \in rows("active") : \A t \in rows("active") : s <= t
    BY <1>1, <1>2 DEF Epoch
  <2>2. Picks("active", s)
    BY <2>1 DEF Picks, Before, Epoch
  <2> QED BY <2>1, <2>2 DEF Epoch
<1>3. CASE rows("active") = {}
  <2>1. rows("rebuilding") # {}
    BY <1>3 DEF SourceRows, Epoch
  <2>2. PICK s \in rows("rebuilding") : \A t \in rows("rebuilding") : s <= t
    BY <1>1, <2>1 DEF Epoch
  <2>3. Picks("rebuilding", s)
    BY <1>3, <2>2 DEF Picks, Before, Epoch
  <2> QED BY <2>2, <2>3 DEF Epoch
<1> QED BY <1>2, <1>3

(* What status() counts has a turn.                                        *)
LEMMA CountedIsDue ==
  ASSUME Pending
  PROVE  HasTurn
<1>1. CASE SourceRows
  BY <1>1, FirstRow DEF HasTurn
<1>2. CASE ~SourceRows /\ ScopeRows
  <2>1. CASE sweep["active"] <= N
    <3>1. PicksScope("active")
      BY <1>2, <2>1 DEF PicksScope, Before, Epoch
    <3> QED BY <3>1 DEF HasTurn, Epoch
  <2>2. CASE ~(sweep["active"] <= N)
    <3>1. PicksScope("rebuilding")
      BY <1>2, <2>2 DEF PicksScope, ScopeRows, Before, Epoch
    <3> QED BY <3>1 DEF HasTurn, Epoch
  <2> QED BY <2>1, <2>2
<1> QED BY <1>1, <1>2 DEF Pending, HasTurn

(* When status() counts nothing, the index shows every source as it is,    *)
(* except those it reports as failed; when it counts something, the next   *)
(* slice has work (search/index.ts, status, obsolete and advance).         *)
THEOREM Status == Spec => []CaughtUpOrDue
<1>1. Inv => CaughtUpOrDue
  BY NothingCounted, CountedIsDue DEF CaughtUpOrDue
<1> QED BY <1>1, Invariance, PTL
=============================================================================
