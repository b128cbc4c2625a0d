------------------------- MODULE SelectionRegister -------------------------
(***************************************************************************)
(* What the selection catalog promises the contexts that use it: there is  *)
(* one selected archive, only it is written to, and a switch replaces it   *)
(* by a reviewed candidate in one step, provided that neither the          *)
(* selection nor the archive changed since the review.                     *)
(***************************************************************************)
EXTENDS Naturals

CONSTANTS Operation, Archive, Default, None

VARIABLES
  selected, \* archive and revision
  written,  \* canonical history of each archive
  reviewed  \* what each operation was reviewed against

vars == <<selected, written, reviewed>>

Init ==
  /\ selected = [archive |-> Default, revision |-> 0]
  /\ written = [a \in Archive |-> 0]
  /\ reviewed = [o \in Operation |-> None]

Write ==
  /\ written' = [written EXCEPT ![selected.archive] = @ + 1]
  /\ UNCHANGED <<selected, reviewed>>

Review(o) ==
  /\ reviewed[o] = None
  /\ \E a \in Archive \ {selected.archive} :
       reviewed' = [reviewed EXCEPT ![o] = [expected |-> selected, candidate |-> a,
                                            water |-> written[selected.archive]]]
  /\ UNCHANGED <<selected, written>>

Switch(o) ==
  /\ reviewed[o] # None
  /\ reviewed[o].expected = selected
  /\ reviewed[o].water = written[selected.archive]
  /\ selected' = [archive |-> reviewed[o].candidate, revision |-> selected.revision + 1]
  /\ UNCHANGED <<written, reviewed>>

Next == Write \/ \E o \in Operation : Review(o) \/ Switch(o)

Spec == Init /\ [][Next]_vars
=============================================================================
