---------------------------- MODULE GenerationLog ----------------------------
(***************************************************************************)
(* What the archive promises about the output of one generation attempt:   *)
(* it only grows until it is sealed once, and only by batches granted to a *)
(* producer that lives, one at a time; so at most one batch follows the    *)
(* producer's end.  The producer seals it complete, recovery seals it      *)
(* partial, and recovery only touches an attempt whose producer is gone    *)
(* with nothing granted to it.                                             *)
(***************************************************************************)
EXTENDS Integers

CONSTANT MaxSequence

VARIABLES
  last, \* last committed checkpoint; -1 before the attempt exists
  seal, \* open, complete or partial
  live, \* the producer holds its lease
  granted \* a batch of the producer may be appended

vars == <<last, seal, live, granted>>

Init == last = -1 /\ seal = "open" /\ live = TRUE /\ granted = FALSE

Grant ==
  /\ live /\ ~granted
  /\ granted' = TRUE
  /\ UNCHANGED <<last, seal, live>>

Extend ==
  /\ seal = "open" /\ granted
  /\ last' \in last + 1 .. MaxSequence
  /\ seal' \in {"open", "complete"}
  /\ granted' = FALSE
  /\ UNCHANGED live

Refuse ==
  /\ granted
  /\ granted' = FALSE
  /\ UNCHANGED <<last, seal, live>>

Recover ==
  /\ seal = "open" /\ ~live /\ ~granted
  /\ seal' = "partial"
  /\ UNCHANGED <<last, live, granted>>

Stop == live' = FALSE /\ UNCHANGED <<last, seal, granted>>

Next == Grant \/ Extend \/ Refuse \/ Recover \/ Stop

Spec == Init /\ [][Next]_vars
=============================================================================
