---------------------------- MODULE OnceService ----------------------------
(***************************************************************************)
(* What the local archive promises the tabs that use it, whatever owners   *)
(* come and go in between: a transaction takes effect at most once, the    *)
(* requests of one caller take effect in the order they were issued, and   *)
(* whoever is told that a request did, or will never, take effect is told  *)
(* the truth.  The third answer, "unknown", promises nothing and so does   *)
(* not appear here.                                                        *)
(***************************************************************************)
EXTENDS Naturals

CONSTANTS
  Req,     \* requests, numbered in the order they are issued
  Caller,  \* who may issue them
  Txn,     \* transaction identities
  TxnOf,   \* transaction of each request
  Nobody


VARIABLES
  caller,  \* who issued a request
  did,     \* requests that took effect
  durable, \* transactions that took effect
  yes,     \* requests somebody was told are durable
  no       \* requests somebody was told never take effect

vars == <<caller, did, durable, yes, no>>

Init ==
  /\ caller = [c \in Req |-> Nobody]
  /\ did = {} /\ durable = {} /\ yes = {} /\ no = {}

Issued == {c \in Req : caller[c] # Nobody}

Issue(c) ==
  /\ c \notin Issued
  /\ \E t \in Caller : caller' = [caller EXCEPT ![c] = t]
  /\ no' \in {no, no \cup {c}}
  /\ UNCHANGED <<did, durable, yes>>

TakeEffect(c) ==
  /\ c \in Issued \ no
  /\ TxnOf[c] \notin durable
  /\ \A d \in did : caller[d] = caller[c] => d < c
  /\ did' = did \cup {c}
  /\ durable' = durable \cup {TxnOf[c]}
  /\ UNCHANGED <<caller, yes, no>>

(* One step may answer several callers, each with yes or no.               *)
Answer ==
  /\ yes \subseteq yes' /\ no \subseteq no'
  /\ \A c \in yes' \ yes : c \in Issued /\ TxnOf[c] \in durable
  /\ \A c \in no' \ no : c \in Issued \ did
  /\ UNCHANGED <<caller, did, durable>>

Next == (\E c \in Req : Issue(c) \/ TakeEffect(c)) \/ Answer

Spec == Init /\ [][Next]_vars
=============================================================================
