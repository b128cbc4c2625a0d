-------------------------- MODULE MCArchiveRuntime --------------------------
EXTENDS ArchiveRuntime, TLC

DistinctTxns == [c \in Req |-> c]
OneTxn == [c \in Req |-> 1]
Symmetry == Permutations(Tab)
=============================================================================
