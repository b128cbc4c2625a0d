------------------------- MODULE MCSelectionCatalog -------------------------
EXTENDS SelectionCatalog, TLC

Symmetry == Permutations(Context) \cup Permutations(Operation) \cup Permutations(Archive \ {Default})
=============================================================================
