------------------------ MODULE MCEmbeddingScheduler ------------------------
EXTENDS EmbeddingScheduler

CONSTANTS r1, r2, r3, k1, k2

(* One text is asked for interactively and in the background.              *)
MCKeyOf == [r \in Request |-> IF r = r3 THEN k2 ELSE k1]
=============================================================================
