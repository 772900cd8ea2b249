----------------------------- MODULE MCBlockFile -----------------------------
(* BlockFile for TLC.  Tasks, handles and buffers are each all alike.        *)
EXTENDS BlockFile, TLC

Symmetry == Permutations(Task) \cup Permutations(Handle) \cup Permutations(Buffer)
==============================================================================
