-------------------------------- MODULE MCGc --------------------------------
(* NkGc on small heaps. *)
EXTENDS NkGc, TLC

Symmetric == Permutations(CoroutineId) \cup Permutations(Obj \ CoroutineId)
=============================================================================
