------------------------------ MODULE MCTable ------------------------------
(* NkTable on 3-bit indices: capacities 1, 2 and 4, and exhaustion at 4.   *)
EXTENDS NkTable, TLC

Symmetric == Permutations(Entry)
=============================================================================
