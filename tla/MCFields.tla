------------------------------ MODULE MCFields ------------------------------
(* NkFields with two slots, two buckets and colliding hashes, and floats    *)
(* with the peculiar ones among them.                                       *)
EXTENDS NkFields, TLC

CONSTANTS o1, o2, s1, n0, n1, zero, minusZero, nan

Symmetric == Permutations({o1, o2})
Hashes == [v \in Strings \cup Atoms |->
             IF v = minusZero THEN 2 ELSE IF v \in {n1, nan} THEN 1 ELSE 0]
Equals == [a \in Atoms |-> IF a = minusZero THEN zero ELSE a]
=============================================================================
