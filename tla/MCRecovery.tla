----------------------------- MODULE MCRecovery -----------------------------
(* NkRecovery with three blocks, numbers of four bits and nested calls.    *)
EXTENDS NkRecovery, TLC

CONSTANTS b1, b2, b3
=============================================================================
