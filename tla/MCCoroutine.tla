---------------------------- MODULE MCCoroutine ----------------------------
(* NkCoroutine with few coroutines and shallow stacks. *)
EXTENDS NkCoroutine, TLC
=============================================================================
