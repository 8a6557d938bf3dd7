----------------------------- MODULE MCIterate -----------------------------
(* NkIterate with numbers of four bits, limits that are no multiple of the *)
(* intervals, and intervals on both sides of what loading allows.          *)
EXTENDS NkIterate
=============================================================================
