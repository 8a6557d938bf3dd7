------------------------------ MODULE MCStack ------------------------------
(* NkStack with room for eight values and limits between.                  *)
EXTENDS NkStack

CONSTANTS v0, v1
=============================================================================
