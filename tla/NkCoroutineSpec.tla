-------------------------- MODULE NkCoroutineSpec --------------------------
(***************************************************************************)
(* What coroutines promise (README.md:376-456): one chain of contexts, the *)
(* root first and the one that runs last; a coroutine that is not in it    *)
(* may be resumed until it has finished; one that yields or finishes gives *)
(* way to the context that resumed it; one an error passed through never   *)
(* runs again.                                                             *)
(***************************************************************************)
EXTENDS Naturals, Sequences

CONSTANTS Co,      \* identities of coroutines
          Root     \* the context the program starts in

VARIABLES chain, status

Status == {"none", "created", "active", "suspended", "finished", "invalid"}

Init == chain = <<Root>> /\ status = [c \in Co |-> "none"]

Create(c) ==
  /\ status[c] = "none"
  /\ status' = [status EXCEPT ![c] = "created"]
  /\ UNCHANGED chain

Resume(c) ==
  /\ status[c] \in {"created", "suspended"}
  /\ chain' = Append(chain, c)
  /\ status' = [status EXCEPT ![c] = "active"]

(* The running coroutine gives way, for good or not. *)
GiveWay ==
  /\ Len(chain) > 1
  /\ chain' = SubSeq(chain, 1, Len(chain) - 1)
  /\ \E s \in {"suspended", "finished"} :
       status' = [status EXCEPT ![chain[Len(chain)]] = s]

(* After an error the program is given up, with all that was active in it. *)
Abandon ==
  /\ chain' = <<Root>>
  /\ status' = [c \in Co |-> IF status[c] = "active" THEN "invalid" ELSE status[c]]

(* A coroutine nothing refers to goes away. *)
Collect(c) ==
  /\ status[c] # "active"
  /\ status' = [status EXCEPT ![c] = "none"]
  /\ UNCHANGED chain

Next ==
  \/ \E c \in Co : Create(c) \/ Resume(c) \/ Collect(c)
  \/ GiveWay
  \/ Abandon

Spec == Init /\ [][Next]_<<chain, status>>
=============================================================================
