----------------------------- MODULE NkSlotMap -----------------------------
(***************************************************************************)
(* What a Ninkasi slot table promises to the rest of the VM: every entry   *)
(* (a string or an object) has one slot index, no two entries share one,   *)
(* and an entry keeps its index from the moment it is put in until it is   *)
(* dropped.  The only thing that may change an index is compaction, and it *)
(* only moves an entry that nobody outside the VM refers to, downwards.    *)
(* NkTable is shown to implement this.                                     *)
(***************************************************************************)
EXTENDS Naturals

CONSTANTS Entry, IndexSpace

VARIABLES slotOf,     \* present entry -> its index
          pinned      \* entries compaction may not move

vars == <<slotOf, pinned>>

Present == DOMAIN slotOf
Used    == {slotOf[e] : e \in Present}

Init == slotOf = [e \in {} |-> 0] /\ pinned = {}

(* A new entry gets an index that is not in use. *)
Put(e, i) ==
  /\ e \in Entry \ Present
  /\ i \in (0 .. IndexSpace - 1) \ Used
  /\ slotOf' = [x \in Present \cup {e} |-> IF x = e THEN i ELSE slotOf[x]]
  /\ UNCHANGED pinned

(* An entry that is no longer needed gives its index back. *)
Drop(e) ==
  /\ e \in Present
  /\ slotOf' = [x \in Present \ {e} |-> slotOf[x]]
  /\ UNCHANGED pinned

(* Compaction moves one entry to a free lower index. *)
Relocate(e, i) ==
  /\ e \in Present \ pinned
  /\ i \in (0 .. IndexSpace - 1) \ Used
  /\ i < slotOf[e]
  /\ slotOf' = [slotOf EXCEPT ![e] = i]
  /\ UNCHANGED pinned

(* The set of entries that must stay put is fixed when a pass starts, and  *)
(* forgotten when it ends.                                                 *)
Pin(P) ==
  /\ P \subseteq Present
  /\ pinned' = P
  /\ UNCHANGED slotOf

(* The whole map is thrown away: the VM is deleted, or a save is loaded.   *)
Clear ==
  /\ slotOf' = [e \in {} |-> 0]
  /\ UNCHANGED pinned

Next ==
  \/ \E e \in Entry, i \in 0 .. IndexSpace - 1 : Put(e, i) \/ Relocate(e, i)
  \/ \E e \in Entry : Drop(e)
  \/ \E P \in SUBSET Entry : Pin(P)
  \/ Clear

Spec == Init /\ [][Next]_vars
=============================================================================
