------------------------------ MODULE NkTable ------------------------------
(***************************************************************************)
(* The slot table behind the string table and the object table of a        *)
(* Ninkasi VM (nktable.c): an array of entry pointers whose capacity is a  *)
(* power of two, and a list of "holes", the indices of its empty slots.    *)
(* The module also has the two users that write the array directly:        *)
(* compaction (nkshrink.c) and loading a saved VM (nksave.c).              *)
(*                                                                         *)
(* Every allocation in these functions may fail, and a failure leaves by   *)
(* longjmp with whatever was done so far (status "failed").  After that    *)
(* the VM may only be deleted; but hosts and their cleanup callbacks may   *)
(* still look at the external data of an object (nkx.c:610), and that      *)
(* lookup checks the index against the recorded capacity and nothing else  *)
(* (nkobjs.c:82).                                                          *)
(***************************************************************************)
EXTENDS Integers, Sequences, FiniteSets, Functions
(* An operator with an underscore in its name is a faulty variant of the   *)
(* one that follows it: no action uses it, it is put in the place of the   *)
(* original to see the runs catch it.                                      *)

CONSTANTS
  Entry,        \* the things the table points to
  NULL,         \* an empty slot
  IndexSpace    \* number of values of the index type (2^32 in the code)

(* The capacities an index can hold: the powers of two below IndexSpace,   *)
(* which is a power of two itself.                                         *)
Capacities == {c \in 1 .. IndexSpace - 1 : \E k \in 0 .. c : c = 2^k}

ASSUME NullAssumption == NULL \notin Entry
ASSUME IndexSpaceAssumption ==
  /\ IndexSpace \in Nat
  /\ 1 \in Capacities
  /\ \A c \in Capacities : 2 * c = IndexSpace \/ 2 * c \in Capacities

VARIABLES
  data,          \* the array: index -> entry or NULL; empty domain: no array
  capacity,      \* its recorded size
  holes,         \* the hole list, next one to be used first
  status,        \* "ok", "compacting", "loading", "dead", or after a longjmp:
                 \* "failed", "lost" (a load has freed the array before that)
  errors,        \* kinds of error in the VM's error list
  holeSearch,    \* nkiVmShrink's cursors
  objectSearch,
  pinned         \* entries compaction skips

vars == <<data, capacity, holes, status, errors, holeSearch, objectSearch, pinned>>
shrinkVars == <<holeSearch, objectSearch, pinned>>

Free    == {i \in DOMAIN data : data[i] = NULL}
Live    == {i \in DOMAIN data : data[i] # NULL}
Present == {data[i] : i \in Live}

NoArray == [i \in {} |-> NULL]

(* The lists that pushing holes one by one builds: downwards over the      *)
(* slots gives an ascending list, upwards a descending one.                *)
ByRank(S, rank) == [k \in 1 .. Cardinality(S) |-> CHOOSE x \in S : rank[x] = k - 1]
Ascending(S)  == ByRank(S, [x \in S |-> Cardinality({y \in S : y < x})])
Descending(S) == ByRank(S, [x \in S |-> Cardinality({y \in S : y > x})])

(***************************************************************************)
(* nkiTableInit.  A failing allocation leaves no array, or no hole.        *)
(***************************************************************************)
Init ==
  /\ \/ /\ data = [i \in {0} |-> NULL] /\ capacity = 1
        /\ \/ holes = <<0>> /\ status = "ok"
           \/ holes = <<>>  /\ status = "failed"
     \/ data = NoArray /\ capacity = 0 /\ holes = <<>> /\ status = "failed"
  /\ errors = {} /\ holeSearch = 0 /\ objectSearch = 0 /\ pinned = {}

(***************************************************************************)
(* nkiTableAddEntry                                                        *)
(***************************************************************************)
AddToHole(e) ==
  /\ status = "ok" /\ e \notin Present
  /\ holes # <<>>
  /\ data' = [data EXCEPT ![Head(holes)] = e]
  /\ holes' = Tail(holes)
  /\ UNCHANGED <<capacity, status, errors, shrinkVars>>

Doubled_Unwrapped == 2 * capacity
Doubled == (2 * capacity) % IndexSpace
Grown   == [i \in 0 .. Doubled - 1 |-> IF i < capacity THEN data[i] ELSE NULL]

(* The new slots above the one that the entry takes become holes. *)
NewHoles_WithOwnSlot == Ascending(capacity .. Doubled - 1)
NewHoles_OneShort    == Ascending(capacity + 1 .. Doubled - 2)
NewHoles == Ascending(capacity + 1 .. Doubled - 1)

AddAndGrow(e) ==
  /\ status = "ok" /\ e \notin Present
  /\ holes = <<>> /\ Doubled # 0
  /\ capacity' = Doubled
  /\ data' = [Grown EXCEPT ![capacity] = e]
  /\ holes' = NewHoles
  /\ UNCHANGED <<status, errors, shrinkVars>>

(* The reallocation fails: nothing has changed yet. *)
AddReallocFails_CapacityFirst ==
  /\ status = "ok" /\ holes = <<>> /\ Doubled # 0
  /\ status' = "failed" /\ capacity' = Doubled
  /\ UNCHANGED <<data, holes, errors, shrinkVars>>

AddReallocFails ==
  /\ status = "ok" /\ holes = <<>> /\ Doubled # 0
  /\ status' = "failed"
  /\ UNCHANGED <<data, capacity, holes, errors, shrinkVars>>

(* Creating the hole for slot n fails: the new slots are already NULL, the *)
(* holes above n exist, and the entry has not been stored.                 *)
AddHoleFails(n) ==
  /\ status = "ok" /\ holes = <<>> /\ Doubled # 0
  /\ n \in capacity + 1 .. Doubled - 1
  /\ capacity' = Doubled
  /\ data' = Grown
  /\ holes' = Ascending(n + 1 .. Doubled - 1)
  /\ status' = "failed"
  /\ UNCHANGED <<errors, shrinkVars>>

AddExhausted ==
  /\ status = "ok" /\ holes = <<>> /\ Doubled = 0
  /\ errors' = errors \cup {"exhausted"}
  /\ UNCHANGED <<data, capacity, holes, status, shrinkVars>>

(***************************************************************************)
(* nkiTableEraseEntry: the slot is cleared before its hole is allocated.   *)
(***************************************************************************)
EraseEntry(i) ==
  /\ status = "ok" /\ i \in Live
  /\ data' = [data EXCEPT ![i] = NULL]
  /\ \/ holes' = <<i>> \o holes /\ UNCHANGED status
     \/ UNCHANGED holes /\ status' = "failed"
  /\ UNCHANGED <<capacity, errors, shrinkVars>>

(***************************************************************************)
(* nkiVmShrink: compaction, one slot of the hole search at a time, then    *)
(* nkiTableShrink.  Entries with external handles, coroutine objects and   *)
(* dontGC strings (here: pinned) are skipped.                              *)
(***************************************************************************)
ShrinkBegin(P) ==
  /\ status = "ok" /\ errors = {} /\ P \subseteq Present
  /\ status' = "compacting"
  /\ pinned' = P
  /\ UNCHANGED <<data, capacity, holes, errors, holeSearch, objectSearch>>

SearchFrom_OneLate == IF objectSearch < holeSearch THEN holeSearch + 2 ELSE objectSearch
SearchFrom == IF objectSearch < holeSearch THEN holeSearch + 1 ELSE objectSearch
Movable_Pinned == {i \in Live : i >= SearchFrom}
Movable    == {i \in Live : i >= SearchFrom /\ data[i] \notin pinned}

SkipOccupied ==
  /\ status = "compacting" /\ holeSearch \in Live
  /\ holeSearch' = holeSearch + 1
  /\ UNCHANGED <<data, capacity, holes, status, errors, objectSearch, pinned>>

(* nkiVmMoveObject / nkiVmMoveString: the table half of the move. *)
Moved(i) == [data EXCEPT ![holeSearch] = data[i], ![i] = NULL]

MoveIntoHole ==
  /\ status = "compacting" /\ holeSearch \in Free
  /\ \E i \in Movable :
       /\ \A j \in Movable : i <= j
       /\ data' = Moved(i)
       /\ objectSearch' = i
  /\ holeSearch' = holeSearch + 1
  /\ UNCHANGED <<capacity, holes, status, errors, pinned>>

NothingToMove ==
  /\ status = "compacting" /\ holeSearch \in Free /\ Movable = {}
  /\ objectSearch' = IF SearchFrom < capacity THEN capacity ELSE SearchFrom
  /\ holeSearch' = holeSearch + 1
  /\ UNCHANGED <<data, capacity, holes, status, errors, pinned>>

(* The capacity nkiTableShrink halves down to: the last one whose half     *)
(* would not be above the highest live index.                              *)
ShrinksTo(c) ==
  /\ c <= capacity
  /\ \A i \in Live : i < c
  /\ c = 1 \/ \E i \in Live : c \div 2 <= i
Shrunk(c) == [i \in 0 .. c - 1 |-> data[i]]

TableShrink(c) ==
  /\ status = "compacting" /\ holeSearch >= capacity
  /\ ShrinksTo(c)
  /\ capacity' = c /\ data' = Shrunk(c)
  /\ holes' = Ascending({i \in Free : i < c})
  /\ status' = "ok"
  /\ holeSearch' = 0 /\ objectSearch' = 0 /\ pinned' = {}
  /\ UNCHANGED errors

(* The reallocation fails: compaction has made the hole list stale. *)
ShrinkReallocFails ==
  /\ status = "compacting" /\ holeSearch >= capacity
  /\ ~ ShrinksTo(capacity)
  /\ status' = "failed"
  /\ UNCHANGED <<data, capacity, holes, errors, shrinkVars>>

(* nkiTableResetHoles fails at slot n. *)
ShrinkHoleFails(c, n) ==
  /\ status = "compacting" /\ holeSearch >= capacity
  /\ ShrinksTo(c) /\ n \in Free /\ n < c
  /\ capacity' = c /\ data' = Shrunk(c)
  /\ holes' = Ascending({i \in Free : n < i /\ i < c})
  /\ status' = "failed"
  /\ UNCHANGED <<errors, shrinkVars>>

(***************************************************************************)
(* nkiSerializeObjectTable in read mode, from a well-formed save: a fresh  *)
(* array of the saved capacity, then the saved entries at their indices,   *)
(* then the holes, upwards.                                                *)
(***************************************************************************)
LoadBegin(c) ==
  /\ status = "ok"
  /\ data' = [i \in 0 .. c - 1 |-> NULL] /\ capacity' = c
  /\ holes' = <<>>
  /\ status' = "loading"
  /\ UNCHANGED <<errors, shrinkVars>>

(* The old array is freed before its replacement is allocated.  The table  *)
(* of objects still has its old capacity and holes then, that of strings   *)
(* has the saved capacity already.                                         *)
LoadBeginFails(c) ==
  /\ status = "ok"
  /\ data' = NoArray
  /\ \/ UNCHANGED <<capacity, holes>>
     \/ capacity' = c /\ holes' = <<>>
  /\ status' = "lost"
  /\ UNCHANGED <<errors, shrinkVars>>

LoadEntry(i, e) ==
  /\ status = "loading" /\ i \in Free /\ e \notin Present
  /\ data' = [data EXCEPT ![i] = e]
  /\ UNCHANGED <<capacity, holes, status, errors, shrinkVars>>

(* The stream ends early, or an allocation fails.  An entry whose own      *)
(* contents are cut short stays in the table.                              *)
LoadCutShort ==
  /\ status = "loading"
  /\ \/ errors' = errors \cup {"read"} /\ status' = "ok"
     \/ status' = "failed" /\ UNCHANGED errors
  /\ UNCHANGED <<data, capacity, holes, shrinkVars>>

LoadDone ==
  /\ status = "loading"
  /\ holes' = Descending(Free)
  /\ status' = "ok"
  /\ UNCHANGED <<data, capacity, errors, shrinkVars>>

LoadHoleFails(n) ==
  /\ status = "loading" /\ n \in Free
  /\ holes' = Descending({i \in Free : i < n})
  /\ status' = "failed"
  /\ UNCHANGED <<data, capacity, errors, shrinkVars>>

(* The caller clears every slot (CleanAllObjects, nkiVmStringTableDestroy) *)
(* and nkiTableDestroy frees the array and the holes.                      *)
Destroy ==
  /\ status = "ok"
  /\ data' = NoArray /\ capacity' = 0 /\ holes' = <<>>
  /\ status' = "dead"
  /\ UNCHANGED <<errors, shrinkVars>>

Next ==
  \/ \E e \in Entry : AddToHole(e) \/ AddAndGrow(e)
  \/ AddReallocFails
  \/ AddExhausted
  \/ \E i \in 0 .. IndexSpace - 1 : AddHoleFails(i) \/ EraseEntry(i)
  \/ \E P \in SUBSET Entry : ShrinkBegin(P)
  \/ SkipOccupied
  \/ MoveIntoHole
  \/ NothingToMove
  \/ \E c \in Capacities : TableShrink(c)
  \/ ShrinkReallocFails
  \/ \E c \in Capacities, n \in 0 .. IndexSpace - 1 : ShrinkHoleFails(c, n)
  \/ \E c \in Capacities : LoadBegin(c) \/ LoadBeginFails(c)
  \/ \E i \in 0 .. IndexSpace - 1, e \in Entry : LoadEntry(i, e)
  \/ LoadCutShort
  \/ LoadDone
  \/ \E n \in 0 .. IndexSpace - 1 : LoadHoleFails(n)
  \/ Destroy

Spec == Init /\ [][Next]_vars

-----------------------------------------------------------------------------
TypeOK ==
  /\ capacity \in Capacities \cup {0}
  /\ DOMAIN data \subseteq 0 .. capacity - 1
  /\ data \in [DOMAIN data -> Entry \cup {NULL}]
  /\ holes \in Seq(0 .. IndexSpace - 1)
  /\ status \in {"ok", "compacting", "loading", "failed", "lost", "dead"}
  /\ errors \subseteq {"exhausted", "read"}
  /\ holeSearch \in Nat /\ objectSearch \in Nat
  /\ pinned \subseteq Entry

(* nkiTableAddEntry stores its entry in the first hole without looking at  *)
(* the slot.  So while the VM runs, every hole must be an empty slot of    *)
(* the array and no index may be on the list twice: otherwise a new string *)
(* or object overwrites a live one.                                        *)
HolesAreEmptySlots ==
  status = "ok" => Range(holes) \subseteq Free /\ IsInjective(holes)

(* And every empty slot is on the list, so the table never doubles while   *)
(* it has room - unless loading a save was cut short, which drops the list *)
(* before rebuilding it.                                                   *)
NoSlotLeaked ==
  status = "ok" /\ "read" \notin errors => Free \subseteq Range(holes)

(* "It means that the object and string table contents and ranges will     *)
(* remain sane in case of catastrophic failure, allowing save VM and       *)
(* external data cleanup" (nktable.c:206-209): the array has exactly the   *)
(* recorded capacity, and there is none only if that is 0, because lookups *)
(* by index, which cleanup may still make, are bounded by the capacity     *)
(* alone.                                                                  *)
RangesSaneAlways == DOMAIN data = 0 .. capacity - 1

(* What the code keeps of that: it is so whichever allocation fails in     *)
(* adding, erasing, compacting or loading, but for one.  The allocation of *)
(* the array that a save is loaded into fails after the old array is gone. *)
RangesSane == status # "lost" => RangesSaneAlways

(* An entry has one slot: its objectTableIndex / stringTableIndex.  Two    *)
(* would have it freed twice by the sweep.                                 *)
OneSlotEach == \A i, j \in Live : data[i] = data[j] => i = j

(* Compaction leaves no movable entry above an empty slot, so that the     *)
(* halving that follows is as good as the pinned entries allow.            *)
CompactionPacks ==
  status = "compacting" =>
    \A i \in Free : i < holeSearch =>
      \A j \in Live : j > i => data[j] \in pinned

(* The strengthening that makes the invariants above inductive.  While the *)
(* table is in use the array has its recorded size; while compaction runs, *)
(* everything between its two cursors is pinned; while a save is loaded    *)
(* there are no holes yet.                                                 *)
ArrayMatchesCapacity ==
  status \in {"ok", "compacting", "loading"} =>
    capacity \in Capacities /\ DOMAIN data = 0 .. capacity - 1
CursorsSkipPinned ==
  /\ status = "compacting" =>
       \A j \in Live : holeSearch <= j /\ j < objectSearch => data[j] \in pinned
  /\ status \in {"ok", "loading"} => holeSearch = 0 /\ objectSearch = 0

NoHolesWhileLoading == status = "loading" => holes = <<>>

IInv ==
  /\ TypeOK /\ ArrayMatchesCapacity /\ CursorsSkipPinned /\ NoHolesWhileLoading
  /\ RangesSane /\ HolesAreEmptySlots /\ NoSlotLeaked
  /\ OneSlotEach /\ CompactionPacks

(* The slot map a caller sees. *)
SlotOf == [e \in Present |-> CHOOSE i \in Live : data[i] = e]

SlotMap == INSTANCE NkSlotMap WITH slotOf <- SlotOf

(* The table gives its users what NkSlotMap promises, whichever allocation *)
(* fails and wherever compaction is.                                       *)
ImplementsSlotMap == SlotMap!Spec
=============================================================================
