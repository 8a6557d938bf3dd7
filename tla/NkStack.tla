------------------------------ MODULE NkStack ------------------------------
(***************************************************************************)
(* The stack of an execution context (nkstack.c): an array that is doubled *)
(* when it is full, halved by compaction (nkshrink.c) and replaced by      *)
(* loading (nksave.c).  Instructions index it through a mask, which has to *)
(* follow the capacity in all three; the index is not checked otherwise.   *)
(***************************************************************************)
EXTENDS Integers

(* An operator with an underscore in its name is a faulty variant of the   *)
(* one that follows it; no action uses it.                                 *)

CONSTANTS
  Values,
  Zero,          \* what cleared memory reads as
  Capacities,    \* powers of two
  MaxCapacity,   \* the greatest of them a stack may have (0x10000)
  Limits         \* values the host may set maxStackSize to

ASSUME StackAssumption ==
  /\ Zero \in Values
  /\ Capacities \subseteq Nat \ {0} /\ 1 \in Capacities
  /\ MaxCapacity \in Capacities
  /\ \A c \in Capacities :
       c = MaxCapacity \/ (c < MaxCapacity /\ 2 * c \in Capacities)
  /\ \A c, d \in Capacities : c < d => 2 * c <= d
  /\ Limits \subseteq Nat /\ Limits # {}

VARIABLES
  values,     \* the array
  size,
  capacity,
  indexMask,
  limit,      \* maxStackSize
  result,     \* the value an instruction got last
  failed,     \* there is an error
  odd         \* the number of instructions so far is (read by no action)

vars == <<values, size, capacity, indexMask, limit, result, failed, odd>>

TypeOK ==
  /\ capacity \in Capacities
  /\ values \in [0 .. capacity - 1 -> Values]
  /\ size \in 0 .. capacity
  /\ indexMask \in Nat
  /\ limit \in Limits
  /\ result \in Values
  /\ failed \in BOOLEAN
  /\ odd \in BOOLEAN

Init ==
  /\ values = [i \in 0 .. 0 |-> Zero]
  /\ size = 0
  /\ capacity = 1
  /\ indexMask = 0
  /\ limit \in Limits
  /\ result = Zero
  /\ failed = FALSE
  /\ odd = FALSE

-----------------------------------------------------------------------------
(* Instructions.                                                           *)

(* What reallocation leaves of the array in c cells.                       *)
Resized(c) == [i \in 0 .. c - 1 |-> IF i < capacity THEN values[i] ELSE Zero]

MayGrow ==
  /\ capacity < MaxCapacity
  /\ 2 * capacity <= limit

PushWithRoom(v) ==
  /\ size < capacity
  /\ values' = [values EXCEPT ![size] = v]
  /\ size' = size + 1
  /\ UNCHANGED <<capacity, indexMask, limit, result, failed>>

PushAndGrow(v) ==
  /\ size = capacity
  /\ MayGrow
  /\ capacity' = 2 * capacity
  /\ indexMask' = 2 * indexMask + 1
  /\ values' = [Resized(2 * capacity) EXCEPT ![size] = v]
  /\ size' = size + 1
  /\ UNCHANGED <<limit, result, failed>>

(* The caller is given the lowest cell to write to.                        *)
PushRefused(v) ==
  /\ size = capacity
  /\ ~MayGrow
  /\ failed' = TRUE
  /\ values' = [values EXCEPT ![0] = v]
  /\ UNCHANGED <<size, capacity, indexMask, limit, result>>

(* So is the one who pops too many.                                        *)
Pop ==
  /\ \/ /\ size > 0
        /\ size' = size - 1
        /\ result' = values[size - 1]
        /\ UNCHANGED failed
     \/ /\ size = 0
        /\ result' = values[0]
        /\ failed' = TRUE
        /\ UNCHANGED size
  /\ UNCHANGED <<values, capacity, indexMask, limit>>

PopN(count) ==
  /\ \/ /\ count <= size
        /\ size' = size - count
        /\ UNCHANGED failed
     \/ /\ count > size
        /\ size' = 0
        /\ failed' = TRUE
  /\ UNCHANGED <<values, capacity, indexMask, limit, result>>

(* index & indexMask, for a mask that is a power of two less one.          *)
Cell(index) == index % (indexMask + 1)

Peek(index) ==
  /\ result' = values[Cell(index)]
  /\ UNCHANGED <<values, size, capacity, indexMask, limit, failed>>

Poke(index, v) ==
  /\ values' = [values EXCEPT ![Cell(index)] = v]
  /\ UNCHANGED <<size, capacity, indexMask, limit, result, failed>>

-----------------------------------------------------------------------------
(* The host.                                                               *)

SetMaxStackSize ==
  /\ limit' \in Limits
  /\ UNCHANGED <<values, size, capacity, indexMask, result, failed>>

(* Halved until half of it would not hold one value more.                  *)
Fits(c) == c \div 2 <= size

ShrinksTo(c) ==
  /\ c \in Capacities
  /\ c <= capacity
  /\ Fits(c)
  /\ \A d \in Capacities : c < d /\ d <= capacity => ~Fits(d)

MaskOf_Kept(c) == indexMask

MaskOf(c) == c - 1

ShrinkStack ==
  \E c \in Capacities :
    /\ ShrinksTo(c)
    /\ capacity' = c
    /\ indexMask' = MaskOf(c)
    /\ values' = Resized(c)
    /\ UNCHANGED <<size, limit, result, failed>>

(* The stack of a VM is saved and loaded into another one, whose stack is  *)
(* cleared and given the capacity and the size of the one that was saved.  *)
LoadedSize_Cleared == 0

LoadedSize == size

SaveAndLoad ==
  /\ \/ /\ capacity > limit
        /\ failed' = TRUE
        /\ UNCHANGED <<values, size, capacity, indexMask>>
     \/ /\ capacity <= limit
        /\ values' = [i \in 0 .. capacity - 1 |->
                        IF i < size THEN values[i] ELSE Zero]
        /\ indexMask' = capacity - 1
        /\ size' = LoadedSize
        /\ UNCHANGED <<capacity, failed>>
  /\ UNCHANGED <<limit, result>>

Instruction ==
  \/ \E v \in Values : PushWithRoom(v) \/ PushAndGrow(v) \/ PushRefused(v)
  \/ Pop
  \/ \E count \in 0 .. MaxCapacity : PopN(count)
  \/ \E index \in 0 .. size - 1 :
       Peek(index) \/ \E v \in Values : Poke(index, v)

Next ==
  /\ ~failed
  /\ \/ /\ Instruction
        /\ odd' = ~odd
     \/ /\ SetMaxStackSize \/ ShrinkStack \/ SaveAndLoad
        /\ UNCHANGED odd

Spec == Init /\ [][Next]_vars

-----------------------------------------------------------------------------
(* Properties.                                                             *)

(* The mask is that of the capacity, however the stack came to have it:    *)
(* what instructions index is in the array, and a different cell for each  *)
(* index up to the size.  A stack is never left without capacity.          *)
MaskFollowsCapacity ==
  /\ capacity > 0
  /\ indexMask = capacity - 1

(* A program's stack is a sequence of values: doubling, halving, saving and*)
(* loading in between of two instructions change nothing it can see.       *)
Abstract == INSTANCE NkValueStack WITH
  stack <- [i \in 1 .. size |-> values[i - 1]]
ImplementsValueStack == Abstract!Spec
=============================================================================
