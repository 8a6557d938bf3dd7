--------------------------- MODULE NkStackProofs ---------------------------
(***************************************************************************)
(* For all capacities and limits, the mask of NkStack follows the capacity,*)
(* and so the array is a stack of values to the instructions.              *)
(***************************************************************************)
EXTENDS NkStack, Sequences, TLAPS

Inv == TypeOK /\ MaskFollowsCapacity

LEMMA CapacitiesAre ==
  ASSUME NEW c \in Capacities
  PROVE  /\ c \in Nat \ {0}
         /\ c <= MaxCapacity
         /\ c < MaxCapacity => 2 * c \in Capacities
         /\ \A d \in Capacities : c < d => 2 * c <= d
BY StackAssumption

(* With the right mask, an index below the size is its own cell.           *)
LEMMA CellIs ==
  ASSUME Inv, NEW index \in 0 .. size - 1
  PROVE  Cell(index) = index /\ index \in 0 .. capacity - 1
<1>1. capacity \in Nat \ {0} /\ size \in 0 .. capacity
  BY CapacitiesAre DEF Inv, TypeOK
<1>2. indexMask + 1 = capacity /\ index \in 0 .. capacity - 1
  BY <1>1 DEF Inv, MaskFollowsCapacity
<1>3. \A n \in Nat \ {0} : \A i \in 0 .. n - 1 : i % n = i
  OBVIOUS
<1> QED BY <1>1, <1>2, <1>3 DEF Cell

LEMMA ResizedIs ==
  ASSUME Inv, NEW c \in Capacities
  PROVE  /\ Resized(c) \in [0 .. c - 1 -> Values]
         /\ \A i \in 0 .. c - 1 : i < capacity => Resized(c)[i] = values[i]
<1>1. capacity \in Nat /\ c \in Nat
  BY CapacitiesAre DEF Inv, TypeOK
<1>2. \A i \in 0 .. c - 1 : i < capacity => values[i] \in Values
  BY <1>1 DEF Inv, TypeOK
<1> QED BY <1>1, <1>2, StackAssumption DEF Resized

(* Halving leaves room for what is on the stack.                           *)
LEMMA ShrinksHolds ==
  ASSUME Inv, NEW c \in Capacities, ShrinksTo(c)
  PROVE  size \in 0 .. c
<1>1. /\ capacity \in Capacities /\ capacity \in Nat /\ c \in Nat
      /\ size \in 0 .. capacity /\ c <= capacity
  BY CapacitiesAre DEF Inv, TypeOK, ShrinksTo
<1>2. CASE c = capacity
  BY <1>1, <1>2
<1>3. CASE c < capacity
  <2>1. 2 * c <= capacity
    BY <1>1, <1>3, CapacitiesAre
  <2>2. 2 * c \in Capacities /\ c < 2 * c
    <3>1. c < MaxCapacity
      BY <1>1, <1>3, CapacitiesAre, StackAssumption
    <3> QED BY <3>1, CapacitiesAre
  <2>3. ~((2 * c) \div 2 <= size)
    BY <1>1, <2>1, <2>2 DEF ShrinksTo, Fits
  <2>4. (2 * c) \div 2 = c
    BY <1>1
  <2> QED BY <1>1, <2>3, <2>4
<1> QED BY <1>1, <1>2, <1>3

LEMMA InitInv == Init => Inv
<1> SUFFICES ASSUME Init PROVE Inv
  OBVIOUS
<1>1. 1 \in Capacities /\ Zero \in Values
  BY StackAssumption
<1>2. values \in [0 .. capacity - 1 -> Values]
  BY <1>1 DEF Init
<1>3. failed \in BOOLEAN /\ odd \in BOOLEAN
  BY DEF Init
<1>4. /\ capacity \in Capacities /\ size \in 0 .. capacity
      /\ indexMask \in Nat /\ limit \in Limits /\ result \in Values
  BY <1>1 DEF Init
<1>5. MaskFollowsCapacity
  BY DEF Init, MaskFollowsCapacity
<1> QED BY <1>2, <1>3, <1>4, <1>5 DEF Inv, TypeOK

(* The instructions, their operands and what they leave alone.             *)
LEMMA NextInv == Inv /\ [Next]_vars => Inv'
<1> SUFFICES ASSUME Inv, [Next]_vars PROVE Inv'
  OBVIOUS
<1>t. /\ TypeOK /\ capacity \in Capacities /\ capacity \in Nat \ {0}
      /\ size \in 0 .. capacity /\ indexMask = capacity - 1
      /\ values \in [0 .. capacity - 1 -> Values]
      /\ limit \in Limits /\ result \in Values
      /\ failed \in BOOLEAN /\ odd \in BOOLEAN
  BY CapacitiesAre DEF Inv, TypeOK, MaskFollowsCapacity
<1>o. odd' \in BOOLEAN
  BY <1>t DEF Next, vars
<1>f. failed' \in BOOLEAN
  BY <1>t DEF Next, Instruction, vars, PushWithRoom, PushAndGrow, PushRefused,
              Pop, PopN, Peek, Poke, SetMaxStackSize, ShrinkStack, SaveAndLoad
<1>i. ASSUME capacity' = capacity, indexMask' = indexMask,
             values' \in [0 .. capacity - 1 -> Values],
             size' \in 0 .. capacity, limit' \in Limits, result' \in Values
      PROVE  Inv'
  BY <1>t, <1>o, <1>f, <1>i DEF Inv, TypeOK, MaskFollowsCapacity
<1>1. ASSUME NEW v \in Values, PushWithRoom(v) PROVE Inv'
  BY <1>t, <1>i, <1>1 DEF PushWithRoom
<1>2. ASSUME NEW v \in Values, PushAndGrow(v) PROVE Inv'
  <2>1. /\ capacity' = 2 * capacity /\ indexMask' = 2 * indexMask + 1
        /\ values' = [Resized(2 * capacity) EXCEPT ![size] = v]
        /\ size' = size + 1 /\ UNCHANGED <<limit, result>>
        /\ size = capacity /\ capacity < MaxCapacity
    BY <1>2 DEF PushAndGrow, MayGrow
  <2>2. capacity' \in Capacities /\ capacity' \in Nat \ {0}
    BY <1>t, <2>1, CapacitiesAre
  <2>3. Resized(2 * capacity) \in [0 .. capacity' - 1 -> Values]
    BY <2>1, <2>2, ResizedIs
  <2>4. values' \in [0 .. capacity' - 1 -> Values]
    BY <2>1, <2>3
  <2>5. indexMask' = capacity' - 1 /\ indexMask' \in Nat /\ size' \in 0 .. capacity'
    BY <1>t, <2>1
  <2> QED BY <1>t, <1>o, <1>f, <2>1, <2>2, <2>4, <2>5
          DEF Inv, TypeOK, MaskFollowsCapacity
<1>3. ASSUME NEW v \in Values, PushRefused(v) PROVE Inv'
  BY <1>t, <1>i, <1>3 DEF PushRefused
<1>4. CASE Pop
  <2>1. CASE size > 0 /\ size' = size - 1 /\ result' = values[size - 1]
    BY <1>t, <1>i, <1>4, <2>1 DEF Pop
  <2>2. CASE size = 0 /\ result' = values[0] /\ size' = size
    BY <1>t, <1>i, <1>4, <2>2 DEF Pop
  <2> QED BY <1>4, <2>1, <2>2 DEF Pop
<1>5. ASSUME NEW count \in 0 .. MaxCapacity, PopN(count) PROVE Inv'
  <2>0. count \in Nat
    BY StackAssumption
  <2>1. CASE count <= size /\ size' = size - count
    BY <1>t, <1>i, <1>5, <2>0, <2>1 DEF PopN
  <2>2. CASE count > size /\ size' = 0
    BY <1>t, <1>i, <1>5, <2>2 DEF PopN
  <2> QED BY <1>5, <2>1, <2>2 DEF PopN
<1>6. ASSUME NEW index \in 0 .. size - 1, Peek(index) PROVE Inv'
  BY <1>t, <1>i, <1>6, CellIs DEF Peek
<1>7. ASSUME NEW index \in 0 .. size - 1, NEW v \in Values, Poke(index, v)
      PROVE  Inv'
  BY <1>t, <1>i, <1>7, CellIs DEF Poke
<1>8. CASE Instruction
  BY <1>1, <1>2, <1>3, <1>4, <1>5, <1>6, <1>7, <1>8 DEF Instruction
<1>9. CASE SetMaxStackSize
  BY <1>t, <1>i, <1>9 DEF SetMaxStackSize
<1>10. CASE ShrinkStack
  <2>1. PICK c \in Capacities :
          /\ ShrinksTo(c)
          /\ capacity' = c
          /\ indexMask' = MaskOf(c)
          /\ values' = Resized(c)
          /\ UNCHANGED <<size, limit, result, failed>>
    BY <1>10 DEF ShrinkStack
  <2>2. size' \in 0 .. capacity' /\ values' \in [0 .. capacity' - 1 -> Values]
    BY <2>1, ShrinksHolds, ResizedIs
  <2>3. capacity' \in Nat \ {0} /\ indexMask' = capacity' - 1 /\ indexMask' \in Nat
    BY <2>1, CapacitiesAre DEF MaskOf
  <2> QED BY <1>t, <1>o, <1>f, <2>1, <2>2, <2>3
          DEF Inv, TypeOK, MaskFollowsCapacity
<1>11. CASE SaveAndLoad
  <2>1. CASE UNCHANGED <<values, size, capacity, indexMask>>
    BY <1>t, <1>i, <1>11, <2>1 DEF SaveAndLoad
  <2>2. CASE /\ values' = [i \in 0 .. capacity - 1 |->
                              IF i < size THEN values[i] ELSE Zero]
             /\ indexMask' = capacity - 1
             /\ size' = LoadedSize
             /\ UNCHANGED <<capacity, failed>>
    <3>1. values' \in [0 .. capacity - 1 -> Values]
      BY <1>t, <2>2, StackAssumption
    <3> QED BY <1>t, <1>i, <1>11, <2>2, <3>1 DEF SaveAndLoad, LoadedSize
  <2> QED BY <1>11, <2>1, <2>2 DEF SaveAndLoad
<1>12. CASE UNCHANGED vars
  BY <1>t, <1>i, <1>12 DEF vars
<1> QED BY <1>8, <1>9, <1>10, <1>11, <1>12 DEF Next

LEMMA Invariant == Spec => []Inv
<1> QED BY InitInv, NextInv, PTL DEF Spec

(* The array is as large as the capacity says, which is never exceeded.    *)
THEOREM TypeCorrect == Spec => []TypeOK
<1>1. Inv => TypeOK
  BY DEF Inv
<1> QED BY <1>1, Invariant, PTL

(* Doubling, halving and loading leave the mask that belongs to the        *)
(* capacity, and never a stack without capacity.                           *)
THEOREM MaskTheorem == Spec => []MaskFollowsCapacity
<1>1. Inv => MaskFollowsCapacity
  BY DEF Inv
<1> QED BY <1>1, Invariant, PTL
-----------------------------------------------------------------------------
(* The stack as a sequence.                                                *)

Stack == [i \in 1 .. size |-> values[i - 1]]

StackKnown ==
  /\ Stack \in Seq(Values) /\ Len(Stack) = size
  /\ \A i \in 1 .. size : Stack[i] = values[i - 1]

LEMMA StackIs == Inv => StackKnown
<1> SUFFICES ASSUME Inv PROVE StackKnown
  OBVIOUS
<1>1. /\ size \in Nat /\ size <= capacity /\ capacity \in Nat
      /\ values \in [0 .. capacity - 1 -> Values]
  BY CapacitiesAre DEF Inv, TypeOK
<1>2. \A i \in 1 .. size : values[i - 1] \in Values
  BY <1>1
<1> QED BY <1>1, <1>2 DEF Stack, StackKnown

(* Sequences are equal that have the same length and elements.             *)
LEMMA SameSeq ==
  ASSUME NEW S, NEW s \in Seq(S), NEW t \in Seq(S), Len(s) = Len(t),
         \A i \in 1 .. Len(s) : s[i] = t[i]
  PROVE  s = t
OBVIOUS

(* The array with capacities, masks and limits is a sequence of values.    *)
THEOREM StackTheorem == Spec => ImplementsValueStack
<1>1. Init => Abstract!Init
  <2> SUFFICES ASSUME Init PROVE Abstract!Init
    OBVIOUS
  <2>1. Stack = <<>>
    BY DEF Init, Stack
  <2> QED BY <2>1 DEF Init, Abstract!Init, Stack
<1>2. ASSUME Inv, Inv', [Next]_vars
      PROVE  Abstract!Next \/ UNCHANGED <<Stack, result, failed, odd>>
  <2>t. /\ capacity \in Capacities /\ capacity \in Nat \ {0}
        /\ size \in 0 .. capacity
        /\ values \in [0 .. capacity - 1 -> Values] /\ result \in Values
        /\ size' \in Nat /\ result' \in Values
    BY <1>2, CapacitiesAre DEF Inv, TypeOK
  <2>s. /\ Stack \in Seq(Values) /\ Len(Stack) = size
        /\ \A i \in 1 .. size : Stack[i] = values[i - 1]
    BY <1>2, StackIs DEF StackKnown
  <2>p. /\ Stack' \in Seq(Values) /\ Len(Stack') = size'
        /\ \A i \in 1 .. size' : Stack'[i] = values'[i - 1]
    <3>1. StackKnown'
      BY <1>2, StackIs, PTL
    <3> QED BY <3>1 DEF StackKnown
  <2>q. ASSUME size' = size, \A i \in 0 .. size - 1 : values'[i] = values[i]
        PROVE  Stack' = Stack
    <3>1. \A i \in 1 .. size : Stack'[i] = Stack[i]
      <4> SUFFICES ASSUME NEW i \in 1 .. size PROVE Stack'[i] = Stack[i]
        OBVIOUS
      <4>1. i - 1 \in 0 .. size - 1
        BY <2>t
      <4> QED BY <2>s, <2>p, <2>q, <4>1
    <3> QED BY <2>s, <2>p, <2>q, <3>1, SameSeq
  <2>f. ASSUME failed' = TRUE, ~failed PROVE Abstract!Next
    BY <2>p, <2>t, <2>f DEF Abstract!Next, Abstract!Fail, Stack
  <2>1. ASSUME NEW v \in Values, ~failed, odd' # odd,
               \/ PushWithRoom(v) \/ PushAndGrow(v)
        PROVE  Abstract!Next
    <3>1. /\ size' = size + 1 /\ values'[size] = v
          /\ \A i \in 0 .. size - 1 : values'[i] = values[i]
          /\ UNCHANGED <<result, failed>>
      <4>1. CASE PushWithRoom(v)
        BY <2>t, <4>1 DEF PushWithRoom
      <4>2. CASE PushAndGrow(v)
        <5>1. 2 * capacity \in Capacities /\ size = capacity
          BY <2>t, <4>2, CapacitiesAre DEF PushAndGrow, MayGrow
        <5>2. /\ Resized(2 * capacity) \in [0 .. 2 * capacity - 1 -> Values]
              /\ \A i \in 0 .. size - 1 : Resized(2 * capacity)[i] = values[i]
          BY <1>2, <2>t, <5>1, ResizedIs
        <5> QED BY <2>t, <4>2, <5>1, <5>2 DEF PushAndGrow
      <4> QED BY <2>1, <4>1, <4>2
    <3>2. Append(Stack, v) \in Seq(Values)
      BY <2>s
    <3>3. /\ Len(Append(Stack, v)) = size'
          /\ \A i \in 1 .. size' : Append(Stack, v)[i] = Stack'[i]
      BY SMTT(20), ZenonT(30), <2>t, <2>s, <2>p, <3>1
    <3>4. Stack' = Append(Stack, v)
      BY <2>p, <3>2, <3>3, SameSeq
    <3> QED BY <2>1, <3>1, <3>4 DEF Abstract!Next, Abstract!Push, Stack
  <2>2. ASSUME ~failed, odd' # odd, Pop PROVE Abstract!Next
    <3>1. CASE size = 0
      BY <2>2, <2>f, <2>t, <3>1 DEF Pop
    <3>2. CASE size > 0
      <4>1. /\ size' = size - 1 /\ result' = values[size - 1]
            /\ UNCHANGED <<values, failed>>
        BY <2>2, <2>t, <3>2 DEF Pop
      <4>2. Stack # <<>> /\ result' = Stack[Len(Stack)]
        BY <2>t, <2>s, <3>2, <4>1
      <4>3. Stack' = SubSeq(Stack, 1, Len(Stack) - 1)
        <5>1. /\ SubSeq(Stack, 1, size - 1) \in Seq(Values)
              /\ Len(SubSeq(Stack, 1, size - 1)) = size - 1
              /\ \A i \in 1 .. size - 1 : SubSeq(Stack, 1, size - 1)[i] = Stack[i]
          BY <2>t, <2>s, <3>2
        <5>2. \A i \in 1 .. size - 1 : Stack'[i] = Stack[i]
          BY <2>t, <2>s, <2>p, <3>2, <4>1
        <5> QED BY <2>s, <2>p, <4>1, <5>1, <5>2, SameSeq
      <4> QED BY <2>2, <4>1, <4>2, <4>3 DEF Abstract!Next, Abstract!Pop, Stack
    <3> QED BY <2>t, <3>1, <3>2
  <2>3. ASSUME ~failed, odd' # odd, NEW count \in 0 .. MaxCapacity, PopN(count)
        PROVE  Abstract!Next
    <3>0. count \in Nat
      BY StackAssumption
    <3>1. CASE count > size
      <4>1. ~(count <= size)
        BY <2>t, <3>0, <3>1
      <4> QED BY <2>3, <2>f, <4>1 DEF PopN
    <3>2. CASE count <= size
      <4>1. /\ size' = size - count /\ UNCHANGED <<values, failed, result>>
            /\ count \in 0 .. Len(Stack)
        BY <2>3, <2>t, <2>s, <3>0, <3>2 DEF PopN
      <4>3. Stack' = SubSeq(Stack, 1, Len(Stack) - count)
        <5>1. /\ SubSeq(Stack, 1, size - count) \in Seq(Values)
              /\ Len(SubSeq(Stack, 1, size - count)) = size - count
              /\ \A i \in 1 .. size - count :
                   SubSeq(Stack, 1, size - count)[i] = Stack[i]
          BY <2>t, <2>s, <3>0, <3>2
        <5>2. \A i \in 1 .. size - count : Stack'[i] = Stack[i]
          BY <2>t, <2>s, <2>p, <3>0, <3>2, <4>1
        <5> QED BY <2>s, <2>p, <4>1, <5>1, <5>2, SameSeq
      <4>4. Abstract!PopN(count)
        BY <2>t, <2>s, <3>0, <3>2, <4>1, <4>3 DEF Abstract!PopN, Stack
      <4> QED BY <2>3, <4>1, <4>4 DEF Abstract!Next, Stack
    <3> QED BY <2>t, <3>0, <3>1, <3>2
  <2>4. ASSUME ~failed, odd' # odd, NEW index \in 0 .. size - 1, Peek(index)
        PROVE  Abstract!Next
    <3>1. index + 1 \in 1 .. Len(Stack) /\ result' = Stack[index + 1]
      BY <1>2, <2>4, <2>t, <2>s, CellIs DEF Peek
    <3>2. Stack' = Stack /\ failed' = failed
      BY <2>4, <2>q DEF Peek
    <3> QED BY <2>4, <3>1, <3>2 DEF Abstract!Next, Abstract!Peek, Stack
  <2>5. ASSUME ~failed, odd' # odd, NEW index \in 0 .. size - 1,
               NEW v \in Values, Poke(index, v)
        PROVE  Abstract!Next
    <3>1. /\ index + 1 \in 1 .. Len(Stack)
          /\ values' = [values EXCEPT ![index] = v] /\ index \in 0 .. capacity - 1
          /\ UNCHANGED <<size, result, failed>>
      <4>1. Cell(index) = index /\ index \in 0 .. capacity - 1
        BY <1>2, CellIs
      <4>2. index + 1 \in 1 .. Len(Stack)
        BY <2>t, <2>s
      <4> QED BY <2>5, <4>1, <4>2 DEF Poke
    <3>2. Stack' = [Stack EXCEPT ![index + 1] = v]
      <4>1. [Stack EXCEPT ![index + 1] = v] \in Seq(Values)
        BY <2>s, <3>1
      <4>2. /\ Len([Stack EXCEPT ![index + 1] = v]) = size
            /\ \A i \in 1 .. size : [Stack EXCEPT ![index + 1] = v][i]
                 = IF i = index + 1 THEN v ELSE Stack[i]
        BY <2>s, <3>1
      <4>3. \A i \in 1 .. size : Stack'[i] = IF i = index + 1 THEN v ELSE Stack[i]
        BY <2>t, <2>s, <2>p, <3>1
      <4> QED BY <2>p, <3>1, <4>1, <4>2, <4>3, SameSeq
    <3> QED BY <2>5, <3>1, <3>2 DEF Abstract!Next, Abstract!Poke, Stack
  <2>6. ASSUME ~failed, odd' = ~odd, Instruction PROVE Abstract!Next
    <3>0. odd' # odd
      BY <2>6, <1>2 DEF Inv, TypeOK
    <3>1. ASSUME NEW v \in Values, PushRefused(v) PROVE Abstract!Next
      BY <2>6, <2>f, <3>1 DEF PushRefused
    <3> QED BY <2>6, <2>1, <2>2, <2>3, <2>4, <2>5, <3>0, <3>1 DEF Instruction
  <2>7. ASSUME SetMaxStackSize, UNCHANGED odd
        PROVE  UNCHANGED <<Stack, result, failed, odd>>
    BY <2>7, <2>q DEF SetMaxStackSize
  <2>8. ASSUME ShrinkStack, UNCHANGED odd
        PROVE  UNCHANGED <<Stack, result, failed, odd>>
    <3>1. PICK c \in Capacities :
            /\ ShrinksTo(c)
            /\ values' = Resized(c)
            /\ UNCHANGED <<size, limit, result, failed>>
      BY <2>8 DEF ShrinkStack
    <3>2. \A i \in 0 .. size - 1 : values'[i] = values[i]
      <4>1. size \in 0 .. c /\ c \in Nat
        BY <1>2, <3>1, ShrinksHolds, CapacitiesAre
      <4> QED BY <1>2, <2>t, <3>1, <4>1, ResizedIs
    <3> QED BY <2>8, <2>q, <3>1, <3>2
  <2>9. ASSUME ~failed, SaveAndLoad, UNCHANGED odd
        PROVE  Abstract!Next \/ UNCHANGED <<Stack, result, failed, odd>>
    <3>1. CASE failed' = TRUE
      BY <2>9, <2>f, <3>1
    <3>2. CASE /\ values' = [i \in 0 .. capacity - 1 |->
                                IF i < size THEN values[i] ELSE Zero]
               /\ size' = LoadedSize
               /\ UNCHANGED <<capacity, failed>>
      <4>1. size' = size /\ \A i \in 0 .. size - 1 : values'[i] = values[i]
        BY <2>t, <3>2 DEF LoadedSize
      <4>2. result' = result
        BY <2>9 DEF SaveAndLoad
      <4> QED BY <2>9, <2>q, <3>2, <4>1, <4>2
    <3> QED BY <2>9, <3>1, <3>2 DEF SaveAndLoad
  <2>10. ASSUME UNCHANGED vars PROVE UNCHANGED <<Stack, result, failed, odd>>
    BY <2>10, <2>q DEF vars
  <2> QED BY <1>2, <2>6, <2>7, <2>8, <2>9, <2>10 DEF Next
<1>3. Inv /\ Inv' /\ [Next]_vars
        => [Abstract!Next]_<<Stack, result, failed, odd>>
  BY <1>2
<1> QED BY <1>1, <1>3, Invariant, PTL
        DEF Spec, ImplementsValueStack, Abstract!Spec, Stack
=============================================================================
