--------------------------- MODULE NkRecoveryProofs ---------------------------
(* Proofs about NkRecovery and the allocator under it.                       *)
EXTENDS NkRecovery, SequenceTheorems, FiniteSetTheorems, NaturalsInduction,
        WellFoundedInduction, TLAPS

Usual == Unusual = {}

-----------------------------------------------------------------------------
(* The list of blocks.  A block that is not lent points to nothing, so that  *)
(* what is put in front of the list is all there is of the new list.         *)

Linked ==
  /\ head \in lent \cup {NoBlock}
  /\ \A b \in lent : next[b] \in lent \cup {NoBlock}
  /\ \A b \in Blocks \ lent : next[b] = NoBlock /\ prev[b] = NoBlock

ListInv == MemoryTypeOK /\ Linked /\ ListSound

LEMMA RangeOfWrapped == \A n \in Int : Wrapped(n) \in 0 .. UintMax
BY MemoryAssumption DEF Wrapped

(* After a step: the set of lent blocks is closed, and in every closed set.  *)
LEMMA FoundIs ==
  ASSUME MemoryTypeOK', Linked',
         \A S \in SUBSET Blocks : Closed(S)' => lent' \subseteq S
  PROVE  OnList' = lent'
<1>1. lent' \subseteq Blocks
  BY DEF MemoryTypeOK
<1>2. Closed(lent)'
  BY DEF Closed, Linked
<1>3. OnList' \subseteq lent'
  BY <1>1, <1>2 DEF OnList, Closed
<1>4. lent' \subseteq OnList'
  BY <1>1 DEF OnList
<1> QED BY <1>3, <1>4

LEMMA EmptyList ==
  ASSUME lent' = {}, head' = NoBlock, usage' = 0,
         next' = [b \in Blocks |-> NoBlock], prev' = [b \in Blocks |-> NoBlock],
         size' = [b \in Blocks |-> 0],
         peak' \in 0 .. UintMax, limit' \in 0 .. UintMax
  PROVE  ListInv'
<1>1. MemoryTypeOK'
  BY MemoryAssumption DEF MemoryTypeOK
<1>2. Linked'
  BY DEF Linked
<1>3. OnList' = {}
  <2>1. Closed({})'
    BY DEF Closed
  <2> QED BY <2>1 DEF OnList
<1> QED BY <1>1, <1>2, <1>3 DEF ListInv, ListSound

LEMMA AllocatedInv ==
  ASSUME ListInv, NEW b, NEW n \in Sizes, Allocated(b, n)
  PROVE  ListInv'
<1>t. /\ MemoryTypeOK /\ Linked /\ ListSound
      /\ b \in Blocks \ lent /\ lent \subseteq Blocks /\ NoBlock \notin Blocks
      /\ lent' = lent \cup {b} /\ head' = b
      /\ next' = [next EXCEPT ![b] = head]
      /\ prev' = [c \in Blocks |-> IF c = head THEN b ELSE prev[c]]
      /\ next \in [Blocks -> Blocks \cup {NoBlock}]
      /\ prev \in [Blocks -> Blocks \cup {NoBlock}]
  BY MemoryAssumption DEF ListInv, Allocated, MemoryTypeOK, NextOf
<1>1. MemoryTypeOK'
  <2>1. usage' \in 0 .. UintMax
    <3>1. usage + n + Header \in Int
      BY MemoryAssumption DEF MemoryTypeOK, ListInv
    <3> QED BY <3>1, RangeOfWrapped DEF Allocated
  <2>2. peak' \in 0 .. UintMax /\ limit' \in 0 .. UintMax
    BY <2>1, <1>t DEF Allocated, MemoryTypeOK
  <2>3. size' \in [Blocks -> 0 .. UintMax]
    BY <1>t, MemoryAssumption DEF Allocated, MemoryTypeOK
  <2>4. /\ head' \in Blocks \cup {NoBlock} /\ lent' \subseteq Blocks
        /\ next' \in [Blocks -> Blocks \cup {NoBlock}]
        /\ prev' \in [Blocks -> Blocks \cup {NoBlock}]
    BY <1>t DEF MemoryTypeOK
  <2> QED BY <2>1, <2>2, <2>3, <2>4 DEF MemoryTypeOK
<1>2. Linked'
  BY <1>t DEF Linked
<1>3. ASSUME NEW S \in SUBSET Blocks, Closed(S)'
      PROVE  lent' \subseteq S
  <2>1. b \in S
    BY <1>3, <1>t DEF Closed
  <2>2. head \in S \cup {NoBlock}
    BY <1>3, <2>1, <1>t DEF Closed
  <2>3. ASSUME NEW c \in S PROVE next[c] \in S \cup {NoBlock}
    <3>1. CASE c = b
      BY <3>1, <1>t DEF Linked
    <3>2. CASE c # b
      BY <3>2, <1>3, <1>t, <2>3 DEF Closed
    <3> QED BY <3>1, <3>2
  <2>4. Closed(S)
    BY <2>2, <2>3 DEF Closed
  <2>5. lent \subseteq S
    BY <2>4, <1>t DEF ListSound, OnList
  <2> QED BY <2>1, <2>5, <1>t
<1>4. OnList' = lent'
  BY <1>1, <1>2, <1>3, FoundIs
<1>5. ASSUME NEW c \in lent'
      PROVE  /\ IF c = head' THEN prev'[c] = NoBlock
                ELSE prev'[c] \in lent' /\ next'[prev'[c]] = c
             /\ next'[c] # NoBlock => prev'[next'[c]] = c
  <2>1. CASE c = b
    BY <2>1, <1>t DEF Linked
  <2>2. CASE c # b
    <3>1. c \in lent
      BY <2>2, <1>t
    <3>2. prev'[c] \in lent' /\ next'[prev'[c]] = c
      BY <3>1, <1>t DEF ListSound
    <3>3. next'[c] = next[c]
      BY <2>2, <3>1, <1>t
    <3>4. ASSUME next[c] # NoBlock PROVE prev'[next[c]] = c
      <4>1. next[c] \in lent /\ prev[next[c]] = c
        BY <3>1, <3>4, <1>t DEF ListSound, Linked
      <4>2. next[c] # head
        BY <4>1, <3>1, <1>t DEF ListSound
      <4> QED BY <4>1, <4>2, <1>t
    <3> QED BY <2>2, <3>2, <3>3, <3>4, <1>t
  <2> QED BY <2>1, <2>2
<1> QED BY <1>1, <1>2, <1>4, <1>5 DEF ListInv, ListSound

LEMMA FreedInv ==
  ASSUME ListInv, NEW b, Freed(b)
  PROVE  ListInv'
<1>t. /\ MemoryTypeOK /\ Linked /\ ListSound
      /\ b \in lent /\ lent \subseteq Blocks /\ NoBlock \notin Blocks
      /\ lent' = lent \ {b}
      /\ next \in [Blocks -> Blocks \cup {NoBlock}]
      /\ prev \in [Blocks -> Blocks \cup {NoBlock}]
  BY MemoryAssumption DEF ListInv, Freed, MemoryTypeOK
<1>p. prev' = [c \in Blocks |-> IF c = b THEN NoBlock
                                ELSE IF c = next[b] THEN prev[b] ELSE prev[c]]
  BY <1>t DEF Freed, PrevWithout
<1>h. \/ /\ prev[b] = NoBlock /\ b = head
         /\ head' = next[b]
         /\ next' = [next EXCEPT ![b] = NoBlock]
      \/ /\ prev[b] \in lent /\ b # head /\ next[prev[b]] = b /\ prev[b] # b
         /\ head' = head
         /\ next' = [next EXCEPT ![prev[b]] = next[b], ![b] = NoBlock]
  <2>1. CASE prev[b] = NoBlock
    BY <2>1, <1>t DEF Freed, ListSound
  <2>2. CASE prev[b] # NoBlock
    <3>1. prev[b] \in lent /\ b # head /\ next[prev[b]] = b
      BY <2>2, <1>t DEF ListSound
    <3>2. prev[b] # b
      \* the others would be a closed set without b
      <4>1. SUFFICES ASSUME prev[b] = b PROVE FALSE
        OBVIOUS
      <4>2. \A c \in lent : next[c] = b => c = b
        BY <4>1, <1>t DEF ListSound
      <4>3. Closed(lent \ {b})
        BY <3>1, <4>2, <1>t DEF Closed, Linked
      <4> QED BY <4>3, <1>t DEF ListSound, OnList
    <3> QED BY <2>2, <3>1, <3>2 DEF Freed
  <2> QED BY <2>1, <2>2
<1>o. \A c \in lent : c # b /\ c # prev[b] => next'[c] = next[c] /\ next[c] # b
  BY <1>t, <1>h DEF ListSound
<1>1. MemoryTypeOK'
  <2>1. usage' \in 0 .. UintMax
    <3>1. usage - Footprint(b) \in Int
      BY MemoryAssumption, <1>t DEF MemoryTypeOK, Footprint
    <3> QED BY <3>1, RangeOfWrapped DEF Freed
  <2>2. peak' \in 0 .. UintMax /\ limit' \in 0 .. UintMax
    BY <1>t DEF Freed, MemoryTypeOK
  <2>3. size' \in [Blocks -> 0 .. UintMax]
    BY <1>t, MemoryAssumption DEF Freed, MemoryTypeOK
  <2>4. head' \in Blocks \cup {NoBlock} /\ lent' \subseteq Blocks
    BY <1>t, <1>h DEF MemoryTypeOK
  <2>5. prev' \in [Blocks -> Blocks \cup {NoBlock}]
    BY <1>t, <1>p
  <2>6. next' \in [Blocks -> Blocks \cup {NoBlock}]
    BY <1>t, <1>h
  <2> QED BY <2>1, <2>2, <2>3, <2>4, <2>5, <2>6 DEF MemoryTypeOK
<1>2. Linked'
  <2>1. next[b] \in (lent \ {b}) \cup {NoBlock}
    BY <1>t, <1>h DEF ListSound, Linked
  <2>2. head' \in lent' \cup {NoBlock}
    BY <2>1, <1>t, <1>h DEF Linked
  <2>3. ASSUME NEW c \in lent' PROVE next'[c] \in lent' \cup {NoBlock}
    <3>1. CASE c = prev[b]
      BY <3>1, <2>1, <1>t, <1>h
    <3>2. CASE c # prev[b]
      BY <3>2, <1>o, <1>t DEF Linked
    <3> QED BY <3>1, <3>2
  <2>4. ASSUME NEW c \in Blocks \ lent'
        PROVE  next'[c] = NoBlock /\ prev'[c] = NoBlock
    <3>1. CASE c = b
      BY <3>1, <1>t, <1>h, <1>p
    <3>2. CASE c # b
      <4>1. c \notin lent /\ c # next[b] /\ c # prev[b]
        BY <3>2, <2>4, <1>t, <1>h, <2>1
      <4> QED BY <4>1, <3>2, <1>t, <1>h, <1>p DEF Linked
    <3> QED BY <3>1, <3>2
  <2> QED BY <2>2, <2>3, <2>4 DEF Linked
<1>3. ASSUME NEW S \in SUBSET Blocks, Closed(S)'
      PROVE  lent' \subseteq S
  <2>1. CASE prev[b] \in S \cup {NoBlock}
    <3>1. head \in S \cup {b} \cup {NoBlock}
      BY <1>3, <1>t, <1>h DEF Closed
    <3>2. next[b] \in S \cup {NoBlock}
      <4>1. CASE prev[b] = NoBlock
        BY <4>1, <1>3, <1>t, <1>h DEF Closed
      <4>2. CASE prev[b] # NoBlock
        <5>1. prev[b] \in S /\ next'[prev[b]] = next[b]
          BY <4>2, <2>1, <1>t, <1>h
        <5> QED BY <5>1, <1>3 DEF Closed
      <4> QED BY <4>1, <4>2
    <3>3. ASSUME NEW c \in S \cup {b} PROVE next[c] \in S \cup {b} \cup {NoBlock}
      <4>1. CASE c = b
        BY <4>1, <3>2
      <4>2. CASE c # b /\ c = prev[b]
        BY <4>2, <1>t, <1>h
      <4>3. CASE c # b /\ c # prev[b]
        <5>1. next'[c] = next[c]
          BY <4>3, <1>t, <1>h
        <5> QED BY <5>1, <4>3, <1>3 DEF Closed
      <4> QED BY <4>1, <4>2, <4>3
    <3>4. Closed(S \cup {b})
      BY <3>1, <3>3 DEF Closed
    <3>5. lent \subseteq S \cup {b}
      BY <3>4, <1>t DEF ListSound, OnList
    <3> QED BY <3>5, <1>t
  <2>2. CASE prev[b] \notin S \cup {NoBlock}
    <3> DEFINE T == (S \cap lent) \ {b}
    <3>1. head \in T \cup {NoBlock}
      BY <2>2, <1>3, <1>t, <1>h DEF Closed, Linked
    <3>2. ASSUME NEW c \in T PROVE next[c] \in T \cup {NoBlock}
      <4>1. c # prev[b] /\ c # b /\ c \in lent /\ c \in S
        BY <3>2, <2>2
      <4>2. next'[c] = next[c] /\ next[c] # b
        BY <4>1, <1>o
      <4>3. next[c] \in S \cup {NoBlock}
        BY <4>1, <4>2, <1>3 DEF Closed
      <4> QED BY <4>1, <4>2, <4>3, <1>t DEF Linked
    <3>3. Closed(T)
      BY <3>1, <3>2 DEF Closed
    <3>4. lent \subseteq T
      BY <3>3, <1>t DEF ListSound, OnList
    <3> QED BY <3>4, <1>t
  <2> QED BY <2>1, <2>2
<1>4. OnList' = lent'
  BY <1>1, <1>2, <1>3, FoundIs
<1>5. ASSUME NEW c \in lent'
      PROVE  /\ IF c = head' THEN prev'[c] = NoBlock
                ELSE prev'[c] \in lent' /\ next'[prev'[c]] = c
             /\ next'[c] # NoBlock => prev'[next'[c]] = c
  <2>1. c \in lent /\ c # b
    BY <1>t
  <2>2. \A d \in lent : d # b => next[b] # next[d] \/ next[b] = NoBlock
    BY <1>t DEF ListSound
  <2>3. IF c = head' THEN prev'[c] = NoBlock
        ELSE prev'[c] \in lent' /\ next'[prev'[c]] = c
    <3>1. CASE c = next[b]
      <4>1. prev[c] = b /\ c # head /\ prev'[c] = prev[b]
        BY <2>1, <3>1, <1>t, <1>p DEF ListSound
      <4>2. CASE prev[b] = NoBlock
        <5>1. c = head' /\ prev'[c] = NoBlock
          BY <4>1, <4>2, <3>1, <1>t, <1>h
        <5> QED BY <5>1
      <4>3. CASE prev[b] # NoBlock
        <5>1. head' # c /\ prev'[c] \in lent' /\ next'[prev'[c]] = c
          BY <4>1, <4>3, <3>1, <1>t, <1>h
        <5> QED BY <5>1
      <4> QED BY <4>2, <4>3
    <3>2. CASE c # next[b]
      <4>1. prev'[c] = prev[c]
        BY <2>1, <3>2, <1>t, <1>p
      <4>2. CASE c = head
        <5>1. prev[b] # NoBlock /\ head' = head
          BY <2>1, <4>2, <1>h, <1>t
        <5>2. prev[c] = NoBlock
          BY <2>1, <4>2, <1>t DEF ListSound
        <5> QED BY <5>1, <5>2, <4>1, <4>2
      <4>3. CASE c # head
        <5>1. prev[c] \in lent /\ next[prev[c]] = c /\ prev[c] # b
          BY <2>1, <3>2, <4>3, <1>t DEF ListSound
        <5>2. prev[c] # prev[b]
          BY <5>1, <2>1, <1>h, <1>t DEF ListSound
        <5>3. next'[prev[c]] = c /\ head' # c
          BY <5>1, <5>2, <3>2, <4>3, <1>t, <1>h, <1>o
        <5> QED BY <5>1, <5>3, <4>1, <1>t
      <4> QED BY <4>2, <4>3
    <3> QED BY <3>1, <3>2
  <2>4. ASSUME next'[c] # NoBlock PROVE prev'[next'[c]] = c
    <3>1. CASE c = prev[b]
      <4>1. next'[c] = next[b] /\ next[b] # NoBlock
        BY <3>1, <2>4, <2>1, <1>t, <1>h
      <4>2. next[b] \in lent /\ next[b] # b
        BY <4>1, <1>2, <2>4, <1>t DEF Linked
      <4> QED BY <4>1, <4>2, <3>1, <1>t, <1>p
    <3>2. CASE c # prev[b]
      <4>1. next'[c] = next[c] /\ next[c] # b /\ next[c] \in lent
        BY <3>2, <2>1, <2>4, <1>o, <1>t DEF Linked
      <4>2. next[c] # next[b] /\ prev[next[c]] = c
        BY <4>1, <2>1, <2>2, <2>4, <1>t DEF ListSound
      <4> QED BY <4>1, <4>2, <1>t, <1>p
    <3> QED BY <3>1, <3>2
  <2> QED BY <2>3, <2>4
<1> QED BY <1>1, <1>2, <1>4, <1>5 DEF ListInv, ListSound

-----------------------------------------------------------------------------
(* What the blocks lent are charged with, the sum that UsageExact takes with *)
(* a fold, as the number of the bytes in them: a count of pairs of a block   *)
(* and a position, which needs no recursion.                                 *)

Cells(z, S) == {p \in S \X (1 .. 2 * UintMax) : p[2] <= z[p[1]] + Header}
Total(z, S) == Cardinality(Cells(z, S))

Recursion(z, S, fold) ==
  fold = [s \in SUBSET S |->
        IF s = {} THEN 0
        ELSE LET x == CHOOSE x \in s : TRUE
             IN  (z[x] + Header) + fold[s \ {x}]]

LEMMA Unfolds ==
  ASSUME NEW z, NEW S
  PROVE MapThenSumSet(LAMBDA b : z[b] + Header, S) = (CHOOSE fold : Recursion(z, S, fold))[S]
BY DEF MapThenSumSet, MapThenFoldSet, Recursion

LEMMA SmallestNat ==
  ASSUME NEW S \in SUBSET Nat, S # {}
  PROVE  \E n \in S : \A m \in S : n <= m
<1> DEFINE R == OpToRel(<, Nat)
<1>1. IsWellFoundedOn(R, Nat)
  BY NatLessThanWellFounded
<1>2. ASSUME NEW x \in Nat, NEW y \in Nat, y < x
      PROVE  <<y, x>> \in R
  BY <1>2 DEF OpToRel
<1> HIDE DEF R
<1>3. PICK x \in S : \A y \in S : ~ (<<y, x>> \in R)
  BY <1>1, WFMin
<1>4. ASSUME NEW y \in S PROVE x <= y
  <2>1. ~ (y < x) /\ x \in Nat /\ y \in Nat
    BY <1>2, <1>3
  <2> QED BY <2>1
<1> QED BY <1>4

(* A set of blocks with their cells is finite.                               *)
LEMMA FiniteCells ==
  ASSUME NEW z, NEW S \in SUBSET Blocks
  PROVE  IsFiniteSet(Cells(z, S)) /\ Total(z, S) \in Nat
<1>1. IsFiniteSet(S)
  BY MemoryAssumption, FS_Subset
<1>2. 1 \in Int /\ 2 * UintMax \in Int
  BY MemoryAssumption
<1>3. IsFiniteSet(1 .. 2 * UintMax)
  BY <1>2, FS_Interval
<1>4. IsFiniteSet(S \X (1 .. 2 * UintMax))
  BY <1>1, <1>3, FS_Product
<1>5. Cells(z, S) \in SUBSET (S \X (1 .. 2 * UintMax))
  BY DEF Cells
<1>6. IsFiniteSet(Cells(z, S))
  BY <1>4, <1>5, FS_Subset
<1> QED BY <1>6, FS_CardinalityType DEF Total

LEMMA TotalOfNone == \A z : Total(z, {}) = 0
<1>1. ASSUME NEW z PROVE Cells(z, {}) = {}
  BY DEF Cells
<1> QED BY <1>1, FS_EmptySet DEF Total

LEMMA TotalWithout ==
  ASSUME NEW z \in [Blocks -> 0 .. UintMax],
         NEW S \in SUBSET Blocks, NEW x \in S
  PROVE  Total(z, S) = z[x] + Header + Total(z, S \ {x})
<1> DEFINE k == z[x] + Header
           column == {x} \X (1 .. k)
           rest == Cells(z, S \ {x})
<1>1. z[x] \in 0 .. UintMax /\ k \in Nat /\ k >= 1 /\ k <= 2 * UintMax
  BY MemoryAssumption
<1>2. IsFiniteSet(rest) /\ Cardinality(rest) = Total(z, S \ {x})
  BY FiniteCells DEF Total
<1>3. IsFiniteSet(column) /\ Cardinality(column) = k
  <2>1. IsFiniteSet({x}) /\ Cardinality({x}) = 1
    BY FS_Singleton
  <2>2. IsFiniteSet(1 .. k) /\ Cardinality(1 .. k) = k
    BY <1>1, FS_Interval
  <2>3. IsFiniteSet(column) /\ Cardinality(column) = Cardinality({x}) * Cardinality(1 .. k)
    BY <2>1, <2>2, FS_Product
  <2> QED BY <1>1, <2>1, <2>2, <2>3
<1>4. Cells(z, S) = rest \cup column
  <2>1. ASSUME NEW p \in Cells(z, S) PROVE p \in rest \cup column
    <3>1. p \in S \X (1 .. 2 * UintMax) /\ p[2] <= z[p[1]] + Header
      BY <2>1 DEF Cells
    <3>2. CASE p[1] = x
      BY <1>1, <3>1, <3>2, MemoryAssumption
    <3>3. CASE p[1] # x
      BY <3>1, <3>3 DEF Cells
    <3> QED BY <3>2, <3>3
  <2>2. rest \subseteq Cells(z, S)
    BY DEF Cells
  <2>3. column \subseteq Cells(z, S)
    BY <1>1, MemoryAssumption DEF Cells
  <2> QED BY <2>1, <2>2, <2>3
<1>5. rest \cap column = {}
  BY DEF Cells
<1> HIDE DEF rest, column, k
<1>6. Cardinality(rest \cup column) = Cardinality(rest) + Cardinality(column) - Cardinality({})
  BY <1>2, <1>3, <1>5, FS_Union
<1>7. Cardinality({}) = 0 /\ Total(z, S \ {x}) \in Nat
  BY FS_EmptySet, FiniteCells
<1>8. Total(z, S) = k + Total(z, S \ {x})
  BY <1>1, <1>2, <1>3, <1>4, <1>6, <1>7 DEF Total
<1> QED BY <1>8 DEF k

(* The number of bytes is a function as the fold wants one, and there is no  *)
(* other: of the sets on which two of them differ one would be the smallest. *)
LEMMA FoldIs ==
  ASSUME NEW z \in [Blocks -> 0 .. UintMax], NEW S \in SUBSET Blocks
  PROVE  MapThenSumSet(LAMBDA b : z[b] + Header, S) = Total(z, S)
<1> DEFINE fold == CHOOSE bytes : Recursion(z, S, bytes)
           first(s) == CHOOSE x \in s : TRUE
<1>1. Recursion(z, S, [s \in SUBSET S |-> Total(z, s)])
  <2> DEFINE bytes == [s \in SUBSET S |-> Total(z, s)]
  <2>1. ASSUME NEW s \in SUBSET S, s # {}
        PROVE  Total(z, s) = (z[first(s)] + Header) + bytes[s \ {first(s)}]
    <3>1. first(s) \in s
      BY <2>1
    <3>2. bytes[s \ {first(s)}] = Total(z, s \ {first(s)})
      OBVIOUS
    <3>3. s \in SUBSET Blocks
      OBVIOUS
    <3> HIDE DEF first, bytes
    <3> QED BY <3>1, <3>2, <3>3, TotalWithout
  <2>2. Total(z, {}) = 0
    BY TotalOfNone
  <2> QED BY <2>1, <2>2 DEF Recursion
<1>2. Recursion(z, S, fold)
  BY <1>1
<1> HIDE DEF fold
<1>3. \A s \in SUBSET S : fold[s] = IF s = {} THEN 0
                                 ELSE (z[first(s)] + Header) + fold[s \ {first(s)}]
  BY <1>2 DEF Recursion
<1>4. \A s \in SUBSET S : IsFiniteSet(s) /\ Cardinality(s) \in Nat
  BY MemoryAssumption, FS_Subset, FS_CardinalityType
<1> DEFINE wrong == {s \in SUBSET S : fold[s] # Total(z, s)}
           sizes == {Cardinality(s) : s \in wrong}
<1>5. wrong = {}
  <2>1. SUFFICES ASSUME wrong # {} PROVE FALSE
    OBVIOUS
  <2>2. sizes \in SUBSET Nat /\ sizes # {}
    BY <1>4, <2>1
  <2>3. PICK n \in sizes : \A m \in sizes : n <= m
    BY <2>2, SmallestNat
  <2>4. PICK s \in wrong : Cardinality(s) = n
    OBVIOUS
  <2>5. s # {}
    BY <1>3, <2>4, TotalOfNone
  <2> DEFINE x == first(s)
             less == s \ {x}
  <2>6. x \in s /\ less \in SUBSET S
    BY <2>5
  <2>7. fold[s] = z[x] + Header + fold[less]
    BY <1>3, <2>5
  <2> HIDE DEF x
  <2>8. Total(z, s) = z[x] + Header + Total(z, less)
    <3>1. s \in SUBSET Blocks
      OBVIOUS
    <3> QED BY <2>6, <3>1, TotalWithout
  <2>9. less \in wrong
    BY <2>4, <2>6, <2>7, <2>8
  <2>10. Cardinality(less) = Cardinality(s) - 1
    BY <1>4, <2>6, FS_RemoveElement
  <2>11. Cardinality(less) \in sizes
    BY <2>9
  <2> HIDE DEF less
  <2>12. Cardinality(less) >= n /\ Cardinality(s) \in Nat
    BY <1>4, <2>3, <2>11
  <2> QED BY <2>4, <2>10, <2>12
<1>6. fold[S] = Total(z, S)
  BY <1>5
<1> QED BY <1>6, Unfolds DEF fold

LEMMA TotalDependsOn ==
  ASSUME NEW y, NEW z, NEW S, \A x \in S : y[x] = z[x]
  PROVE  Total(y, S) = Total(z, S)
<1>1. Cells(y, S) = Cells(z, S)
  BY DEF Cells
<1> QED BY <1>1 DEF Total

(* The usage is what is charged, and the peak has been as high.              *)
Charged == usage = Total(size, lent) /\ usage <= peak

LEMMA ChargedIs == ListInv => (Charged <=> UsageExact)
<1> SUFFICES ASSUME ListInv PROVE Charged <=> UsageExact
  OBVIOUS
<1>1. size \in [Blocks -> 0 .. UintMax] /\ lent \in SUBSET Blocks
  BY DEF ListInv, MemoryTypeOK
<1>2. MapThenSumSet(LAMBDA b : size[b] + Header, lent) = Total(size, lent)
  BY <1>1, FoldIs
<1> QED BY <1>2 DEF Charged, UsageExact

(* What is not refused fits under the limit, whatever was asked for: neither *)
(* the size of the chunk nor the usage wraps around.                         *)
LEMMA AllocatedFits ==
  ASSUME ListInv, NEW b, NEW n \in Sizes \ {0}, ~Refused(n), Allocated(b, n)
  PROVE  usage' = usage + n + Header /\ usage' <= limit
<1>1. /\ UintMax \in Nat /\ Header \in Nat /\ n \in 0 .. UintMax
      /\ usage \in 0 .. UintMax /\ limit \in 0 .. UintMax
  BY MemoryAssumption DEF ListInv, MemoryTypeOK
<1>2. \A i \in 0 .. UintMax : Wrapped(i) = i
  BY <1>1 DEF Wrapped
<1>3. n + Header \in 0 .. UintMax
  BY <1>1 DEF Refused, Overflows
<1>4. Chunk(n) = n + Header
  BY <1>2, <1>3 DEF Chunk
<1>5. usage <= limit /\ Chunk(n) <= Wrapped(limit - usage)
  <2>1. Wrapped(limit - usage) \in Int
    BY <1>1, RangeOfWrapped
  <2> QED BY <1>1, <1>3, <1>4, <2>1 DEF Refused, OverLimit
<1>6. limit - usage \in 0 .. UintMax
  BY <1>1, <1>5
<1>7. Wrapped(limit - usage) = limit - usage
  BY <1>2, <1>6
<1>8. n + Header <= limit - usage
  BY <1>4, <1>5, <1>7
<1>9. usage + n + Header \in 0 .. UintMax /\ usage + n + Header <= limit
  BY <1>1, <1>3, <1>8
<1>10. usage' = usage + n + Header
  BY <1>2, <1>9 DEF Allocated
<1> QED BY <1>9, <1>10

LEMMA AllocatedCharge ==
  ASSUME ListInv, Charged,
         NEW b, NEW n \in Sizes \ {0}, ~Refused(n), Allocated(b, n)
  PROVE  Charged'
<1>1. /\ b \in Blocks \ lent /\ lent' = lent \cup {b} /\ lent \subseteq Blocks
      /\ size \in [Blocks -> 0 .. UintMax] /\ size' = [size EXCEPT ![b] = n]
  BY DEF ListInv, MemoryTypeOK, Allocated
<1>2. ListInv'
  BY AllocatedInv
<1>3. size' \in [Blocks -> 0 .. UintMax] /\ usage' \in Nat /\ peak \in Nat
  BY <1>2, MemoryAssumption DEF ListInv, MemoryTypeOK
<1>4. /\ lent' \in SUBSET Blocks /\ b \in lent' /\ lent' \ {b} = lent
      /\ size'[b] = n /\ \A c \in lent : size'[c] = size[c]
  BY <1>1
<1>5. Total(size', lent') = size'[b] + Header + Total(size', lent' \ {b})
  BY <1>3, <1>4, TotalWithout
<1>6. Total(size', lent) = Total(size, lent)
  BY <1>4, TotalDependsOn
<1>7. Total(size', lent') = n + Header + usage
  BY <1>4, <1>5, <1>6 DEF Charged
<1>8. usage' = n + Header + usage
  <2>1. usage \in Int /\ n \in Int /\ Header \in Int
    BY MemoryAssumption DEF ListInv, MemoryTypeOK
  <2> QED BY <2>1, AllocatedFits
<1>9. usage' <= peak'
  BY <1>3 DEF Allocated
<1> QED BY <1>7, <1>8, <1>9 DEF Charged

LEMMA FreedCharge ==
  ASSUME ListInv, Charged, NEW b, Freed(b)
  PROVE  Charged' /\ usage' <= usage
<1>1. /\ b \in lent /\ lent' = lent \ {b} /\ lent \in SUBSET Blocks
      /\ size \in [Blocks -> 0 .. UintMax] /\ size' = [size EXCEPT ![b] = 0]
      /\ usage \in 0 .. UintMax /\ peak \in 0 .. UintMax /\ peak' = peak
      /\ UintMax \in Nat /\ Header \in Nat
  BY MemoryAssumption DEF ListInv, MemoryTypeOK, Freed
<1>2. Total(size, lent) = size[b] + Header + Total(size, lent')
  BY <1>1, TotalWithout
<1>3. Total(size', lent') = Total(size, lent')
  <2>1. \A c \in lent' : size'[c] = size[c]
    BY <1>1
  <2> QED BY <2>1, TotalDependsOn
<1>4. Total(size, lent') \in Nat
  BY <1>1, FiniteCells
<1>5. size[b] \in Nat
  BY <1>1
<1>6. usage - Footprint(b) = Total(size, lent')
  BY <1>1, <1>2, <1>4, <1>5 DEF Charged, Footprint
<1>7. Total(size, lent') \in 0 .. UintMax /\ Total(size, lent') <= usage
  BY <1>1, <1>2, <1>4, <1>5 DEF Charged
<1>8. usage' = Total(size, lent')
  BY <1>1, <1>6, <1>7 DEF Freed, Wrapped
<1>9. usage' <= peak'
  BY <1>1, <1>4, <1>7, <1>8 DEF Charged
<1> QED BY <1>3, <1>7, <1>8, <1>9 DEF Charged

LEMMA NothingCharged ==
  ASSUME lent' = {}, usage' = 0, peak' \in 0 .. UintMax
  PROVE  Charged'
BY MemoryAssumption, TotalOfNone DEF Charged

-----------------------------------------------------------------------------
(* The C stack.  The buffer is stated by what is above it, and which code    *)
(* runs on which: public functions on code of the host, that on the VM's.    *)

Innermost2(i, b) ==
  /\ b \in 0 .. i
  /\ b # 0 => frames[b].code \in Guarded
  /\ \A j \in b + 1 .. i : frames[j].code \notin Guarded

Alternates ==
  \A i \in 1 .. Len(frames) :
    /\ frames[i].code \in Calls => i = 1 \/ frames[i - 1].code \in HostCode
    /\ frames[i].code \in HostCode =>
         i > 1 /\ frames[i - 1].code \in Calls \cup {"deletion", "collection"}
    /\ frames[i].code = "native" => i > 1 /\ frames[i - 1].code \in Calls
    /\ frames[i].code = "collection" =>
         i > 1 /\ frames[i - 1].code = "deletion"
    /\ frames[i].code = "deletion" => i = 1

FramesInv ==
  /\ frames \in Seq(Activations) /\ Len(frames) <= MaxDepth
  /\ Innermost2(Len(frames), buffer)
  /\ \A i \in 1 .. Len(frames) :
       frames[i].code \in Guarded => Innermost2(i - 1, frames[i].lastFrame)
  /\ Alternates

LEMMA Activation_ ==
  ASSUME FramesInv, NEW i \in 1 .. Len(frames)
  PROVE  /\ frames[i] \in Activations
         /\ frames[i].code \in Guarded \cup HostCode \cup {"deletion"}
         /\ frames[i].lastFrame \in 0 .. MaxDepth
         /\ frames[i].hookFailed \in BOOLEAN
<1>1. frames[i] \in Activations
  BY ElementOfSeq DEF FramesInv
<1> QED BY <1>1 DEF Activations

LEMMA EmptyFrames ==
  ASSUME frames' = <<>>, buffer' = 0
  PROVE  FramesInv' /\ StopsOnFailure'
<1>1. frames' \in Seq(Activations) /\ Len(frames') = 0
  BY EmptySeq
<1> QED BY <1>1, RecoveryAssumption
      DEF FramesInv, Innermost2, Alternates, StopsOnFailure, Running

(* What is left of the stack when activations return.                        *)
LEMMA Shortened ==
  ASSUME FramesInv, NEW n \in 0 .. Len(frames),
         frames' \in Seq(Activations), Len(frames') = n,
         \A i \in 1 .. n : /\ frames'[i].code = frames[i].code
                           /\ frames'[i].lastFrame = frames[i].lastFrame,
         Innermost2(n, buffer')
  PROVE  FramesInv'
<1>1. n \in Nat /\ n <= Len(frames) /\ Len(frames) \in Nat
  BY LenProperties DEF FramesInv
<1>2. ASSUME NEW i \in 0 .. n, NEW b, Innermost2(i, b)
      PROVE  /\ b \in 0 .. i
             /\ b # 0 => frames'[b].code \in Guarded
             /\ \A j \in b + 1 .. i : frames'[j].code \notin Guarded
  BY <1>1, <1>2 DEF Innermost2
<1>3. Innermost2(Len(frames), buffer)'
  <2>1. n \in 0 .. n /\ Innermost2(n, buffer')
    BY <1>1
  <2> QED BY <1>2, <2>1 DEF Innermost2
<1>4. ASSUME NEW i \in 1 .. n, frames'[i].code \in Guarded
      PROVE  Innermost2(i - 1, frames[i].lastFrame)'
  <2>1. Innermost2(i - 1, frames[i].lastFrame)
    BY <1>1, <1>4 DEF FramesInv
  <2>2. frames'[i].lastFrame = frames[i].lastFrame /\ i - 1 \in 0 .. n
    BY <1>1
  <2> QED BY SMTT(20), ZenonT(30), <1>2, <2>1, <2>2 DEF Innermost2
<1>5. Alternates'
  <2>1. SUFFICES ASSUME NEW i \in 1 .. n
                 PROVE  /\ frames'[i].code \in Calls =>
                             i = 1 \/ frames'[i - 1].code \in HostCode
                        /\ frames'[i].code \in HostCode =>
                             i > 1 /\ frames'[i - 1].code \in
                                        Calls \cup {"deletion", "collection"}
                        /\ frames'[i].code = "native" =>
                             i > 1 /\ frames'[i - 1].code \in Calls
                        /\ frames'[i].code = "collection" =>
                             i > 1 /\ frames'[i - 1].code = "deletion"
                        /\ frames'[i].code = "deletion" => i = 1
    BY DEF Alternates
  <2>2. i \in 1 .. Len(frames) /\ frames'[i].code = frames[i].code
    BY <1>1
  <2>3. CASE i = 1
    BY <2>2, <2>3 DEF FramesInv, Alternates
  <2>4. CASE i > 1
    <3>1. i - 1 \in 1 .. n
      BY <1>1, <2>4
    <3>2. frames'[i - 1].code = frames[i - 1].code
      BY <3>1
    <3> QED BY <2>2, <2>4, <3>2 DEF FramesInv, Alternates
  <2> QED BY <2>3, <2>4
<1>6. Len(frames') <= MaxDepth
  BY <1>1, RecoveryAssumption DEF FramesInv
<1> QED BY <1>3, <1>4, <1>5, <1>6 DEF FramesInv

LEMMA Extended ==
  ASSUME FramesInv, NEW n \in Nat, n = Len(frames), n < MaxDepth,
         NEW code \in Guarded \cup HostCode \cup {"deletion"}, Pushed(code),
         buffer' = IF code \in Guarded THEN Len(frames) + 1 ELSE buffer,
         code \in Calls => frames = <<>> \/ Running(HostCode),
         code \in HostCode => Running(Calls \cup {"deletion", "collection"}),
         code = "native" => Running(Calls),
         code = "collection" => Running({"deletion"}),
         code = "deletion" => frames = <<>>
  PROVE  FramesInv' /\ Top' = Activation(code)
<1>1. n \in Nat /\ n < MaxDepth /\ buffer \in 0 .. n /\ frames \in Seq(Activations)
  BY LenProperties DEF FramesInv, Innermost2
<1>2. /\ Activation(code) \in Activations
      /\ Activation(code).code = code /\ Activation(code).lastFrame = buffer
  BY <1>1, RecoveryAssumption DEF Activation, Activations
<1>3. /\ frames' \in Seq(Activations) /\ Len(frames') = n + 1
      /\ \A i \in 1 .. n : frames'[i] = frames[i]
      /\ frames'[n + 1] = Activation(code)
  BY <1>1, <1>2, AppendProperties DEF Pushed
<1>4. n = 0 \/ n \in 1 .. n
  BY <1>1
<1>5. frames = <<>> => n = 0
  BY EmptySeq
<1>6. \A codes : Running(codes) => n \in 1 .. n /\ frames[n].code \in codes
  BY <1>1, EmptySeq DEF Running, Top
<1>7. ASSUME NEW i \in 0 .. n, NEW b, Innermost2(i, b)
      PROVE  Innermost2(i, b)'
  BY <1>1, <1>3, <1>7 DEF Innermost2
<1>8. Innermost2(n, buffer)
  BY DEF FramesInv
<1>9. Innermost2(n + 1, buffer)'
  <2>1. CASE code \in Guarded
    <3>1. buffer' = n + 1 /\ n + 1 \in 0 .. n + 1 /\ frames'[n + 1].code = code
      BY <2>1, <1>1, <1>2, <1>3
    <3>2. \A j \in (n + 1) + 1 .. n + 1 : FALSE
      BY <1>1
    <3> QED BY <2>1, <3>1, <3>2 DEF Innermost2
  <2>2. CASE code \notin Guarded
    <3>1. buffer' = buffer /\ buffer \in 0 .. n + 1
      BY <2>2, <1>1
    <3>2. buffer # 0 => frames'[buffer].code \in Guarded
      BY <1>1, <1>3, <1>8 DEF Innermost2
    <3>3. \A j \in buffer + 1 .. n + 1 : frames'[j].code \notin Guarded
      BY <2>2, <1>1, <1>2, <1>3, <1>8 DEF Innermost2
    <3> QED BY <3>1, <3>2, <3>3 DEF Innermost2
  <2> QED BY <2>1, <2>2
<1>10. ASSUME NEW i \in 1 .. n + 1, frames'[i].code \in Guarded
       PROVE  Innermost2(i - 1, frames[i].lastFrame)'
  <2>1. CASE i = n + 1
    <3>1. Innermost2(n, buffer) /\ n \in 0 .. n /\ i - 1 = n
      BY <2>1, <1>1, <1>8
    <3>2. frames'[i].lastFrame = buffer
      BY <2>1, <1>2, <1>3
    <3>3. /\ buffer \in 0 .. n
          /\ buffer # 0 => frames'[buffer].code \in Guarded
          /\ \A j \in buffer + 1 .. n : frames'[j].code \notin Guarded
      BY <3>1, <1>1, <1>3 DEF Innermost2
    <3> QED BY <3>1, <3>2, <3>3 DEF Innermost2
  <2>2. CASE i \in 1 .. n
    <3>1. frames'[i] = frames[i] /\ i - 1 \in 0 .. n /\ i - 1 < n
      BY <2>2, <1>1, <1>3
    <3>2. Innermost2(i - 1, frames[i].lastFrame)
      BY <2>2, <3>1, <1>10 DEF FramesInv
    <3>3. /\ frames[i].lastFrame \in 0 .. i - 1
          /\ frames[i].lastFrame # 0 => frames'[frames[i].lastFrame].code \in Guarded
          /\ \A j \in frames[i].lastFrame + 1 .. i - 1 :
               frames'[j].code \notin Guarded
      BY <3>1, <3>2, <1>1, <1>3 DEF Innermost2
    <3> QED BY <3>1, <3>3 DEF Innermost2
  <2> QED BY <2>1, <2>2, <1>1
<1>11. Alternates'
  <2>1. ASSUME NEW i \in 1 .. n
        PROVE  /\ frames'[i] = frames[i]
               /\ i > 1 => frames'[i - 1] = frames[i - 1]
    BY <1>1, <1>3
  <2>2. \A i \in 1 .. n : i = n + 1 => FALSE
    BY <1>1
  <2>3. CASE n = 0
    BY <2>3, <1>1, <1>2, <1>3, <1>6 DEF Alternates
  <2>4. CASE n > 0
    <3>1. frames'[n] = frames[n] /\ n + 1 > 1 /\ (n + 1) - 1 = n /\ frames # <<>>
      BY <2>4, <1>1, <1>3, <1>5
    <3>2. /\ code \in Calls => frames[n].code \in HostCode
          /\ code \in HostCode => frames[n].code \in Calls \cup {"deletion", "collection"}
          /\ code = "native" => frames[n].code \in Calls
          /\ code = "collection" => frames[n].code = "deletion"
          /\ code # "deletion"
      BY <3>1, <1>6
    <3>3. frames'[n + 1].code = code /\ Len(frames') = n + 1
      BY <1>2, <1>3
    <3>4. SUFFICES ASSUME NEW i \in 1 .. n + 1
                   PROVE  /\ frames'[i].code \in Calls =>
                               i = 1 \/ frames'[i - 1].code \in HostCode
                          /\ frames'[i].code \in HostCode =>
                               i > 1 /\ frames'[i - 1].code \in
                                          Calls \cup {"deletion", "collection"}
                          /\ frames'[i].code = "native" =>
                               i > 1 /\ frames'[i - 1].code \in Calls
                          /\ frames'[i].code = "collection" =>
                               i > 1 /\ frames'[i - 1].code = "deletion"
                          /\ frames'[i].code = "deletion" => i = 1
      BY <3>3 DEF Alternates
    <3>5. CASE i = n + 1
      BY <3>1, <3>2, <3>3, <3>5
    <3>6. CASE i \in 1 .. n
      BY <2>1, <3>6, <1>1 DEF FramesInv, Alternates
    <3> QED BY <3>5, <3>6, <1>1
  <2> QED BY <2>3, <2>4, <1>1
<1>12. Innermost2(Len(frames), buffer)' /\ Len(frames') <= MaxDepth
  BY <1>1, <1>3, <1>9, RecoveryAssumption
<1>13. \A i \in 1 .. Len(frames') :
         frames'[i].code \in Guarded => Innermost2(i - 1, frames[i].lastFrame)'
  BY <1>3, <1>10
<1>14. FramesInv'
  BY <1>3, <1>11, <1>12, <1>13 DEF FramesInv
<1>15. Top' = Activation(code)
  BY <1>1, <1>3 DEF Top
<1> QED BY <1>14, <1>15

(* Several at once, as a failure does it, or one.                            *)
LEMMA Cut ==
  ASSUME FramesInv, NEW n \in 0 .. Len(frames),
         frames' = SubSeq(frames, 1, n), Innermost2(n, buffer')
  PROVE  /\ FramesInv'
         /\ Len(frames') = n /\ \A i \in 1 .. n : frames'[i] = frames[i]
<1>1. Len(frames) \in Nat /\ n \in Nat
  BY LenProperties DEF FramesInv
<1>2. \A i \in 1 .. n : frames[i] \in Activations
  BY <1>1, Activation_
<1>3. /\ frames' \in Seq(Activations) /\ Len(frames') = n
      /\ \A i \in 1 .. n : frames'[i] = frames[i]
  BY <1>1, <1>2, SubSeqProperties
<1> QED BY <1>3, Shortened

(* The top of the stack, and what is under it.                               *)
LEMMA TopIs ==
  ASSUME FramesInv, NEW codes, Running(codes)
  PROVE  /\ Len(frames) \in 1 .. MaxDepth
         /\ Len(frames) \in 1 .. Len(frames)
         /\ frames[Len(frames)].code \in codes
BY LenProperties, EmptySeq, RecoveryAssumption DEF FramesInv, Running, Top

LEMMA BufferAtTop ==
  ASSUME FramesInv, Running(Guarded)
  PROVE  buffer = Len(frames)
<1>1. Len(frames) \in 1 .. MaxDepth /\ frames[Len(frames)].code \in Guarded
  BY TopIs
<1>2. Innermost2(Len(frames), buffer)
  BY DEF FramesInv
<1> QED BY <1>1, <1>2, RecoveryAssumption DEF Innermost2

(* Where one public function returns, its caller is the host's.              *)
LEMMA UnderCalls ==
  ASSUME FramesInv, NEW i \in 1 .. Len(frames), frames[i].code \in Calls,
         frames' = SubSeq(frames, 1, i - 1), buffer' = frames[i].lastFrame
  PROVE  FramesInv' /\ ~Running(Guarded)'
<1>1. Len(frames) \in Nat /\ i - 1 \in 0 .. Len(frames)
  BY LenProperties DEF FramesInv
<1>2. Innermost2(i - 1, buffer')
  BY DEF FramesInv, Guarded
<1>3. /\ FramesInv' /\ Len(frames') = i - 1
      /\ \A j \in 1 .. i - 1 : frames'[j] = frames[j]
  BY <1>1, <1>2, Cut
<1>4. CASE i = 1
  BY <1>3, <1>4, EmptySeq DEF Running, FramesInv
<1>5. CASE i > 1
  <2>1. frames[i - 1].code \in HostCode
    BY <1>5 DEF FramesInv, Alternates
  <2>2. Top' = frames[i - 1]
    BY <1>1, <1>3, <1>5 DEF Top
  <2> QED BY <1>3, <2>1, <2>2 DEF Running, Guarded, Calls, HostCode
<1> QED BY <1>1, <1>4, <1>5

(* The work that fails is that of the innermost call that has a buffer.      *)
LEMMA CatastropheInv ==
  ASSUME FramesInv, Usual, buffer # 0, Catastrophe
  PROVE  FramesInv' /\ ~Running(Guarded)'
<1>1. buffer \in 1 .. Len(frames) /\ frames[buffer].code \in Guarded
  BY LenProperties DEF FramesInv, Innermost2
<1>2. /\ frames' = SubSeq(frames, 1, buffer - 1)
      /\ buffer' = frames[buffer].lastFrame
      /\ frames[buffer].code # "collection"
  BY DEF Usual, Catastrophe, Restored
<1>3. frames[buffer].code \in Calls
  BY <1>1, <1>2 DEF Guarded
<1> QED BY <1>1, <1>2, <1>3, UnderCalls

-----------------------------------------------------------------------------
(* The whole.                                                                *)

Inv ==
  /\ ListInv
  /\ FramesInv
  /\ StopsOnFailure
  /\ exists \in BOOLEAN /\ failed \in BOOLEAN
  /\ ~exists => frames = <<>> /\ lent = {}

LEMMA InitInv == Init => Inv
<1> SUFFICES ASSUME Init PROVE Inv
  OBVIOUS
<1>1. MemoryTypeOK
  BY MemoryAssumption DEF Init, NoMemory, MemoryTypeOK
<1>2. Linked /\ OnList = {}
  BY DEF Init, NoMemory, Linked, OnList, Closed
<1>3. frames \in Seq(Activations) /\ Len(frames) = 0
  BY EmptySeq DEF Init
<1>4. FramesInv /\ StopsOnFailure
  BY <1>3, RecoveryAssumption
     DEF Init, FramesInv, Innermost2, Alternates, StopsOnFailure
<1> QED BY <1>1, <1>2, <1>4
        DEF Inv, ListInv, ListSound, Init, NoMemory

LEMMA MemoryKept ==
  ASSUME ListInv, UNCHANGED memoryVars
  PROVE  ListInv'
BY DEF memoryVars, ListInv, MemoryTypeOK, Linked, ListSound, OnList, Closed

LEMMA FramesKept ==
  ASSUME FramesInv, UNCHANGED <<frames, buffer>>
  PROVE  FramesInv'
BY DEF FramesInv, Innermost2, Alternates

LEMMA StepInv == Usual /\ Inv /\ [Next]_vars => Inv'
<1> SUFFICES ASSUME Usual, Inv, [Next]_vars PROVE Inv'
  OBVIOUS
<1>i. /\ ListInv /\ FramesInv /\ StopsOnFailure
      /\ exists \in BOOLEAN /\ failed \in BOOLEAN
      /\ ~exists => frames = <<>> /\ lent = {}
      /\ Len(frames) \in Nat
      /\ Len(<<>>) = 0
      /\ peak \in 0 .. UintMax /\ limit \in 0 .. UintMax
  BY LenProperties, EmptySeq DEF Inv, FramesInv, ListInv, MemoryTypeOK
<1>n. \A codes : Running(codes) => exists
  BY <1>i DEF Running
<1>1. CASE Create
  <2>1. frames = <<>> /\ buffer = 0
    BY <1>1, <1>i, EmptySeq DEF Create, FramesInv, Innermost2
  <2>2. Pushed("other")
    BY <1>1, <2>1 DEF Create, Pushed, Activation
  <2>3. FramesInv'
    BY <1>1, <1>i, <2>1, <2>2, RecoveryAssumption, Extended
       DEF Create, Calls, Guarded, HostCode
  <2>4. ListInv'
    BY <1>1, MemoryAssumption, EmptyList DEF Create
  <2> QED BY <1>1, <2>3, <2>4 DEF Inv, Create, StopsOnFailure
<1>2. ASSUME NEW code \in Calls, Call(code) PROVE Inv'
  <2>1. FramesInv'
    BY <1>2, <1>i, Extended DEF Call, HostRuns, Calls, Guarded, HostCode
  <2>2. failed' = FALSE /\ exists' = TRUE
    BY <1>2, <1>i DEF Call, HostRuns, ReturnsAtOnce
  <2> QED BY <1>2, <1>i, <2>1, <2>2, MemoryKept DEF Inv, Call, StopsOnFailure
<1>3. CASE SetMaxAllocatedMemory
  <2>1. limit' \in 0 .. UintMax
    BY <1>3, MemoryAssumption DEF SetMaxAllocatedMemory
  <2>2. ListInv'
    BY <1>3, <1>i, <2>1 DEF SetMaxAllocatedMemory, ListInv, MemoryTypeOK,
                            Linked, ListSound, OnList, Closed
  <2> QED BY <1>3, <1>i, <2>2, FramesKept
          DEF Inv, SetMaxAllocatedMemory, StopsOnFailure, Running, Top
<1>4. CASE Return
  <2>1. Len(frames) \in 1 .. Len(frames) /\ frames[Len(frames)].code \in Calls
    BY <1>4, <1>i, TopIs DEF Return
  <2>2. FramesInv' /\ ~Running(Guarded)'
    BY <1>4, <1>i, <2>1, UnderCalls DEF Return, Restored
  <2> QED BY <1>4, <1>i, <2>2, MemoryKept DEF Inv, Return, StopsOnFailure
<1>5. CASE Allocate
  <2>1. ListInv'
    BY <1>5, <1>i, AllocatedInv DEF Allocate
  <2> QED BY <1>5, <1>i, <1>n, <2>1, FramesKept
          DEF Inv, Allocate, StopsOnFailure, Running, Top
<1>6. CASE AllocationFails
  <2>1. buffer # 0
    BY <1>6, <1>i, BufferAtTop, TopIs DEF AllocationFails
  <2>2. FramesInv' /\ ~Running(Guarded)'
    BY <1>6, <1>i, <2>1, CatastropheInv DEF AllocationFails
  <2>3. exists' = TRUE /\ failed' = TRUE /\ UNCHANGED memoryVars
    BY <1>6, <1>n, <1>i DEF AllocationFails, Catastrophe, Usual
  <2> QED BY <1>i, <2>2, <2>3, MemoryKept DEF Inv, StopsOnFailure
<1>7. CASE Free
  <2>1. ListInv'
    BY <1>7, <1>i, FreedInv DEF Free
  <2> QED BY <1>7, <1>i, <1>n, <2>1, FramesKept
          DEF Inv, Free, StopsOnFailure, Running, Top
<1>8. ASSUME NEW code \in HostCode, CallHost(code) PROVE Inv'
  <2>1. /\ Running(Calls \cup {"deletion", "collection"})
        /\ code = "native" => Running(Calls)
    BY <1>8 DEF CallHost, Running
  <2>2. FramesInv' /\ Top' = Activation(code)
    BY <1>8, <1>i, <2>1, Extended DEF CallHost, Calls, Guarded, HostCode
  <2>3. ~Running(Guarded)'
    BY <1>8, <2>2 DEF Running, Activation, Guarded, Calls, HostCode
  <2> QED BY <1>8, <1>i, <1>n, <2>1, <2>2, <2>3, MemoryKept
          DEF Inv, CallHost, StopsOnFailure
<1>9. CASE HostReturns
  <2> DEFINE n == Len(frames)
  <2>1. /\ n \in 1 .. MaxDepth /\ n \in 1 .. n /\ frames[n].code \in HostCode
        /\ frames[n].code = Top.code
    BY <1>9, <1>i, TopIs DEF HostReturns, Top
  <2>2. /\ n > 1 /\ frames[n - 1].code \in Calls \cup {"deletion", "collection"}
        /\ frames[n].code = "native" => frames[n - 1].code \in Calls
    BY <2>1, <1>i DEF FramesInv, Alternates
  <2>3. Innermost2(n, buffer) /\ frames[n].code \notin Guarded
    BY <2>1, <1>i DEF FramesInv, Guarded, Calls, HostCode
  <2>4. CASE FailsAgain(Top.code) /\ Catastrophe
    <3>1. frames[n - 1].code \in Guarded
      BY <2>1, <2>2, <2>4 DEF FailsAgain, Guarded
    <3>2. buffer # 0
      BY <2>1, <2>2, <2>3, <3>1, RecoveryAssumption DEF Innermost2
    <3>3. FramesInv' /\ ~Running(Guarded)'
      BY <1>i, <2>4, <3>2, CatastropheInv
    <3>4. exists' = TRUE /\ failed' = TRUE /\ UNCHANGED memoryVars
      BY <1>9, <2>4, <1>n, <1>i DEF HostReturns, Catastrophe, Usual
    <3> QED BY <1>i, <3>3, <3>4, MemoryKept DEF Inv, StopsOnFailure
  <2>5. CASE /\ ~FailsAgain(Top.code)
             /\ frames' = [SubSeq(frames, 1, n - 1) EXCEPT
                             ![n - 1].hookFailed =
                                 @ \/ (Top.code = "hook" /\ failed)]
             /\ UNCHANGED <<memoryVars, exists, buffer, failed>>
    <3> DEFINE rest == SubSeq(frames, 1, n - 1)
               back == [rest[n - 1] EXCEPT
                          !.hookFailed = @ \/ (Top.code = "hook" /\ failed)]
    <3>1. \A i \in 1 .. n - 1 : i \in 1 .. n /\ frames[i] \in Activations
      BY <1>i, <2>1, Activation_
    <3>2. /\ rest \in Seq(Activations) /\ Len(rest) = n - 1
          /\ \A i \in 1 .. n - 1 : rest[i] = frames[i]
      BY <2>1, <2>2, <3>1, SubSeqProperties
    <3>3. n - 1 \in 1 .. n - 1
      BY <2>1, <2>2
    <3>4. /\ back \in Activations
          /\ back.code = frames[n - 1].code
          /\ back.lastFrame = frames[n - 1].lastFrame
          /\ back.hookFailed = (frames[n - 1].hookFailed
                                  \/ (Top.code = "hook" /\ failed))
      <4>1. rest[n - 1] = frames[n - 1] /\ frames[n - 1] \in Activations
        BY <3>1, <3>2, <3>3
      <4> HIDE DEF rest
      <4> QED BY <4>1, <1>i DEF Activations
    <3>5. frames' = [rest EXCEPT ![n - 1] = back]
      BY <2>5
    <3> HIDE DEF rest, back
    <3>6. /\ frames' \in Seq(Activations) /\ Len(frames') = n - 1
          /\ \A i \in 1 .. n - 1 :
               frames'[i] = IF i = n - 1 THEN back ELSE rest[i]
      BY <3>2, <3>3, <3>4, <3>5, ExceptSeq
    <3>7. Innermost2(n - 1, buffer')
      <4>1. buffer' = buffer /\ buffer # n
        BY <2>1, <2>3, <2>5 DEF Innermost2
      <4> QED BY <4>1, <2>1, <2>2, <2>3 DEF Innermost2
    <3>8. /\ n - 1 \in 0 .. Len(frames)
          /\ \A i \in 1 .. n - 1 : /\ frames'[i].code = frames[i].code
                                   /\ frames'[i].lastFrame = frames[i].lastFrame
      BY SMTT(20), ZenonT(30), <2>1, <2>2, <3>2, <3>4, <3>6
    <3>9. FramesInv'
      BY <1>i, <3>6, <3>7, <3>8, Shortened
    <3>10. StopsOnFailure'
      <4>1. ASSUME failed' PROVE Top'.hookFailed
        <5>1. Top' = back
          BY <3>3, <3>6 DEF Top
        <5>2. failed /\ Top.code = "hook"
          BY <2>1, <2>5, <4>1 DEF FailsAgain, HostCode
        <5> QED BY <5>1, <5>2, <3>4
      <4> QED BY <4>1 DEF StopsOnFailure
    <3>11. exists' = TRUE
      BY <1>9, <1>n, <1>i, <2>5 DEF HostReturns
    <3> QED BY <1>i, <2>5, <3>9, <3>10, <3>11, MemoryKept DEF Inv
  <2> QED BY <1>9, <2>4, <2>5 DEF HostReturns
<1>10. CASE Delete
  <2>1. FramesInv' /\ Top' = Activation("deletion")
    BY <1>10, <1>i, Extended, RecoveryAssumption
       DEF Delete, Calls, Guarded, HostCode
  <2>2. ~Running(Guarded)'
    BY <2>1 DEF Running, Activation, Guarded, Calls
  <2> QED BY <1>10, <1>i, <2>1, <2>2, MemoryKept DEF Inv, Delete, StopsOnFailure
<1>11. CASE FreeList
  <2>1. /\ Len(frames) \in 1 .. Len(frames)
        /\ frames[Len(frames)].code = "deletion"
    BY <1>11, <1>i, TopIs DEF FreeList
  <2>2. Len(frames) = 1 /\ Innermost2(1, buffer)
    BY <1>i, <2>1 DEF FramesInv, Alternates
  <2>3. buffer' = 0 /\ frames' = <<>>
    BY <1>11, <2>1, <2>2 DEF FreeList, Innermost2, Guarded, Calls
  <2>4. lent' = {}
    BY <1>11, <1>i DEF FreeList, Usual, ListInv, ListSound
  <2>5. ListInv'
    BY <1>11, <1>i, <2>4, EmptyList DEF FreeList
  <2> QED BY <1>11, <1>i, <2>3, <2>4, <2>5, EmptyFrames DEF Inv, FreeList
<1>12. CASE Collect
  <2>1. FramesInv'
    BY <1>12, <1>i, Extended DEF Collect, Calls, Guarded, HostCode
  <2> QED BY <1>12, <1>i, <1>n, <2>1, MemoryKept DEF Inv, Collect, StopsOnFailure
<1>13. CASE FreeStructures
  <2>1. /\ Len(frames) \in 1 .. Len(frames)
        /\ frames[Len(frames)].code = "collection"
    BY <1>13, <1>i, TopIs DEF FreeStructures
  <2>2. /\ Len(frames) > 1 /\ frames[Len(frames) - 1].code = "deletion"
        /\ Innermost2(Len(frames) - 1, frames[Len(frames)].lastFrame)
    BY <1>i, <2>1 DEF FramesInv, Alternates, Guarded
  <2>3. Len(frames) - 1 = 1
    <3>1. Len(frames) - 1 \in 1 .. Len(frames)
      BY <1>i, <2>2
    <3> QED BY <1>i, <2>2, <3>1 DEF FramesInv, Alternates
  <2>4. buffer' = frames[Len(frames)].lastFrame /\ frames' = <<>>
    BY <1>13 DEF FreeStructures, Restored
  <2>5. frames[1].code \notin Guarded /\ Innermost2(1, buffer')
    BY <2>2, <2>3, <2>4 DEF Guarded, Calls
  <2>6. buffer' = 0
    BY <2>5 DEF Innermost2
  <2>7. lent' = {} /\ exists' = FALSE /\ failed' = failed
    BY <1>13 DEF FreeStructures
  <2>8. ListInv'
    BY <1>13, <1>i, EmptyList DEF FreeStructures
  <2> QED BY <1>i, <2>4, <2>6, <2>7, <2>8, EmptyFrames DEF Inv
<1>14. CASE UNCHANGED vars
  <2>1. UNCHANGED <<memoryVars, exists, frames, buffer, failed>>
    BY <1>14 DEF vars
  <2>2. ListInv' /\ FramesInv'
    BY <1>i, <2>1, MemoryKept, FramesKept
  <2>3. StopsOnFailure' /\ lent' = lent
    BY <1>i, <2>1 DEF StopsOnFailure, Running, Top, memoryVars
  <2> QED BY <1>i, <2>1, <2>2, <2>3 DEF Inv
<1> QED BY <1>1, <1>2, <1>3, <1>4, <1>5, <1>6, <1>7, <1>8, <1>9, <1>10, <1>11,
           <1>12, <1>13, <1>14 DEF Next

LEMMA Invariant == ASSUME Usual PROVE Spec => []Inv
<1>1. Inv /\ [Next]_vars => Inv'
  BY StepInv
<1> QED BY <1>1, InitInv, PTL DEF Spec

(* What a step does to the usage.                                            *)
LEMMA StepCharge ==
  Usual /\ Inv /\ Charged /\ [Next]_vars =>
    Charged' /\ (usage' > usage => usage' <= limit)
<1> SUFFICES ASSUME Usual, Inv, Charged, [Next]_vars
             PROVE  Charged' /\ (usage' > usage => usage' <= limit)
  OBVIOUS
<1>i. /\ ListInv
      /\ usage \in 0 .. UintMax /\ peak \in 0 .. UintMax /\ UintMax \in Nat
  BY MemoryAssumption DEF Inv, ListInv, MemoryTypeOK
<1>u. ASSUME UNCHANGED <<lent, size, usage, peak>>
      PROVE  Charged' /\ (usage' > usage => usage' <= limit)
  BY <1>i, <1>u DEF Charged
<1>e. ASSUME lent' = {}, usage' = 0, peak' \in 0 .. UintMax
      PROVE  Charged' /\ (usage' > usage => usage' <= limit)
  BY <1>i, <1>e, NothingCharged
<1>m. ASSUME UNCHANGED memoryVars
      PROVE  Charged' /\ (usage' > usage => usage' <= limit)
  BY <1>u, <1>m DEF memoryVars
<1>1. CASE Create
  <2>1. lent' = {} /\ usage' = 0 /\ peak' = 0 /\ 0 \in 0 .. UintMax
    BY <1>1, <1>i DEF Create
  <2> QED BY <2>1, <1>e
<1>2. ASSUME NEW code \in Calls, Call(code)
      PROVE  Charged' /\ (usage' > usage => usage' <= limit)
  BY <1>2, <1>m DEF Call
<1>3. CASE SetMaxAllocatedMemory
  BY <1>3, <1>u DEF SetMaxAllocatedMemory
<1>4. CASE Return
  BY <1>4, <1>m DEF Return
<1>5. CASE Allocate
  BY <1>5, <1>i, AllocatedCharge, AllocatedFits DEF Allocate
<1>6. CASE AllocationFails
  BY <1>6, <1>m DEF AllocationFails, Catastrophe
<1>7. CASE Free
  <2>1. Charged' /\ usage' <= usage
    BY <1>7, <1>i, FreedCharge DEF Free
  <2>2. usage' \in 0 .. UintMax
    BY <1>7, <1>i, FreedInv DEF Free, ListInv, MemoryTypeOK
  <2> QED BY <1>i, <2>1, <2>2
<1>8. ASSUME NEW code \in HostCode, CallHost(code)
      PROVE  Charged' /\ (usage' > usage => usage' <= limit)
  BY <1>8, <1>m DEF CallHost
<1>9. CASE HostReturns
  BY <1>9, <1>m DEF HostReturns, Catastrophe
<1>10. CASE Delete
  BY <1>10, <1>m DEF Delete
<1>11. CASE FreeList
  <2>1. lent' = {}
    BY <1>11, <1>i DEF FreeList, Usual, ListInv, ListSound
  <2> QED BY <1>11, <1>i, <1>e, <2>1 DEF FreeList
<1>12. CASE Collect
  BY <1>12, <1>m DEF Collect
<1>13. CASE FreeStructures
  BY <1>13, <1>i, <1>e DEF FreeStructures
<1>14. CASE UNCHANGED vars
  BY <1>14, <1>m DEF vars
<1> QED BY <1>1, <1>2, <1>3, <1>4, <1>5, <1>6, <1>7, <1>8, <1>9, <1>10, <1>11,
           <1>12, <1>13, <1>14 DEF Next

LEMMA InvariantCharged == ASSUME Usual PROVE Spec => [](Inv /\ Charged)
<1>1. Init => Inv /\ Charged
  <2>1. Init => Charged
    BY MemoryAssumption, TotalOfNone DEF Init, NoMemory, Charged
  <2> QED BY <2>1, InitInv
<1>2. Inv /\ Charged /\ [Next]_vars => (Inv /\ Charged)'
  BY StepInv, StepCharge
<1> QED BY <1>1, <1>2, PTL DEF Spec

-----------------------------------------------------------------------------
(* What follows.                                                             *)

(* The variables are of their types: no jump buffer is above the C stack.    *)
THEOREM TypeCorrect == ASSUME Usual PROVE Spec => []TypeOK
<1>1. Inv => TypeOK
  BY DEF Inv, ListInv, FramesInv, Innermost2, TypeOK
<1> QED BY <1>1, Invariant, PTL

(* The list of blocks has on it what is lent and nothing else (nkmem.c),     *)
(* however allocation, release and failure follow on each other.             *)
THEOREM ListTheorem == ASSUME Usual PROVE Spec => []ListSound
<1>1. Inv => ListSound
  BY DEF Inv, ListInv
<1> QED BY <1>1, Invariant, PTL

(* There is one index that the code around has a buffer at, and none above.  *)
LEMMA InnermostIs ==
  ASSUME FramesInv, NEW i \in 0 .. Len(frames), NEW b, Innermost2(i, b)
  PROVE  Innermost(i) = b
<1> DEFINE guarded == {j \in 1 .. i : frames[j].code \in Guarded}
<1>1. i \in Nat /\ b \in 0 .. i
  BY LenProperties DEF FramesInv, Innermost2
<1>2. \A j \in guarded : j <= b
  BY <1>1 DEF Innermost2
<1>3. CASE b = 0
  <2>1. guarded = {}
    BY <1>1, <1>2, <1>3
  <2> QED BY <1>3, <2>1 DEF Innermost
<1>4. CASE b # 0
  <2>1. b \in guarded
    BY <1>1, <1>4 DEF Innermost2
  <2> DEFINE last == CHOOSE j \in guarded : \A k \in guarded : k <= j
  <2>2. last \in guarded /\ \A k \in guarded : k <= last
    BY <1>2, <2>1
  <2>3. last = b
    BY <1>1, <1>2, <2>1, <2>2
  <2> QED BY <2>1, <2>3 DEF Innermost
<1> QED BY <1>3, <1>4

(* A failure jumps into the innermost public function that still runs, and   *)
(* each has kept the buffer of the one around it (nkfail.h).                 *)
THEOREM FramesTheorem == ASSUME Usual PROVE Spec => []FramesNest
<1>1. ASSUME FramesInv PROVE FramesNest
  <2>1. Len(frames) \in 0 .. Len(frames) /\ Innermost2(Len(frames), buffer)
    BY <1>1, LenProperties DEF FramesInv
  <2>2. ASSUME NEW i \in 1 .. Len(frames), frames[i].code \in Guarded
        PROVE  frames[i].lastFrame = Innermost(i - 1)
    <3>1. Innermost2(i - 1, frames[i].lastFrame) /\ i - 1 \in 0 .. Len(frames)
      BY <1>1, <2>2, LenProperties DEF FramesInv
    <3> QED BY <1>1, <3>1, InnermostIs
  <2>3. buffer = Innermost(Len(frames))
    BY <1>1, <2>1, InnermostIs
  <2> QED BY <2>2, <2>3 DEF FramesNest
<1>2. Inv => FramesNest
  BY <1>1 DEF Inv
<1> QED BY <1>2, Invariant, PTL

(* No work is done after a failure, except by a call that one of its hooks   *)
(* has not told of it (nkx.c, nkvm.c).                                       *)
THEOREM StopsTheorem == ASSUME Usual PROVE Spec => []StopsOnFailure
<1>1. Inv => StopsOnFailure
  BY DEF Inv
<1> QED BY <1>1, Invariant, PTL

(* A VM that is gone has given everything back, whether it was deleted after *)
(* a failure or not (nkx.c, nkvm.c, nkmem.c).                                *)
THEOREM MemoryTheorem == ASSUME Usual PROVE Spec => []MemoryReturned
<1>1. Inv => MemoryReturned
  BY DEF Inv, MemoryReturned
<1> QED BY <1>1, Invariant, PTL

(* The usage is the sum of what is lent, headers included, however large the *)
(* sizes asked for are (nkmem.c): no size wraps around before it is compared *)
(* with the limit, and none is taken off that was not put on.                *)
THEOREM UsageTheorem == ASSUME Usual PROVE Spec => []UsageExact
<1>1. Inv /\ Charged => UsageExact
  BY ChargedIs DEF Inv
<1> QED BY <1>1, InvariantCharged, PTL

(* Whatever the usage rises to is within the limit of the time (nkmem.c),    *)
(* also when the host has set the limit below what is in use.                *)
THEOREM LimitTheorem == ASSUME Usual PROVE Spec => LimitHolds
<1>1. Inv /\ Charged /\ [Next]_vars => [usage' > usage => usage' <= limit]_vars
  BY StepCharge
<1> QED BY <1>1, InvariantCharged, PTL DEF Spec, LimitHolds
=============================================================================
