--------------------------- MODULE NkTableProofs ---------------------------
(***************************************************************************)
(* Proofs about NkTable for every Entry and every IndexSpace.              *)
(***************************************************************************)
EXTENDS NkTable, FiniteSetTheorems, SequenceTheorems, FunctionTheorems, TLAPS

(***************************************************************************)
(* The lists of holes.                                                     *)
(***************************************************************************)
(* In a finite set of numbers, different elements have different ranks.    *)
LEMMA RankStrict ==
  ASSUME NEW S \in SUBSET Nat, IsFiniteSet(S), NEW x \in S, NEW y \in S, x < y
  PROVE  /\ Cardinality({z \in S : z < x}) < Cardinality({z \in S : z < y})
         /\ Cardinality({z \in S : z > y}) < Cardinality({z \in S : z > x})
<1> DEFINE B(w) == {z \in S : z < w}
           A(w) == {z \in S : z > w}
<1>1. \A w \in S : IsFiniteSet(B(w)) /\ IsFiniteSet(A(w))
  BY FS_Subset
<1>2. \A w \in S : Cardinality(B(w)) \in Nat /\ Cardinality(A(w)) \in Nat
  BY <1>1, FS_CardinalityType
<1>3. B(x) \in SUBSET B(y) /\ A(y) \in SUBSET A(x)
  <2>1. \A z \in S : (z < x => z < y) /\ (z > y => z > x)
    OBVIOUS
  <2> QED BY <2>1
<1>4. B(x) # B(y) /\ A(x) # A(y)
  <2>1. x \in B(y) /\ x \notin B(x) /\ y \in A(x) /\ y \notin A(y)
    BY SMT
  <2> QED BY <2>1
<1>5. Cardinality(B(x)) <= Cardinality(B(y)) /\ Cardinality(B(x)) # Cardinality(B(y))
  BY <1>1, <1>3, <1>4, FS_Subset
<1>6. Cardinality(A(y)) <= Cardinality(A(x)) /\ Cardinality(A(y)) # Cardinality(A(x))
  BY <1>1, <1>3, <1>4, FS_Subset
<1> HIDE DEF B, A
<1>7. Cardinality(B(x)) < Cardinality(B(y)) /\ Cardinality(A(y)) < Cardinality(A(x))
  BY <1>2, <1>5, <1>6
<1> QED BY <1>7 DEF B, A

(* Choosing by rank enumerates the set: a list without repetitions whose   *)
(* members are exactly the elements of S.                                  *)
LEMMA EnumerationByRank ==
  ASSUME NEW S, IsFiniteSet(S), NEW rank \in [S -> 0 .. Cardinality(S) - 1],
         \A x, y \in S : rank[x] = rank[y] => x = y,
         NEW list, list = ByRank(S, rank)
  PROVE  list \in Seq(S) /\ IsInjective(list) /\ Range(list) = S
<1> DEFINE n == Cardinality(S)
           f == [x \in S |-> rank[x] + 1]
<1>1. n \in Nat
  BY FS_CardinalityType
<1>2. IsFiniteSet(1 .. n) /\ Cardinality(1 .. n) = n
  BY <1>1, FS_Interval
<1>3. f \in Injection(S, 1 .. n)
  <2>1. f \in [S -> 1 .. n]
    BY <1>1
  <2>2. \A a, b \in S : f[a] = f[b] => a = b
    BY <1>1
  <2> QED BY <2>1, <2>2, Fun_IsInj
<1>4. f \in Surjection(S, 1 .. n)
  BY <1>2, <1>3, FS_Injection
<1>5. \A k \in 1 .. n : \E x \in S : rank[x] = k - 1
  <2> TAKE k \in 1 .. n
  <2>1. PICK x \in S : f[x] = k
    BY <1>4 DEF Surjection
  <2>2. rank[x] + 1 = k /\ rank[x] \in 0 .. n - 1
    BY <2>1
  <2> QED BY <2>2, <1>1
<1>6. \A k \in 1 .. n : list[k] \in S /\ rank[list[k]] = k - 1
  BY <1>5 DEF ByRank
<1>7. list \in [1 .. n -> S]
  BY <1>6 DEF ByRank
<1>8. list \in Seq(S)
  <2> HIDE DEF n
  <2>1. list \in UNION {[1 .. m -> S] : m \in Nat}
    BY <1>1, <1>7
  <2> QED BY <2>1, SeqDef, Zenon
<1>9. IsInjective(list)
  BY <1>6, <1>7, <1>1 DEF IsInjective
<1>10. \A x \in S : list[rank[x] + 1] = x
  <2> TAKE x \in S
  <2>1. rank[x] + 1 \in 1 .. n
    BY <1>1
  <2>2. list[rank[x] + 1] \in S /\ rank[list[rank[x] + 1]] = rank[x]
    BY <2>1, <1>6, <1>1
  <2> QED BY <2>2
<1>11. Range(list) = S
  <2>1. \A x \in S : \E k \in 1 .. n : list[k] = x
    <3> TAKE x \in S
    <3>1. rank[x] + 1 \in 1 .. n
      BY <1>1
    <3> QED BY <3>1, <1>10
  <2>2. DOMAIN list = 1 .. n /\ \A k \in 1 .. n : list[k] \in S
    BY <1>7
  <2> HIDE DEF n
  <2>3. \A y : y \in {list[k] : k \in 1 .. n} <=> y \in S
    BY <2>1, <2>2
  <2> QED BY <2>2, <2>3, Zenon DEF Range
<1> QED BY <1>8, <1>9, <1>11

LEMMA AscendingEnumerates ==
  ASSUME NEW S \in SUBSET Nat, IsFiniteSet(S)
  PROVE  /\ Ascending(S) \in Seq(S)
         /\ IsInjective(Ascending(S))
         /\ Range(Ascending(S)) = S
<1> DEFINE rank == [x \in S |-> Cardinality({y \in S : y < x})]
<1>1. Cardinality(S) \in Nat
  BY FS_CardinalityType
<1>2. rank \in [S -> 0 .. Cardinality(S) - 1]
  <2> SUFFICES ASSUME NEW x \in S
               PROVE  Cardinality({y \in S : y < x}) \in 0 .. Cardinality(S) - 1
    OBVIOUS
  <2> DEFINE B == {y \in S : y < x}
  <2>1. IsFiniteSet(B) /\ Cardinality(B) \in Nat
    BY FS_Subset, FS_CardinalityType
  <2>2. B \in SUBSET S /\ x \notin B
    BY SMT
  <2>3. Cardinality(B) <= Cardinality(S) /\ Cardinality(B) # Cardinality(S)
    BY <2>2, FS_Subset
  <2> QED BY <2>1, <2>3, <1>1
<1>3. \A x, y \in S : rank[x] = rank[y] => x = y
  <2>1. \A x, y \in S : x < y => rank[x] # rank[y]
    <3> SUFFICES ASSUME NEW x \in S, NEW y \in S, x < y
                 PROVE  rank[x] # rank[y]
      OBVIOUS
    <3>1. rank[x] \in Int /\ rank[y] \in Int
      BY <1>1, <1>2
    <3>2. rank[x] < rank[y] \/ rank[y] < rank[x]
      BY RankStrict
    <3> QED BY <3>1, <3>2
  <2> QED BY <2>1
<1>4. Ascending(S) = ByRank(S, rank)
  BY DEF Ascending
<1> HIDE DEF rank
<1> QED BY <1>2, <1>3, <1>4, EnumerationByRank

LEMMA DescendingEnumerates ==
  ASSUME NEW S \in SUBSET Nat, IsFiniteSet(S)
  PROVE  /\ Descending(S) \in Seq(S)
         /\ IsInjective(Descending(S))
         /\ Range(Descending(S)) = S
<1> DEFINE rank == [x \in S |-> Cardinality({y \in S : y > x})]
<1>1. Cardinality(S) \in Nat
  BY FS_CardinalityType
<1>2. rank \in [S -> 0 .. Cardinality(S) - 1]
  <2> SUFFICES ASSUME NEW x \in S
               PROVE  Cardinality({y \in S : y > x}) \in 0 .. Cardinality(S) - 1
    OBVIOUS
  <2> DEFINE B == {y \in S : y > x}
  <2>1. IsFiniteSet(B) /\ Cardinality(B) \in Nat
    BY FS_Subset, FS_CardinalityType
  <2>2. B \in SUBSET S /\ x \notin B
    BY SMT
  <2>3. Cardinality(B) <= Cardinality(S) /\ Cardinality(B) # Cardinality(S)
    BY <2>2, FS_Subset
  <2> QED BY <2>1, <2>3, <1>1
<1>3. \A x, y \in S : rank[x] = rank[y] => x = y
  <2>1. \A x, y \in S : x < y => rank[x] # rank[y]
    <3> SUFFICES ASSUME NEW x \in S, NEW y \in S, x < y
                 PROVE  rank[x] # rank[y]
      OBVIOUS
    <3>1. rank[x] \in Int /\ rank[y] \in Int
      BY <1>1, <1>2
    <3>2. rank[x] < rank[y] \/ rank[y] < rank[x]
      BY RankStrict
    <3> QED BY <3>1, <3>2
  <2> QED BY <2>1
<1>4. Descending(S) = ByRank(S, rank)
  BY DEF Descending
<1> HIDE DEF rank
<1> QED BY <1>2, <1>3, <1>4, EnumerationByRank

(* Both, for a set of slots of an array: what the hole list is made of.    *)
LEMMA HoleLists ==
  ASSUME NEW c \in Capacities, NEW S, S \subseteq 0 .. c - 1
  PROVE  /\ Ascending(S) \in Seq(0 .. IndexSpace - 1) /\ IsInjective(Ascending(S))
         /\ Range(Ascending(S)) = S
         /\ Descending(S) \in Seq(0 .. IndexSpace - 1) /\ IsInjective(Descending(S))
         /\ Range(Descending(S)) = S
<1>1. c \in Nat /\ IndexSpace \in Nat /\ c < IndexSpace
  BY IndexSpaceAssumption DEF Capacities
<1>2. IsFiniteSet(0 .. c - 1)
  BY <1>1, FS_Interval
<1>3. IsFiniteSet(S)
  BY <1>2, FS_Subset
<1>4. S \in SUBSET Nat /\ S \subseteq 0 .. IndexSpace - 1
  BY <1>1
<1>5. Seq(S) \subseteq Seq(0 .. IndexSpace - 1)
  BY <1>4, SeqMonotonic
<1>6. Ascending(S) \in Seq(S) /\ IsInjective(Ascending(S)) /\ Range(Ascending(S)) = S
  BY <1>3, <1>4, AscendingEnumerates
<1>7. Descending(S) \in Seq(S) /\ IsInjective(Descending(S)) /\ Range(Descending(S)) = S
  BY <1>3, <1>4, DescendingEnumerates
<1> QED BY <1>5, <1>6, <1>7

(* Taking the first hole removes it, and only it, from the list. *)
LEMMA TailOfInjective ==
  ASSUME NEW S, NEW s \in Seq(S), s # <<>>, IsInjective(s)
  PROVE  /\ Tail(s) \in Seq(S) /\ IsInjective(Tail(s))
         /\ Head(s) \in Range(s) /\ Range(Tail(s)) = Range(s) \ {Head(s)}
<1>1. /\ Tail(s) \in Seq(S) /\ Len(Tail(s)) = Len(s) - 1 /\ Len(s) \in Nat \ {0}
      /\ \A i \in 1 .. Len(s) - 1 : Tail(s)[i] = s[i + 1]
      /\ DOMAIN Tail(s) = 1 .. Len(s) - 1 /\ DOMAIN s = 1 .. Len(s)
  BY HeadTailProperties, EmptySeq, LenProperties
<1>2. Head(s) = s[1]
  OBVIOUS
<1>3. IsInjective(Tail(s))
  BY <1>1 DEF IsInjective
<1>4. Head(s) \in Range(s)
  BY <1>1, <1>2 DEF Range
<1>5. \A y : y \in Range(Tail(s)) <=> y \in Range(s) /\ y # s[1]
  <2> SUFFICES ASSUME NEW y
               PROVE  y \in Range(Tail(s)) <=> y \in Range(s) /\ y # s[1]
    OBVIOUS
  <2>1. ASSUME y \in Range(Tail(s)) PROVE y \in Range(s) /\ y # s[1]
    <3>1. PICK i \in 1 .. Len(s) - 1 : y = Tail(s)[i]
      BY <2>1, <1>1 DEF Range
    <3>2. y = s[i + 1] /\ i + 1 \in DOMAIN s /\ i + 1 # 1 /\ 1 \in DOMAIN s
      BY <3>1, <1>1
    <3> QED BY <3>2 DEF Range, IsInjective
  <2>2. ASSUME y \in Range(s), y # s[1] PROVE y \in Range(Tail(s))
    <3>1. PICK i \in 1 .. Len(s) : y = s[i]
      BY <2>2, <1>1 DEF Range
    <3>2. i - 1 \in DOMAIN Tail(s) /\ Tail(s)[i - 1] = y
      BY <3>1, <2>2, <1>1
    <3> QED BY <3>2 DEF Range
  <2> QED BY <2>1, <2>2
<1> QED BY <1>1, <1>2, <1>3, <1>4, <1>5

(* Pushing a slot that is not on the list keeps the list free of           *)
(* repetitions.                                                            *)
LEMMA PushOnInjective ==
  ASSUME NEW S, NEW s \in Seq(S), IsInjective(s), NEW x \in S, x \notin Range(s)
  PROVE  /\ <<x>> \o s \in Seq(S) /\ IsInjective(<<x>> \o s)
         /\ Range(<<x>> \o s) = Range(s) \cup {x}
<1> DEFINE t == <<x>> \o s
<1>1. <<x>> \in Seq(S) /\ Len(<<x>>) = 1 /\ <<x>>[1] = x
  OBVIOUS
<1>2. /\ t \in Seq(S) /\ Len(t) = 1 + Len(s) /\ Len(s) \in Nat
      /\ \A i \in 1 .. 1 + Len(s) : t[i] = IF i <= 1 THEN <<x>>[i] ELSE s[i - 1]
  BY <1>1, ConcatProperties, LenProperties
<1> HIDE DEF t
<1>3. DOMAIN t = 1 .. 1 + Len(s) /\ DOMAIN s = 1 .. Len(s)
  BY <1>2, LenProperties
<1>4. t[1] = x /\ \A i \in 2 .. 1 + Len(s) : t[i] = s[i - 1] /\ i - 1 \in DOMAIN s
  BY <1>1, <1>2, <1>3
<1>5. \A i \in DOMAIN s : s[i] # x
  BY DEF Range
<1>a. \A i \in DOMAIN t : i = 1 \/ i \in 2 .. 1 + Len(s)
  BY <1>2, <1>3
<1>6. IsInjective(t)
  <2> SUFFICES ASSUME NEW a \in DOMAIN t, NEW b \in DOMAIN t, t[a] = t[b]
               PROVE  a = b
    BY DEF IsInjective
  <2>1. CASE a = 1 \/ b = 1
    BY <2>1, <1>a, <1>4, <1>5
  <2>2. CASE a # 1 /\ b # 1
    <3>1. s[a - 1] = s[b - 1] /\ a - 1 \in DOMAIN s /\ b - 1 \in DOMAIN s
      BY <2>2, <1>a, <1>4
    <3>2. a - 1 = b - 1 /\ a \in Int /\ b \in Int
      BY <3>1, <1>3 DEF IsInjective
    <3> QED BY <3>2
  <2> QED BY <2>1, <2>2
<1>7. \A y : y \in Range(t) <=> y \in Range(s) \/ y = x
  <2>1. \A i \in DOMAIN s : i + 1 \in DOMAIN t /\ t[i + 1] = s[i]
    BY <1>2, <1>3, <1>4
  <2>2. 1 \in DOMAIN t
    BY <1>2, <1>3
  <2>3. \A i \in DOMAIN t : t[i] = x \/ \E j \in DOMAIN s : t[i] = s[j]
    BY <1>a, <1>4
  <2> QED BY <2>1, <2>2, <2>3, <1>4 DEF Range
<1>8. Range(t) = Range(s) \cup {x}
  BY <1>7
<1> QED BY <1>2, <1>6, <1>8 DEF t

(* The index type: doubling a capacity gives the next one, or zero. *)
LEMMA DoubledCapacity ==
  ASSUME capacity \in Capacities, Doubled # 0
  PROVE  Doubled = 2 * capacity /\ Doubled \in Capacities
<1>1. 2 * capacity = IndexSpace \/ 2 * capacity \in Capacities
  BY IndexSpaceAssumption
<1>2. IndexSpace \in Nat /\ IndexSpace > 0 /\ capacity \in Nat
  BY IndexSpaceAssumption DEF Capacities
<1>3. CASE 2 * capacity = IndexSpace
  <2>1. IndexSpace % IndexSpace = 0
    BY <1>2
  <2> QED BY <1>3, <2>1 DEF Doubled
<1>4. CASE 2 * capacity \in Capacities
  <2>1. 2 * capacity \in 0 .. IndexSpace - 1
    BY <1>4, <1>2 DEF Capacities
  <2>2. \A m \in 0 .. IndexSpace - 1 : m % IndexSpace = m
    BY <1>2
  <2> QED BY <2>1, <2>2, <1>4 DEF Doubled
<1> QED BY <1>1, <1>3, <1>4

(***************************************************************************)
(* The invariant.                                                          *)
(***************************************************************************)
LEMMA InitInvariant == Init => IInv
<1> SUFFICES ASSUME Init PROVE IInv
  OBVIOUS
<1> USE DEF Init, NoArray
<1>1. capacity \in Capacities \cup {0} /\ capacity \in Nat
  BY IndexSpaceAssumption
<1>2. TypeOK
  <2>1. 0 \in 0 .. IndexSpace - 1
    BY IndexSpaceAssumption DEF Capacities
  <2>2. holes \in Seq(0 .. IndexSpace - 1)
    <3> DEFINE D == 0 .. IndexSpace - 1
    <3>1. 0 \in D
      BY <2>1
    <3> HIDE DEF D
    <3>2. <<0>> \in Seq(D) /\ <<>> \in Seq(D)
      BY <3>1
    <3> QED BY <3>2 DEF D
  <2>3. DOMAIN data \subseteq 0 .. capacity - 1
    OBVIOUS
  <2>4. data \in [DOMAIN data -> Entry \cup {NULL}]
    <3>1. CASE data = [i \in {0} |-> NULL]
      BY <3>1
    <3>2. CASE data = [i \in {} |-> NULL]
      BY <3>2
    <3> QED BY <3>1, <3>2
  <2>5. /\ status \in {"ok", "failed"} /\ errors = {} /\ pinned = {}
        /\ holeSearch = 0 /\ objectSearch = 0
    OBVIOUS
  <2> QED BY <1>1, <2>2, <2>3, <2>4, <2>5 DEF TypeOK
<1>3. /\ ArrayMatchesCapacity /\ RangesSane /\ CursorsSkipPinned /\ CompactionPacks
      /\ NoHolesWhileLoading
  BY IndexSpaceAssumption
  DEF ArrayMatchesCapacity, RangesSane, RangesSaneAlways,
      CursorsSkipPinned, CompactionPacks, NoHolesWhileLoading
<1>4. Live = {} /\ (status = "ok" => Free = {0} /\ holes = <<0>>)
  BY DEF Live, Free
<1>5. OneSlotEach
  BY <1>4 DEF OneSlotEach
<1>6. HolesAreEmptySlots /\ NoSlotLeaked
  BY <1>4 DEF HolesAreEmptySlots, NoSlotLeaked, Range, IsInjective
<1> QED BY <1>2, <1>3, <1>5, <1>6 DEF IInv

LEMMA AddToHoleInvariant ==
  ASSUME IInv, NEW e \in Entry, AddToHole(e)
  PROVE  IInv'
<1> USE DEF IInv, AddToHole, shrinkVars
<1>1. Head(holes) \in Range(holes) /\ Range(holes) \subseteq Free /\ Tail(holes) \in Seq(0 .. IndexSpace - 1)
      /\ IsInjective(Tail(holes)) /\ Range(Tail(holes)) = Range(holes) \ {Head(holes)}
  BY TailOfInjective DEF HolesAreEmptySlots, TypeOK
<1>2. DOMAIN data' = DOMAIN data /\ Head(holes) \in DOMAIN data
  BY <1>1 DEF Free
<1>3. Free' = Free \ {Head(holes)} /\ Live' = Live \cup {Head(holes)} /\ Head(holes) \notin Live
  BY <1>1, <1>2, NullAssumption DEF Free, Live
<1>4. TypeOK'
  BY <1>1, <1>2 DEF TypeOK
<1>5. HolesAreEmptySlots' /\ NoSlotLeaked'
  BY <1>1, <1>3 DEF HolesAreEmptySlots, NoSlotLeaked
<1>6. OneSlotEach'
  BY <1>2, <1>3 DEF OneSlotEach, Present, Live
<1>7. /\ ArrayMatchesCapacity' /\ RangesSane' /\ CursorsSkipPinned' /\ CompactionPacks'
      /\ NoHolesWhileLoading'
  BY <1>2 DEF ArrayMatchesCapacity, RangesSane, RangesSaneAlways,
              CursorsSkipPinned, CompactionPacks, NoHolesWhileLoading
<1> QED BY <1>4, <1>5, <1>6, <1>7

(* What growing the array does to its free and live slots. *)
LEMMA GrownSlots ==
  ASSUME IInv, status = "ok", Doubled # 0
  PROVE  /\ Doubled \in Capacities /\ Doubled = 2 * capacity /\ capacity \in 1 .. Doubled - 1
         /\ Doubled - 1 < IndexSpace
         /\ DOMAIN data = 0 .. capacity - 1
         /\ Grown \in [0 .. Doubled - 1 -> Entry \cup {NULL}]
         /\ \A i \in 0 .. Doubled - 1 : Grown[i] = IF i < capacity THEN data[i] ELSE NULL
<1>1. capacity \in Capacities /\ DOMAIN data = 0 .. capacity - 1
  BY DEF IInv, ArrayMatchesCapacity
<1>2. Doubled \in Capacities /\ Doubled = 2 * capacity
  BY <1>1, DoubledCapacity
<1>3. capacity \in Nat /\ capacity >= 1 /\ Doubled < IndexSpace /\ Doubled \in Nat
  BY <1>1, <1>2, IndexSpaceAssumption DEF Capacities
<1>4. \A i \in 0 .. Doubled - 1 : i < capacity => i \in DOMAIN data
  BY <1>1, <1>3
<1>5. Grown \in [0 .. Doubled - 1 -> Entry \cup {NULL}]
  BY <1>4 DEF Grown, IInv, TypeOK
<1>6. \A i \in 0 .. Doubled - 1 : Grown[i] = IF i < capacity THEN data[i] ELSE NULL
  BY DEF Grown
<1>7. capacity \in 1 .. Doubled - 1 /\ Doubled - 1 < IndexSpace
  BY <1>2, <1>3, IndexSpaceAssumption
<1> HIDE DEF Doubled, Grown
<1> QED BY <1>1, <1>2, <1>5, <1>6, <1>7

LEMMA AddAndGrowInvariant ==
  ASSUME IInv, NEW e \in Entry, AddAndGrow(e)
  PROVE  IInv'
<1> USE DEF IInv, AddAndGrow, NewHoles, shrinkVars
<1> DEFINE new == capacity + 1 .. Doubled - 1
<1>1. /\ Doubled \in Capacities /\ Doubled = 2 * capacity /\ capacity \in 1 .. Doubled - 1
      /\ Doubled - 1 < IndexSpace /\ Doubled \in Nat /\ IndexSpace \in Nat
      /\ DOMAIN data = 0 .. capacity - 1
      /\ Grown \in [0 .. Doubled - 1 -> Entry \cup {NULL}]
      /\ \A i \in 0 .. Doubled - 1 : Grown[i] = IF i < capacity THEN data[i] ELSE NULL
  BY GrownSlots, IndexSpaceAssumption DEF Capacities
<1>2. /\ Ascending(new) \in Seq(0 .. IndexSpace - 1)
      /\ IsInjective(Ascending(new)) /\ Range(Ascending(new)) = new
  <2>1. new \subseteq 0 .. Doubled - 1
    BY <1>1
  <2> HIDE DEF new
  <2> QED BY <1>1, <2>1, HoleLists
<1>3. holes' \in Seq(0 .. IndexSpace - 1)
  BY <1>2
<1>4. /\ DOMAIN data' = 0 .. Doubled - 1
      /\ data' \in [0 .. Doubled - 1 -> Entry \cup {NULL}]
      /\ data'[capacity] = e
      /\ \A i \in 0 .. Doubled - 1 : i # capacity => data'[i] = Grown[i]
  BY <1>1
<1>5. Live' = Live \cup {capacity} /\ Free' = Free \cup new
  BY <1>1, <1>4, NullAssumption DEF Live, Free
<1>6. TypeOK'
  BY <1>1, <1>3, <1>4 DEF TypeOK
<1>7. HolesAreEmptySlots'
  BY <1>2, <1>5 DEF HolesAreEmptySlots
<1>8. NoSlotLeaked'
  <2>1. Range(holes) = {}
    BY DEF Range
  <2> QED BY <1>2, <1>5, <2>1 DEF NoSlotLeaked
<1>9. OneSlotEach'
  <2>1. \A i \in Live : data'[i] = data[i] /\ data[i] # e /\ i # capacity
    BY <1>1, <1>4 DEF Live, Present
  <2> QED BY <1>4, <1>5, <2>1 DEF OneSlotEach
<1>10. /\ ArrayMatchesCapacity' /\ RangesSane' /\ CursorsSkipPinned' /\ CompactionPacks'
      /\ NoHolesWhileLoading'
  BY <1>1, <1>4 DEF ArrayMatchesCapacity, RangesSane, RangesSaneAlways,
                    CursorsSkipPinned, CompactionPacks, NoHolesWhileLoading
<1> QED BY <1>6, <1>7, <1>8, <1>9, <1>10

LEMMA AddHoleFailsInvariant ==
  ASSUME IInv, NEW n, AddHoleFails(n)
  PROVE  IInv'
<1> USE DEF IInv, AddHoleFails, shrinkVars
<1> DEFINE new == n + 1 .. Doubled - 1
<1>1. /\ Doubled \in Capacities /\ Doubled = 2 * capacity /\ capacity \in 1 .. Doubled - 1
      /\ Doubled - 1 < IndexSpace /\ Doubled \in Nat /\ IndexSpace \in Nat
      /\ DOMAIN data = 0 .. capacity - 1
      /\ Grown \in [0 .. Doubled - 1 -> Entry \cup {NULL}]
      /\ \A i \in 0 .. Doubled - 1 : Grown[i] = IF i < capacity THEN data[i] ELSE NULL
  BY GrownSlots, IndexSpaceAssumption DEF Capacities
<1>2. Ascending(new) \in Seq(0 .. IndexSpace - 1)
  <2>1. new \subseteq 0 .. Doubled - 1
    BY <1>1
  <2> HIDE DEF new
  <2> QED BY <1>1, <2>1, HoleLists
<1>3. holes' \in Seq(0 .. IndexSpace - 1)
  BY <1>2
<1>4. DOMAIN data' = 0 .. Doubled - 1
  BY <1>1
<1>5. Live' = Live /\ \A i \in Live : data'[i] = data[i]
  BY <1>1, <1>4 DEF Live
<1>6. TypeOK'
  BY <1>1, <1>3, <1>4 DEF TypeOK
<1>7. OneSlotEach'
  BY <1>5 DEF OneSlotEach
<1>8. /\ ArrayMatchesCapacity' /\ RangesSane' /\ CursorsSkipPinned' /\ CompactionPacks'
      /\ NoHolesWhileLoading'
      /\ HolesAreEmptySlots' /\ NoSlotLeaked'
  BY <1>4 DEF ArrayMatchesCapacity, RangesSane, RangesSaneAlways,
              CursorsSkipPinned, CompactionPacks,
              HolesAreEmptySlots, NoSlotLeaked, NoHolesWhileLoading
<1> QED BY <1>6, <1>7, <1>8

LEMMA EraseEntryInvariant ==
  ASSUME IInv, NEW i, EraseEntry(i)
  PROVE  IInv'
<1> USE DEF IInv, EraseEntry, shrinkVars
<1>1. i \in DOMAIN data /\ DOMAIN data' = DOMAIN data /\ i \in 0 .. IndexSpace - 1
  BY IndexSpaceAssumption DEF Live, TypeOK, Capacities
<1>2. /\ Live' = Live \ {i} /\ Free' = Free \cup {i} /\ i \notin Free
      /\ \A j \in Live' : data'[j] = data[j]
  BY <1>1 DEF Live, Free
<1>3. /\ <<i>> \o holes \in Seq(0 .. IndexSpace - 1) /\ IsInjective(<<i>> \o holes)
      /\ Range(<<i>> \o holes) = Range(holes) \cup {i}
  <2>1. holes \in Seq(0 .. IndexSpace - 1) /\ IsInjective(holes) /\ i \notin Range(holes)
    BY <1>2 DEF HolesAreEmptySlots, TypeOK
  <2> HIDE DEF IInv, EraseEntry
  <2> DEFINE D == 0 .. IndexSpace - 1
  <2>2. holes \in Seq(D) /\ i \in D
    BY <1>1, <2>1
  <2> HIDE DEF D
  <2>3. <<i>> \o holes \in Seq(D) /\ IsInjective(<<i>> \o holes)
    BY <2>1, <2>2, PushOnInjective
  <2>4. Range(<<i>> \o holes) = Range(holes) \cup {i}
    BY <2>1, <2>2, PushOnInjective
  <2> QED BY <2>3, <2>4 DEF D
<1>4. TypeOK'
  BY <1>1, <1>3 DEF TypeOK
<1>5. HolesAreEmptySlots' /\ NoSlotLeaked'
  BY <1>2, <1>3 DEF HolesAreEmptySlots, NoSlotLeaked
<1>6. OneSlotEach'
  BY <1>2 DEF OneSlotEach
<1>7. /\ ArrayMatchesCapacity' /\ RangesSane' /\ CursorsSkipPinned' /\ CompactionPacks'
      /\ NoHolesWhileLoading'
  BY <1>1 DEF ArrayMatchesCapacity, RangesSane, RangesSaneAlways,
              CursorsSkipPinned, CompactionPacks, NoHolesWhileLoading
<1> QED BY <1>4, <1>5, <1>6, <1>7

(* The steps that leave the array and the holes alone. *)
LEMMA SameArrayInvariant ==
  ASSUME IInv, UNCHANGED <<data, capacity, holes, shrinkVars>>,
         \/ status' = status
         \/ status \in {"ok", "compacting"} /\ status' = "failed",
         errors' \in {errors, errors \cup {"exhausted"}}
  PROVE  IInv'
<1> USE DEF IInv, shrinkVars
<1>1. Live' = Live /\ Free' = Free
  BY DEF Live, Free
<1>2. TypeOK'
  BY DEF TypeOK
<1>3. /\ ArrayMatchesCapacity' /\ RangesSane' /\ CursorsSkipPinned' /\ CompactionPacks'
      /\ NoHolesWhileLoading' /\ OneSlotEach'
  BY <1>1 DEF ArrayMatchesCapacity, RangesSane, RangesSaneAlways,
              CursorsSkipPinned, CompactionPacks,
              NoHolesWhileLoading, OneSlotEach
<1>4. HolesAreEmptySlots' /\ NoSlotLeaked'
  BY <1>1 DEF HolesAreEmptySlots, NoSlotLeaked
<1> QED BY <1>2, <1>3, <1>4

LEMMA ShrinkBeginInvariant ==
  ASSUME IInv, NEW P, ShrinkBegin(P)
  PROVE  IInv'
<1> USE DEF IInv, ShrinkBegin
<1>1. Live' = Live /\ Free' = Free /\ Present \subseteq Entry
  BY NullAssumption DEF Live, Free, Present, TypeOK
<1>2. holeSearch = 0 /\ objectSearch = 0 /\ \A i \in DOMAIN data : i >= 0 /\ i \in Nat
  BY DEF CursorsSkipPinned, TypeOK
<1>3. TypeOK'
  BY <1>1 DEF TypeOK
<1>4. CursorsSkipPinned' /\ CompactionPacks'
  BY <1>1, <1>2 DEF CursorsSkipPinned, CompactionPacks, Live, Free
<1>5. /\ ArrayMatchesCapacity' /\ RangesSane' /\ NoHolesWhileLoading' /\ OneSlotEach'
      /\ HolesAreEmptySlots' /\ NoSlotLeaked'
  BY <1>1 DEF ArrayMatchesCapacity, RangesSane, RangesSaneAlways,
              NoHolesWhileLoading, OneSlotEach,
              HolesAreEmptySlots, NoSlotLeaked
<1> QED BY <1>3, <1>4, <1>5

LEMMA SkipOccupiedInvariant ==
  ASSUME IInv, SkipOccupied
  PROVE  IInv'
<1> USE DEF IInv, SkipOccupied
<1>1. Live' = Live /\ Free' = Free /\ \A i \in Free : i \in Nat /\ i # holeSearch
  BY DEF Live, Free, TypeOK
<1>2. TypeOK'
  BY DEF TypeOK
<1>3. holeSearch \in Nat /\ objectSearch \in Nat /\ \A i \in Live : i \in Nat
  BY DEF TypeOK, Live
<1>4. CursorsSkipPinned' /\ CompactionPacks'
  <2>1. \A f \in Free : f < holeSearch + 1 => f < holeSearch
    BY <1>1, <1>3
  <2>2. \A j \in Live : holeSearch + 1 <= j => holeSearch <= j
    BY <1>3
  <2>3. CompactionPacks'
    BY <2>1, <1>1 DEF CompactionPacks
  <2>4. CursorsSkipPinned'
    BY <2>2, <1>1 DEF CursorsSkipPinned
  <2> QED BY <2>3, <2>4
<1>5. /\ ArrayMatchesCapacity' /\ RangesSane' /\ NoHolesWhileLoading' /\ OneSlotEach'
      /\ HolesAreEmptySlots' /\ NoSlotLeaked'
  BY <1>1 DEF ArrayMatchesCapacity, RangesSane, RangesSaneAlways,
              NoHolesWhileLoading, OneSlotEach,
              HolesAreEmptySlots, NoSlotLeaked
<1> QED BY <1>2, <1>4, <1>5

(* What lies between the hole search and the object search is pinned, so   *)
(* the movable entries are all the entries above the hole that may move.   *)
LEMMA MovableAbove ==
  ASSUME IInv, status = "compacting", holeSearch \in Free
  PROVE  \A j \in Live : j > holeSearch => j \in Movable \/ data[j] \in pinned
<1>1. holeSearch \in Nat /\ objectSearch \in Nat /\ \A i \in Live : i \in Nat
  BY DEF IInv, TypeOK, Live
<1>2. \A j \in Live : holeSearch <= j /\ j < objectSearch => data[j] \in pinned
  BY DEF IInv, CursorsSkipPinned
<1> QED BY <1>1, <1>2 DEF Movable, SearchFrom

LEMMA MoveIntoHoleInvariant ==
  ASSUME IInv, MoveIntoHole
  PROVE  IInv'
<1>1. PICK i \in Movable :
        /\ \A j \in Movable : i <= j
        /\ data' = [data EXCEPT ![holeSearch] = data[i], ![i] = NULL]
        /\ objectSearch' = i
  BY DEF MoveIntoHole, Moved
<1>2. /\ status = "compacting" /\ holeSearch \in Free /\ holeSearch' = holeSearch + 1
      /\ UNCHANGED <<capacity, holes, status, errors, pinned>>
  BY DEF MoveIntoHole
<1>3. /\ holeSearch \in Nat /\ objectSearch \in Nat /\ i \in Nat /\ i \in Live
      /\ data[i] \notin pinned /\ \A j \in Live : j \in Nat
      /\ \A j \in Free : j \in Nat
  BY <1>1 DEF IInv, TypeOK, Live, Free, Movable
<1>4. i > holeSearch
  <2>1. i # holeSearch
    BY <1>2, <1>3 DEF Live, Free
  <2>2. i >= SearchFrom
    BY <1>1 DEF Movable
  <2> QED BY <1>3, <2>1, <2>2 DEF SearchFrom
<1>5. /\ DOMAIN data' = DOMAIN data /\ i \in DOMAIN data /\ holeSearch \in DOMAIN data
      /\ data'[i] = NULL /\ data'[holeSearch] = data[i] /\ data[i] # NULL
      /\ data[holeSearch] = NULL
      /\ \A j \in DOMAIN data : j # i /\ j # holeSearch => data'[j] = data[j]
  BY <1>1, <1>2, <1>3, <1>4 DEF Live, Free
<1>6. /\ Live' = (Live \ {i}) \cup {holeSearch}
      /\ Free' = (Free \ {holeSearch}) \cup {i}
  BY <1>5 DEF Live, Free
<1>7. TypeOK'
  <2>1. data' \in [DOMAIN data -> Entry \cup {NULL}]
    BY <1>1, <1>5 DEF IInv, TypeOK
  <2> QED BY <1>1, <1>2, <1>3, <1>5, <2>1 DEF IInv, TypeOK
<1>8. OneSlotEach'
  <2>1. \A j \in Live' : j = holeSearch \/ (j \in Live /\ j # i /\ j # holeSearch /\ data'[j] = data[j])
    BY <1>5, <1>6 DEF Live
  <2> QED BY <1>3, <1>5, <2>1 DEF IInv, OneSlotEach
<1>9. CompactionPacks'
  <2>1. \A f \in Free : ~ (f < holeSearch)
    BY <1>2, <1>3, <1>4 DEF IInv, CompactionPacks
  <2>2. \A f \in Free' : ~ (f < holeSearch')
    BY <2>1, <1>2, <1>3, <1>4, <1>6
  <2> QED BY <2>2 DEF CompactionPacks
<1>10. CursorsSkipPinned'
  <2>1. \A j \in Live : j > holeSearch /\ j < i => data[j] \in pinned
    <3> SUFFICES ASSUME NEW j \in Live, j > holeSearch, j < i
                 PROVE  data[j] \in pinned
      OBVIOUS
    <3>1. j \notin Movable
      BY <1>1, <1>3
    <3> QED BY <3>1, <1>2, MovableAbove
  <2>2. \A j \in Live' : holeSearch' <= j /\ j < objectSearch' => data'[j] \in pinned'
    <3> SUFFICES ASSUME NEW j \in Live', holeSearch + 1 <= j, j < i
                 PROVE  data'[j] \in pinned
      BY <1>1, <1>2
    <3>1. j # i /\ j # holeSearch /\ j \in Live /\ j \in Nat
      BY <1>3, <1>6
    <3>2. j > holeSearch /\ data'[j] = data[j]
      BY <3>1, <1>3, <1>5 DEF Live
    <3> QED BY <2>1, <3>1, <3>2
  <2> QED BY <2>2, <1>2 DEF CursorsSkipPinned
<1>11. /\ ArrayMatchesCapacity' /\ RangesSane' /\ NoHolesWhileLoading'
       /\ HolesAreEmptySlots' /\ NoSlotLeaked'
  BY <1>2, <1>5 DEF IInv, ArrayMatchesCapacity, RangesSane, RangesSaneAlways,
                          NoHolesWhileLoading,
                    HolesAreEmptySlots, NoSlotLeaked
<1> QED BY <1>7, <1>8, <1>9, <1>10, <1>11 DEF IInv

LEMMA NothingToMoveInvariant ==
  ASSUME IInv, NothingToMove
  PROVE  IInv'
<1>1. /\ status = "compacting" /\ holeSearch \in Free /\ Movable = {}
      /\ holeSearch' = holeSearch + 1 /\ objectSearch' \in {capacity, SearchFrom}
      /\ UNCHANGED <<data, capacity, holes, status, errors, pinned>>
  BY DEF NothingToMove
<1>2. /\ holeSearch \in Nat /\ objectSearch \in Nat /\ capacity \in Nat
      /\ \A j \in Live : j \in Nat
      /\ \A j \in Free : j \in Nat
  BY DEF IInv, TypeOK, Live, Free, Capacities
<1>3. Live' = Live /\ Free' = Free
  BY <1>1 DEF Live, Free
<1>4. \A j \in Live : j > holeSearch => data[j] \in pinned
  BY <1>1, MovableAbove
<1>5. TypeOK'
  <2>1. SearchFrom \in Nat
    BY <1>2 DEF SearchFrom
  <2> QED BY <1>1, <1>2, <2>1 DEF IInv, TypeOK
<1>6. CompactionPacks'
  <2>1. \A f \in Free : f < holeSearch + 1 => f < holeSearch \/ f = holeSearch
    BY <1>2
  <2> QED BY <2>1, <1>1, <1>3, <1>4 DEF IInv, CompactionPacks
<1>7. CursorsSkipPinned'
  <2>1. \A j \in Live : holeSearch + 1 <= j => j > holeSearch
    BY <1>2
  <2> QED BY <2>1, <1>1, <1>3, <1>4 DEF CursorsSkipPinned
<1>8. /\ ArrayMatchesCapacity' /\ RangesSane' /\ NoHolesWhileLoading' /\ OneSlotEach'
      /\ HolesAreEmptySlots' /\ NoSlotLeaked'
  BY <1>1, <1>3 DEF IInv, ArrayMatchesCapacity, RangesSane, RangesSaneAlways,
                          NoHolesWhileLoading, OneSlotEach,
                    HolesAreEmptySlots, NoSlotLeaked
<1> QED BY <1>5, <1>6, <1>7, <1>8 DEF IInv

(* Cutting the array to a capacity above every live index keeps them all.  *)
LEMMA ShrunkSlots ==
  ASSUME IInv, status = "compacting", NEW c \in Capacities, ShrinksTo(c),
         data' = Shrunk(c), capacity' = c
  PROVE  /\ DOMAIN data' = 0 .. c - 1
         /\ data' \in [DOMAIN data' -> Entry \cup {NULL}]
         /\ Live' = Live /\ Free' = {i \in Free : i < c}
         /\ \A i \in Live : data'[i] = data[i]
         /\ Free' \subseteq 0 .. c - 1
<1>1. DOMAIN data = 0 .. capacity - 1 /\ capacity \in Nat /\ c \in Nat /\ c <= capacity
  BY DEF IInv, ArrayMatchesCapacity, Capacities, ShrinksTo
<1>2. DOMAIN data' = 0 .. c - 1 /\ \A i \in 0 .. c - 1 : data'[i] = data[i] /\ i \in DOMAIN data
  BY <1>1 DEF Shrunk
<1>3. \A i \in DOMAIN data : i < c => i \in DOMAIN data'
  BY <1>1, <1>2
<1>4. \A i \in DOMAIN data' : i < c
  BY <1>1, <1>2
<1>5. \A i \in Live : i < c
  BY DEF ShrinksTo
<1>6. Live' = Live
  BY <1>2, <1>3, <1>4, <1>5 DEF Live
<1>7. Free' = {i \in Free : i < c}
  BY <1>2, <1>3, <1>4 DEF Free
<1>8. data' \in [DOMAIN data' -> Entry \cup {NULL}]
  BY <1>2 DEF IInv, TypeOK, Shrunk
<1>9. \A i \in Live : data'[i] = data[i]
  BY <1>2, <1>6 DEF Live
<1>10. Free' \subseteq 0 .. c - 1
  BY <1>2 DEF Free
<1> QED BY <1>2, <1>6, <1>7, <1>8, <1>9, <1>10

LEMMA TableShrinkInvariant ==
  ASSUME IInv, NEW c \in Capacities, TableShrink(c)
  PROVE  IInv'
<1> DEFINE free == {i \in Free : i < c}
<1>1. /\ status = "compacting" /\ ShrinksTo(c) /\ capacity' = c /\ data' = Shrunk(c)
      /\ holes' = Ascending(free) /\ status' = "ok"
      /\ holeSearch' = 0 /\ objectSearch' = 0 /\ pinned' = {} /\ errors' = errors
  BY DEF TableShrink
<1>2. /\ DOMAIN data' = 0 .. c - 1
      /\ data' \in [DOMAIN data' -> Entry \cup {NULL}]
      /\ Live' = Live /\ Free' = free
      /\ \A i \in Live : data'[i] = data[i]
      /\ free \subseteq 0 .. c - 1
  BY <1>1, ShrunkSlots
<1> HIDE DEF free
<1>3. /\ holes' \in Seq(0 .. IndexSpace - 1) /\ IsInjective(holes') /\ Range(holes') = free
  BY <1>1, <1>2, HoleLists
<1>4. TypeOK'
  BY <1>1, <1>2, <1>3 DEF IInv, TypeOK
<1>5. HolesAreEmptySlots' /\ NoSlotLeaked'
  BY <1>2, <1>3 DEF HolesAreEmptySlots, NoSlotLeaked
<1>6. OneSlotEach'
  BY <1>2 DEF IInv, OneSlotEach
<1>7. /\ ArrayMatchesCapacity' /\ RangesSane' /\ NoHolesWhileLoading'
      /\ CursorsSkipPinned' /\ CompactionPacks'
  BY <1>1, <1>2 DEF ArrayMatchesCapacity, RangesSane, RangesSaneAlways, NoHolesWhileLoading,
                    CursorsSkipPinned, CompactionPacks
<1> QED BY <1>4, <1>5, <1>6, <1>7 DEF IInv

LEMMA ShrinkHoleFailsInvariant ==
  ASSUME IInv, NEW c \in Capacities, NEW n, ShrinkHoleFails(c, n)
  PROVE  IInv'
<1> DEFINE free == {i \in Free : n < i /\ i < c}
<1>1. /\ status = "compacting" /\ ShrinksTo(c) /\ capacity' = c /\ data' = Shrunk(c)
      /\ holes' = Ascending(free) /\ status' = "failed"
      /\ UNCHANGED <<errors, holeSearch, objectSearch, pinned>>
  BY DEF ShrinkHoleFails, shrinkVars
<1>2. /\ DOMAIN data' = 0 .. c - 1
      /\ data' \in [DOMAIN data' -> Entry \cup {NULL}]
      /\ Live' = Live /\ Free' = {i \in Free : i < c}
      /\ \A i \in Live : data'[i] = data[i]
      /\ Free' \subseteq 0 .. c - 1
  BY <1>1, ShrunkSlots
<1>3. free \subseteq 0 .. c - 1
  BY <1>2
<1> HIDE DEF free
<1>4. holes' \in Seq(0 .. IndexSpace - 1)
  BY <1>1, <1>3, HoleLists
<1>5. TypeOK'
  BY <1>1, <1>2, <1>4 DEF IInv, TypeOK
<1>6. OneSlotEach'
  BY <1>2 DEF IInv, OneSlotEach
<1>7. /\ ArrayMatchesCapacity' /\ RangesSane' /\ NoHolesWhileLoading'
      /\ CursorsSkipPinned' /\ CompactionPacks' /\ HolesAreEmptySlots' /\ NoSlotLeaked'
  BY <1>1, <1>2 DEF ArrayMatchesCapacity, RangesSane, RangesSaneAlways, NoHolesWhileLoading,
                    CursorsSkipPinned, CompactionPacks, HolesAreEmptySlots, NoSlotLeaked
<1> QED BY <1>5, <1>6, <1>7 DEF IInv

(* An array with nothing in it: after LoadBegin, LoadBeginFails, Destroy.  *)
LEMMA EmptyArrayInvariant ==
  ASSUME IInv, NEW c \in Nat, data' = [i \in 0 .. c - 1 |-> NULL],
         \/ c = 0 /\ capacity' = 0 /\ status' = "dead" /\ holes' = <<>>
         \/ c = 0 /\ capacity' \in Capacities \cup {capacity} /\ status' = "lost"
            /\ holes' \in {holes, <<>>}
         \/ c \in Capacities /\ capacity' = c /\ status' = "loading" /\ holes' = <<>>,
         UNCHANGED <<errors, shrinkVars>>, holeSearch = 0 /\ objectSearch = 0
  PROVE  IInv'
<1> USE DEF IInv, shrinkVars
<1>1. DOMAIN data' = 0 .. c - 1 /\ (c = 0 => DOMAIN data' = {})
  OBVIOUS
<1>2. Live' = {}
  BY DEF Live
<1>3. DOMAIN data' \subseteq 0 .. capacity' - 1 /\ capacity' \in Capacities \cup {0}
  BY <1>1 DEF TypeOK
<1>4. data' \in [DOMAIN data' -> Entry \cup {NULL}]
  BY <1>1
<1>5. holes' \in Seq(0 .. IndexSpace - 1)
  <2> DEFINE D == 0 .. IndexSpace - 1
  <2>1. holes \in Seq(D)
    BY DEF TypeOK
  <2> HIDE DEF D
  <2>2. <<>> \in Seq(D)
    OBVIOUS
  <2> QED BY <2>1, <2>2 DEF D
<1>6. TypeOK'
  BY <1>3, <1>4, <1>5 DEF TypeOK
<1>7. /\ ArrayMatchesCapacity' /\ RangesSane' /\ NoHolesWhileLoading'
      /\ HolesAreEmptySlots' /\ NoSlotLeaked'
  BY <1>1 DEF ArrayMatchesCapacity, RangesSane, RangesSaneAlways, NoHolesWhileLoading,
              HolesAreEmptySlots, NoSlotLeaked
<1>8. CursorsSkipPinned' /\ CompactionPacks' /\ OneSlotEach'
  BY <1>2 DEF CursorsSkipPinned, CompactionPacks, OneSlotEach
<1> QED BY <1>6, <1>7, <1>8

LEMMA LoadBeginInvariant ==
  ASSUME IInv, NEW c \in Capacities, LoadBegin(c)
  PROVE  IInv'
<1>1. c \in Nat /\ holeSearch = 0 /\ objectSearch = 0
  BY DEF LoadBegin, IInv, CursorsSkipPinned, Capacities
<1> QED BY <1>1, EmptyArrayInvariant DEF LoadBegin

LEMMA LoadBeginFailsInvariant ==
  ASSUME IInv, NEW c \in Capacities, LoadBeginFails(c)
  PROVE  IInv'
<1>1. holeSearch = 0 /\ objectSearch = 0
  BY DEF LoadBeginFails, IInv, CursorsSkipPinned
<1>2. data' = [i \in 0 .. 0 - 1 |-> NULL]
  <2>1. 0 .. 0 - 1 = {}
    OBVIOUS
  <2> QED BY <2>1 DEF LoadBeginFails, NoArray
<1> QED BY <1>1, <1>2, EmptyArrayInvariant DEF LoadBeginFails

LEMMA DestroyInvariant ==
  ASSUME IInv, Destroy
  PROVE  IInv'
<1>1. holeSearch = 0 /\ objectSearch = 0
  BY DEF Destroy, IInv, CursorsSkipPinned
<1>2. data' = [i \in 0 .. 0 - 1 |-> NULL]
  <2>1. 0 .. 0 - 1 = {}
    OBVIOUS
  <2> QED BY <2>1 DEF Destroy, NoArray
<1> QED BY <1>1, <1>2, EmptyArrayInvariant DEF Destroy

LEMMA LoadEntryInvariant ==
  ASSUME IInv, NEW i, NEW e \in Entry, LoadEntry(i, e)
  PROVE  IInv'
<1> USE DEF IInv, LoadEntry, shrinkVars
<1>1. DOMAIN data' = DOMAIN data /\ i \in DOMAIN data
  BY DEF Free
<1>2. Live' = Live \cup {i} /\ i \notin Live
  BY <1>1, NullAssumption DEF Free, Live
<1>3. TypeOK'
  BY <1>1 DEF TypeOK
<1>4. OneSlotEach'
  BY <1>1, <1>2 DEF OneSlotEach, Present, Live
<1>5. HolesAreEmptySlots' /\ NoSlotLeaked' /\ CompactionPacks'
  BY DEF HolesAreEmptySlots, NoSlotLeaked, CompactionPacks
<1>6. ArrayMatchesCapacity' /\ RangesSane' /\ NoHolesWhileLoading'
  BY <1>1 DEF ArrayMatchesCapacity, RangesSane, RangesSaneAlways, NoHolesWhileLoading
<1>7. CursorsSkipPinned'
  BY DEF CursorsSkipPinned
<1> QED BY <1>3, <1>4, <1>5, <1>6, <1>7

(* Loading ends, with whatever holes were made by then. *)
LEMMA LoadEndInvariant ==
  ASSUME IInv, status = "loading", status' \in {"ok", "failed"},
         UNCHANGED <<data, capacity, shrinkVars>>,
         errors' \in {errors, errors \cup {"read"}},
         NEW S \in SUBSET Free, holes' \in {holes, Descending(S)},
         status' = "ok" => \/ S = Free /\ holes' = Descending(S)
                           \/ "read" \in errors' /\ holes' = holes
  PROVE  IInv'
<1> USE DEF IInv, shrinkVars
<1>1. Live' = Live /\ Free' = Free
  BY DEF Live, Free
<1>2. capacity \in Capacities /\ S \subseteq 0 .. capacity - 1
  BY DEF ArrayMatchesCapacity, Free
<1>3. /\ Descending(S) \in Seq(0 .. IndexSpace - 1) /\ IsInjective(Descending(S))
      /\ Range(Descending(S)) = S
  BY <1>2, HoleLists
<1>4. holes = <<>> /\ IsInjective(holes) /\ Range(holes) = {}
  BY DEF NoHolesWhileLoading, IsInjective, Range
<1>5. TypeOK'
  BY <1>3 DEF TypeOK
<1>6. HolesAreEmptySlots' /\ NoSlotLeaked'
  BY <1>1, <1>3, <1>4 DEF HolesAreEmptySlots, NoSlotLeaked
<1>7. /\ ArrayMatchesCapacity' /\ RangesSane' /\ NoHolesWhileLoading' /\ OneSlotEach'
      /\ CursorsSkipPinned' /\ CompactionPacks'
  BY <1>1 DEF ArrayMatchesCapacity, RangesSane, RangesSaneAlways,
              NoHolesWhileLoading, OneSlotEach,
              CursorsSkipPinned, CompactionPacks
<1> QED BY <1>5, <1>6, <1>7

(* Every step keeps the invariant. *)
LEMMA NextInvariant == IInv /\ [Next]_vars => IInv'
<1> SUFFICES ASSUME IInv, [Next]_vars PROVE IInv'
  OBVIOUS
<1>1. CASE UNCHANGED vars
  BY <1>1, SameArrayInvariant DEF vars, shrinkVars
<1>2. ASSUME NEW e \in Entry, AddToHole(e) PROVE IInv'
  BY <1>2, AddToHoleInvariant
<1>3. ASSUME NEW e \in Entry, AddAndGrow(e) PROVE IInv'
  BY <1>3, AddAndGrowInvariant
<1>4. CASE AddReallocFails
  BY <1>4, SameArrayInvariant DEF AddReallocFails
<1>5. CASE AddExhausted
  BY <1>5, SameArrayInvariant DEF AddExhausted
<1>6. ASSUME NEW i, AddHoleFails(i) PROVE IInv'
  BY <1>6, AddHoleFailsInvariant
<1>7. ASSUME NEW i, EraseEntry(i) PROVE IInv'
  BY <1>7, EraseEntryInvariant
<1>8. ASSUME NEW P, ShrinkBegin(P) PROVE IInv'
  BY <1>8, ShrinkBeginInvariant
<1>9. CASE SkipOccupied
  BY <1>9, SkipOccupiedInvariant
<1>10. CASE MoveIntoHole
  BY <1>10, MoveIntoHoleInvariant
<1>11. CASE NothingToMove
  BY <1>11, NothingToMoveInvariant
<1>12. ASSUME NEW c \in Capacities, TableShrink(c) PROVE IInv'
  BY <1>12, TableShrinkInvariant
<1>13. CASE ShrinkReallocFails
  BY <1>13, SameArrayInvariant DEF ShrinkReallocFails
<1>14. ASSUME NEW c \in Capacities, NEW n, ShrinkHoleFails(c, n) PROVE IInv'
  BY <1>14, ShrinkHoleFailsInvariant
<1>15. ASSUME NEW c \in Capacities, LoadBegin(c) PROVE IInv'
  BY <1>15, LoadBeginInvariant
<1>16. ASSUME NEW c \in Capacities, LoadBeginFails(c) PROVE IInv'
  BY <1>16, LoadBeginFailsInvariant
<1>17. ASSUME NEW i, NEW e \in Entry, LoadEntry(i, e) PROVE IInv'
  BY <1>17, LoadEntryInvariant
<1>18. CASE LoadCutShort
  BY <1>18, LoadEndInvariant DEF LoadCutShort
<1>19. CASE LoadDone
  BY <1>19, LoadEndInvariant DEF LoadDone
<1>20. ASSUME NEW n, LoadHoleFails(n) PROVE IInv'
  <2> DEFINE S == {i \in Free : i < n}
  <2>1. S \in SUBSET Free /\ holes' = Descending(S)
    BY <1>20 DEF LoadHoleFails
  <2> HIDE DEF S
  <2> QED BY <1>20, <2>1, LoadEndInvariant DEF LoadHoleFails
<1>21. CASE Destroy
  BY <1>21, DestroyInvariant
<1> QED
  BY <1>1, <1>2, <1>3, <1>4, <1>5, <1>6, <1>7, <1>8, <1>9, <1>10, <1>11, <1>12, <1>13,
     <1>14, <1>15, <1>16, <1>17, <1>18, <1>19, <1>20, <1>21 DEF Next

(* The inductive invariant holds of every behaviour of the table. *)
THEOREM TableInvariant == Spec => []IInv
<1> QED BY InitInvariant, NextInvariant, PTL DEF Spec

(* Type correctness of the table (the state of nktable.h's NkiTable plus   *)
(* the loop variables of nkiVmShrink). *)
THEOREM TableTypeCorrect == Spec => []TypeOK
<1>1. IInv => TypeOK
  BY DEF IInv
<1> QED BY <1>1, TableInvariant, PTL

(* nkiTableAddEntry never overwrites a live entry and never finds the same *)
(* slot twice in the hole list, for any entries and any index width.       *)
THEOREM HolesAlwaysEmpty == Spec => []HolesAreEmptySlots
<1>1. IInv => HolesAreEmptySlots
  BY DEF IInv
<1> QED BY <1>1, TableInvariant, PTL

(* No empty slot is ever lost, unless a load was cut short. *)
THEOREM SlotsNeverLeak == Spec => []NoSlotLeaked
<1>1. IInv => NoSlotLeaked
  BY DEF IInv
<1> QED BY <1>1, TableInvariant, PTL

(* The claim of the comment in nkiTableAddEntry, for every allocation but  *)
(* that of the array that a load puts in the place of the old one: the     *)
(* array is as large as its recorded capacity.                             *)
THEOREM RangesStaySane == Spec => []RangesSane
<1>1. IInv => RangesSane
  BY DEF IInv
<1> QED BY <1>1, TableInvariant, PTL

(* No entry is ever in two slots, in the middle of a compaction included.  *)
THEOREM EntriesHaveOneSlot == Spec => []OneSlotEach
<1>1. IInv => OneSlotEach
  BY DEF IInv
<1> QED BY <1>1, TableInvariant, PTL

(* The two-cursor search of nkiVmShrink leaves no movable entry above an   *)
(* empty slot.                                                             *)
THEOREM CompactionLeavesNoGap == Spec => []CompactionPacks
<1>1. IInv => CompactionPacks
  BY DEF IInv
<1> QED BY <1>1, TableInvariant, PTL

(***************************************************************************)
(* The table implements the slot map.                                      *)
(***************************************************************************)
(* SlotOf is the inverse of the array, as long as no entry has two slots.  *)
LEMMA SlotOfIsInverse ==
  ASSUME OneSlotEach
  PROVE  /\ DOMAIN SlotOf = Present
         /\ \A i \in Live : data[i] \in Present /\ SlotOf[data[i]] = i
         /\ \A e \in Present : SlotOf[e] \in Live /\ data[SlotOf[e]] = e
<1>1. \A e \in Present : \E i \in Live : data[i] = e
  BY DEF Present
<1>2. \A e \in Present : SlotOf[e] \in Live /\ data[SlotOf[e]] = e
  BY <1>1 DEF SlotOf
<1>3. \A i \in Live : data[i] \in Present
  BY DEF Present
<1>4. \A i \in Live : SlotOf[data[i]] = i
  BY <1>2, <1>3 DEF OneSlotEach
<1>5. DOMAIN SlotOf = Present
  BY DEF SlotOf
<1> QED BY <1>2, <1>3, <1>4, <1>5

(* The same entries in the same slots make the same slot map. *)
LEMMA SameLiveSlots ==
  ASSUME Live' = Live, \A i \in Live : data'[i] = data[i]
  PROVE  SlotOf' = SlotOf
<1>1. Present' = Present
  BY DEF Present
<1>2. \A e \in Present : (CHOOSE i \in Live : data'[i] = e) = (CHOOSE i \in Live : data[i] = e)
  <2> SUFFICES ASSUME NEW e \in Present
               PROVE  (CHOOSE i \in Live : data'[i] = e) = (CHOOSE i \in Live : data[i] = e)
    OBVIOUS
  <2>1. \A i : (i \in Live /\ data'[i] = e) <=> (i \in Live /\ data[i] = e)
    OBVIOUS
  <2> QED BY <2>1
<1> QED BY <1>1, <1>2 DEF SlotOf

(* A function that undoes the array is its slot map. *)
LEMMA InverseIsUnique ==
  ASSUME NEW d, NEW L, \A i, j \in L : d[i] = d[j] => i = j,
         NEW g, g = [e \in {d[i] : i \in L} |-> CHOOSE i \in L : d[i] = e],
         NEW h, h = [e \in {d[i] : i \in L} |-> h[e]], \A i \in L : h[d[i]] = i
  PROVE  g = h
<1>1. \A e \in {d[i] : i \in L} : g[e] = h[e]
  <2> SUFFICES ASSUME NEW k \in L PROVE g[d[k]] = h[d[k]]
    OBVIOUS
  <2>1. g[d[k]] \in L /\ d[g[d[k]]] = d[k]
    OBVIOUS
  <2> QED BY <2>1
<1> QED BY <1>1

LEMMA AddedSlot ==
  ASSUME OneSlotEach, OneSlotEach', NEW i, NEW e, i \notin Live, e \notin Present,
         Live' = Live \cup {i}, data'[i] = e, \A j \in Live : data'[j] = data[j]
  PROVE  SlotOf' = [x \in Present \cup {e} |-> IF x = e THEN i ELSE SlotOf[x]]
<1> DEFINE h == [x \in Present \cup {e} |-> IF x = e THEN i ELSE SlotOf[x]]
<1>1. Present' = Present \cup {e}
  BY DEF Present
<1>2. \A j \in Live' : h[data'[j]] = j
  <2>1. h[data'[i]] = i
    OBVIOUS
  <2>2. \A j \in Live : data[j] \in Present /\ data[j] # e /\ SlotOf[data[j]] = j
    BY SlotOfIsInverse
  <2>3. \A j \in Live : h[data'[j]] = j
    BY <2>2
  <2> QED BY <2>1, <2>3
<1>3. h = [x \in Present' |-> h[x]]
  BY <1>1
<1> HIDE DEF h
<1>4. SlotOf' = h
  BY <1>2, <1>3, InverseIsUnique DEF SlotOf, Present, OneSlotEach
<1> QED BY <1>4 DEF h

LEMMA RemovedSlot ==
  ASSUME OneSlotEach, OneSlotEach', NEW i \in Live,
         Live' = Live \ {i}, \A j \in Live' : data'[j] = data[j]
  PROVE  SlotOf' = [x \in Present \ {data[i]} |-> SlotOf[x]]
<1> DEFINE h == [x \in Present \ {data[i]} |-> SlotOf[x]]
<1>1. Present' = Present \ {data[i]}
  <2>1. \A j \in Live : j # i => data[j] # data[i]
    BY DEF OneSlotEach
  <2> QED BY <2>1 DEF Present
<1>2. \A j \in Live' : h[data'[j]] = j
  <2>1. \A j \in Live' : data'[j] \in Present'
    BY DEF Present
  <2>2. \A j \in Live : SlotOf[data[j]] = j
    BY SlotOfIsInverse
  <2> QED BY <1>1, <2>1, <2>2
<1>3. h = [x \in Present' |-> h[x]]
  BY <1>1
<1> HIDE DEF h
<1>4. SlotOf' = h
  BY <1>2, <1>3, InverseIsUnique DEF SlotOf, Present, OneSlotEach
<1> QED BY <1>4 DEF h

LEMMA MovedSlot ==
  ASSUME OneSlotEach, OneSlotEach', NEW i \in Live, NEW k, k \notin Live,
         Live' = (Live \ {i}) \cup {k}, data'[k] = data[i],
         \A j \in Live \ {i} : data'[j] = data[j]
  PROVE  SlotOf' = [SlotOf EXCEPT ![data[i]] = k]
<1> DEFINE h == [SlotOf EXCEPT ![data[i]] = k]
<1>1. Present' = Present
  BY DEF Present
<1>2. DOMAIN SlotOf = Present /\ data[i] \in Present /\ \A j \in Live : SlotOf[data[j]] = j
  BY SlotOfIsInverse
<1>3. \A j \in Live' : h[data'[j]] = j
  <2>1. h[data'[k]] = k
    BY <1>2
  <2>2. \A j \in Live \ {i} : data[j] # data[i] /\ data[j] \in Present
    BY SlotOfIsInverse DEF OneSlotEach
  <2>3. \A j \in Live \ {i} : h[data'[j]] = j
    BY <1>2, <2>2
  <2> QED BY <2>1, <2>3
<1>4. h = [x \in Present' |-> h[x]]
  BY <1>1, <1>2
<1> HIDE DEF h
<1>5. SlotOf' = h
  BY <1>3, <1>4, InverseIsUnique DEF SlotOf, Present, OneSlotEach
<1> QED BY <1>5 DEF h

LEMMA NoSlots ==
  ASSUME Live' = {}
  PROVE  SlotOf' = [e \in {} |-> 0]
BY DEF SlotOf, Present

(* Indices the array uses are indices of the type. *)
LEMMA SlotsInRange ==
  ASSUME IInv
  PROVE  \A i \in DOMAIN data : i \in 0 .. IndexSpace - 1
BY IndexSpaceAssumption DEF IInv, TypeOK, Capacities

LEMMA InitMaps == Init => SlotMap!Init
<1> SUFFICES ASSUME Init PROVE SlotMap!Init
  OBVIOUS
<1>1. Live = {}
  BY DEF Init, Live, NoArray
<1>2. SlotOf = [e \in {} |-> 0]
  BY <1>1 DEF SlotOf, Present
<1> QED BY <1>2 DEF Init, SlotMap!Init

(* Each step of the table is a step of the slot map, or invisible to it.   *)
LEMMA StepMaps == IInv /\ IInv' /\ [Next]_vars => [SlotMap!Next]_(SlotMap!vars)
<1> SUFFICES ASSUME IInv, IInv', [Next]_vars
             PROVE  SlotMap!Next \/ (SlotOf' = SlotOf /\ pinned' = pinned)
  BY DEF SlotMap!vars
<1>1. OneSlotEach /\ OneSlotEach' /\ DOMAIN SlotOf = Present
  BY SlotOfIsInverse DEF IInv
<1>2. SlotMap!Present = Present /\ SlotMap!Used = Live
  <2>1. \A i : i \in Live <=> \E e \in Present : SlotOf[e] = i
    BY <1>1, SlotOfIsInverse
  <2> QED BY <1>1, <2>1 DEF SlotMap!Present, SlotMap!Used
<1>put. ASSUME NEW e \in Entry, NEW i \in 0 .. IndexSpace - 1, e \notin Present, i \notin Live,
               Live' = Live \cup {i}, data'[i] = e, \A j \in Live : data'[j] = data[j],
               pinned' = pinned
        PROVE  SlotMap!Next
  <2>1. SlotMap!Put(e, i)
    BY <1>put, <1>1, <1>2, AddedSlot DEF SlotMap!Put
  <2> QED BY <2>1 DEF SlotMap!Next
<1>same. ASSUME UNCHANGED <<data, pinned>> PROVE SlotOf' = SlotOf /\ pinned' = pinned
  BY <1>same DEF SlotOf, Present, Live
<1>pin. ASSUME NEW P, P \subseteq Present, pinned' = P, SlotOf' = SlotOf PROVE SlotMap!Next
  <2>1. P \in SUBSET Entry
    BY <1>pin DEF Present, Live, IInv, TypeOK
  <2> QED BY <1>pin, <1>2, <2>1 DEF SlotMap!Next, SlotMap!Pin
<1>clear. ASSUME Live' = {}, pinned' = pinned PROVE SlotMap!Next
  BY <1>clear, NoSlots DEF SlotMap!Next, SlotMap!Clear
<1>3. CASE UNCHANGED vars
  BY <1>3, <1>same DEF vars
<1>4. ASSUME NEW e \in Entry, AddToHole(e) PROVE SlotMap!Next
  <2>1. Head(holes) \in Free /\ e \notin Present
    BY <1>4, TailOfInjective DEF AddToHole, IInv, TypeOK, HolesAreEmptySlots
  <2>2. Head(holes) \in DOMAIN data /\ Head(holes) \notin Live
    BY <2>1 DEF Free, Live
  <2>3. /\ Live' = Live \cup {Head(holes)} /\ data'[Head(holes)] = e
        /\ \A j \in Live : data'[j] = data[j]
    BY <1>4, <2>2, NullAssumption DEF AddToHole, Live
  <2>4. Head(holes) \in 0 .. IndexSpace - 1
    BY <2>2, SlotsInRange
  <2> QED BY <1>4, <2>1, <2>2, <2>3, <2>4, <1>put DEF AddToHole, shrinkVars
<1>5. ASSUME NEW e \in Entry, AddAndGrow(e) PROVE SlotMap!Next
  <2>1. /\ Doubled \in Nat /\ capacity \in 1 .. Doubled - 1 /\ Doubled - 1 < IndexSpace
        /\ DOMAIN data = 0 .. capacity - 1 /\ IndexSpace \in Nat
        /\ Grown \in [0 .. Doubled - 1 -> Entry \cup {NULL}]
        /\ \A i \in 0 .. Doubled - 1 : Grown[i] = IF i < capacity THEN data[i] ELSE NULL
    BY <1>5, GrownSlots, IndexSpaceAssumption DEF AddAndGrow, Capacities
  <2>2. data' = [Grown EXCEPT ![capacity] = e] /\ e \notin Present /\ pinned' = pinned
    BY <1>5 DEF AddAndGrow, shrinkVars
  <2>3. /\ DOMAIN data' = 0 .. Doubled - 1 /\ data'[capacity] = e
        /\ \A i \in 0 .. Doubled - 1 : i # capacity => data'[i] = Grown[i]
    BY <2>1, <2>2
  <2>4. capacity \notin Live /\ capacity \in 0 .. IndexSpace - 1
    BY <2>1 DEF Live
  <2>5. Live' = Live \cup {capacity} /\ \A j \in Live : data'[j] = data[j]
    BY <2>1, <2>3, NullAssumption DEF Live
  <2> QED BY <2>2, <2>3, <2>4, <2>5, <1>put
<1>6. ASSUME NEW i \in 0 .. IndexSpace - 1, AddHoleFails(i)
      PROVE  SlotOf' = SlotOf /\ pinned' = pinned
  <2>1. /\ Doubled \in Nat /\ capacity \in 1 .. Doubled - 1
        /\ DOMAIN data = 0 .. capacity - 1
        /\ \A j \in 0 .. Doubled - 1 : Grown[j] = IF j < capacity THEN data[j] ELSE NULL
        /\ DOMAIN Grown = 0 .. Doubled - 1
    BY <1>6, GrownSlots DEF AddHoleFails, Capacities
  <2>2. data' = Grown /\ pinned' = pinned
    BY <1>6 DEF AddHoleFails, shrinkVars
  <2> HIDE DEF Grown, Doubled
  <2>3. Live' = Live /\ \A j \in Live : data'[j] = data[j]
    BY <2>1, <2>2 DEF Live
  <2> QED BY <2>2, <2>3, SameLiveSlots
<1>7. ASSUME NEW i \in 0 .. IndexSpace - 1, EraseEntry(i) PROVE SlotMap!Next
  <2>1. Live' = Live \ {i} /\ i \in Live /\ \A j \in Live' : data'[j] = data[j]
    BY <1>7 DEF EraseEntry, Live
  <2>2. SlotMap!Drop(data[i])
    BY <1>7, <1>1, <1>2, <2>1, RemovedSlot, SlotOfIsInverse
    DEF SlotMap!Drop, EraseEntry, shrinkVars
  <2>3. data[i] \in Entry
    BY <2>1 DEF Live, IInv, TypeOK
  <2> QED BY <2>2, <2>3 DEF SlotMap!Next
<1>8. ASSUME NEW P \in SUBSET Entry, ShrinkBegin(P) PROVE SlotMap!Next
  <2>1. SlotOf' = SlotOf
    BY <1>8 DEF ShrinkBegin, SlotOf, Present, Live
  <2> QED BY <1>8, <2>1, <1>pin DEF ShrinkBegin
<1>9. CASE MoveIntoHole
  <2>1. PICK i \in Movable : data' = [data EXCEPT ![holeSearch] = data[i], ![i] = NULL]
    BY <1>9 DEF MoveIntoHole, Moved
  <2>2. /\ i \in Live /\ data[i] \notin pinned /\ holeSearch \notin Live
        /\ holeSearch \in DOMAIN data /\ pinned' = pinned /\ i # holeSearch /\ i >= SearchFrom
    BY <1>9 DEF MoveIntoHole, Movable, Live, Free
  <2>3. /\ Live' = (Live \ {i}) \cup {holeSearch} /\ data'[holeSearch] = data[i]
        /\ \A j \in Live \ {i} : data'[j] = data[j]
    BY <2>1, <2>2 DEF Live
  <2>4. holeSearch < i
    <3>1. holeSearch \in Nat /\ objectSearch \in Nat /\ i \in Nat
      BY <2>2 DEF IInv, TypeOK, Live
    <3> QED BY <2>2, <3>1 DEF SearchFrom
  <2>5. SlotOf' = [SlotOf EXCEPT ![data[i]] = holeSearch] /\ SlotOf[data[i]] = i
    BY <1>1, <2>2, <2>3, MovedSlot, SlotOfIsInverse
  <2>6. data[i] \in Entry /\ data[i] \in Present /\ holeSearch \in 0 .. IndexSpace - 1
    BY <2>2, SlotsInRange DEF Live, Present, IInv, TypeOK
  <2>7. SlotMap!Relocate(data[i], holeSearch)
    BY <1>2, <2>2, <2>4, <2>5, <2>6 DEF SlotMap!Relocate
  <2> QED BY <2>6, <2>7 DEF SlotMap!Next
<1>10. ASSUME NEW c \in Capacities, TableShrink(c) PROVE SlotMap!Next
  <2>1. Live' = Live /\ \A j \in Live : data'[j] = data[j]
    BY <1>10, ShrunkSlots DEF TableShrink
  <2> QED BY <1>10, <2>1, SameLiveSlots, <1>pin DEF TableShrink
<1>11. ASSUME NEW c \in Capacities, NEW n, ShrinkHoleFails(c, n)
       PROVE  SlotOf' = SlotOf /\ pinned' = pinned
  <2>1. Live' = Live /\ \A j \in Live : data'[j] = data[j]
    BY <1>11, ShrunkSlots DEF ShrinkHoleFails
  <2> QED BY <1>11, <2>1, SameLiveSlots DEF ShrinkHoleFails, shrinkVars
<1>12. ASSUME NEW c \in Capacities, LoadBegin(c) PROVE SlotMap!Next
  <2>1. Live' = {}
    BY <1>12 DEF LoadBegin, Live
  <2> QED BY <1>12, <2>1, <1>clear DEF LoadBegin, shrinkVars
<1>13. CASE (\E c \in Capacities : LoadBeginFails(c)) \/ Destroy
  <2>1. Live' = {} /\ pinned' = pinned
    BY <1>13 DEF LoadBeginFails, Destroy, NoArray, Live, shrinkVars
  <2> QED BY <2>1, <1>clear
<1>14. ASSUME NEW i \in 0 .. IndexSpace - 1, NEW e \in Entry, LoadEntry(i, e) PROVE SlotMap!Next
  <2>1. /\ Live' = Live \cup {i} /\ i \notin Live /\ data'[i] = e
        /\ \A j \in Live : data'[j] = data[j]
    BY <1>14, NullAssumption DEF LoadEntry, Live, Free
  <2> QED BY <1>14, <2>1, <1>put DEF LoadEntry, shrinkVars
<1>15. CASE \/ AddReallocFails \/ AddExhausted \/ SkipOccupied \/ NothingToMove
            \/ ShrinkReallocFails \/ LoadCutShort \/ LoadDone
            \/ \E n \in 0 .. IndexSpace - 1 : LoadHoleFails(n)
  <2>1. UNCHANGED <<data, pinned>>
    BY <1>15 DEF AddReallocFails, AddExhausted, SkipOccupied, NothingToMove,
                 ShrinkReallocFails, LoadCutShort, LoadDone, LoadHoleFails, shrinkVars
  <2> QED BY <2>1, <1>same
<1> QED
  BY <1>3, <1>4, <1>5, <1>6, <1>7, <1>8, <1>9, <1>10, <1>11, <1>12, <1>13, <1>14, <1>15 DEF Next

(* The slot table gives the rest of the VM a slot map: an entry keeps its  *)
(* index until it is dropped, and only compaction lowers one.              *)
THEOREM TableImplementsSlotMap == Spec => SlotMap!Spec
<1>1. Spec => []IInv
  BY TableInvariant
<1> QED BY <1>1, InitMaps, StepMaps, PTL DEF Spec, SlotMap!Spec

(* The same, under the name the model checker knows it by. *)
COROLLARY TableRefinement == Spec => ImplementsSlotMap
BY TableImplementsSlotMap DEF ImplementsSlotMap
=============================================================================
