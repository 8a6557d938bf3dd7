--------------------------- MODULE NkFieldsProofs ---------------------------
(***************************************************************************)
(* Proofs about NkFields, for every set of objects, strings and values,    *)
(* every hash function and every number of slots and buckets, for programs *)
(* that do nothing unusual.                                                *)
(***************************************************************************)
EXTENDS NkFields, FiniteSetTheorems, SequenceTheorems, TLAPS

Usual == Unusual = {}

-----------------------------------------------------------------------------
(* Chains.                                                                 *)

(* Among values that are equal to themselves, equality is an equivalence;  *)
(* NaN is equal to nothing.                                                *)
LEMMA EqualIs ==
  /\ \A v, w : Equal(v, w) => Equal(w, v) /\ v \notin NaNs /\ w \notin NaNs
  /\ \A u, v, w : Equal(u, v) /\ Equal(v, w) => Equal(u, w)
  /\ \A v : v \notin NaNs => Equal(v, v)
BY DEF Equal

KeysDiffer(c) == \A i, j \in 1 .. Len(c) : Equal(c[i].key, c[j].key) => i = j

(* In a list whose keys differ, a search finds the one element there is.   *)
LEMMA PositionFinds ==
  ASSUME NEW c \in Seq(Element), KeysDiffer(c), NEW k
  PROVE  /\ Position(c, k) \in 0 .. Len(c)
         /\ Position(c, k) # 0 => Equal(k, c[Position(c, k)].key)
         /\ \A i \in 1 .. Len(c) : Equal(k, c[i].key) => Position(c, k) = i
<1> DEFINE I == {i \in 1 .. Len(c) : Equal(k, c[i].key)}
<1>1. Position(c, k) = IF I # {} THEN Min(I) ELSE 0
  BY DEF Position, SelectInSeq
<1>2. CASE I = {}
  BY <1>1, <1>2
<1>3. CASE I # {}
  <2>1. PICK i \in 1 .. Len(c) : Equal(k, c[i].key)
    BY <1>3
  <2>2. I = {i}
    BY <2>1, EqualIs DEF KeysDiffer
  <2>3. Min({i}) = i
    BY DEF Min
  <2>4. Position(c, k) = i
    BY <1>1, <1>3, <2>2, <2>3
  <2>5. \A j \in 1 .. Len(c) : Equal(k, c[j].key) => j = i
    BY <2>2
  <2> HIDE DEF I
  <2> QED BY <2>1, <2>4, <2>5
<1> QED BY <1>2, <1>3

(* What is in a list after something was put before it.                    *)
LEMMA ConsAdds ==
  ASSUME NEW c \in Seq(Element), NEW e \in Element
  PROVE  /\ Cons(e, c) \in Seq(Element)
         /\ Len(Cons(e, c)) = Len(c) + 1
         /\ Cons(e, c)[1] = e
         /\ \A i \in 1 .. Len(c) : Cons(e, c)[i + 1] = c[i]
BY DEF Cons

(* What is in a list after one element was taken out.                      *)
LEMMA RemoveAtRemoves ==
  ASSUME NEW c \in Seq(Element), NEW i \in 1 .. Len(c)
  PROVE  /\ RemoveAt(c, i) \in Seq(Element)
         /\ Len(RemoveAt(c, i)) = Len(c) - 1
         /\ \A j \in 1 .. i - 1 : RemoveAt(c, i)[j] = c[j]
         /\ \A j \in i .. Len(c) - 1 : RemoveAt(c, i)[j] = c[j + 1]
<1> DEFINE a == SubSeq(c, 1, i - 1)
           b == SubSeq(c, i + 1, Len(c))
<1>1. /\ a \in Seq(Element) /\ Len(a) = i - 1
      /\ \A j \in 1 .. i - 1 : a[j] = c[j]
  <2>1. \A j \in 1 .. i - 1 : c[j] \in Element
    OBVIOUS
  <2> QED BY <2>1, SubSeqProperties
<1>2. /\ b \in Seq(Element) /\ Len(b) = Len(c) - i
      /\ \A j \in 1 .. Len(c) - i : b[j] = c[i + j]
  <2>1. \A j \in i + 1 .. Len(c) : c[j] \in Element
    OBVIOUS
  <2> QED BY <2>1, SubSeqProperties
<1> HIDE DEF a, b
<1>3. /\ a \o b \in Seq(Element)
      /\ Len(a \o b) = Len(c) - 1
      /\ \A j \in 1 .. i - 1 : (a \o b)[j] = c[j]
      /\ \A j \in i .. Len(c) - 1 : (a \o b)[j] = b[j - (i - 1)]
  <2>1. /\ a \o b \in Seq(Element)
        /\ Len(a \o b) = Len(a) + Len(b)
        /\ \A j \in 1 .. Len(a) + Len(b) :
             (a \o b)[j] = IF j <= Len(a) THEN a[j] ELSE b[j - Len(a)]
    BY <1>1, <1>2, ConcatProperties
  <2>2. Len(c) \in Nat
    OBVIOUS
  <2>3. Len(a) = i - 1 /\ Len(b) = Len(c) - i
    BY <1>1, <1>2
  <2>4. \A j \in 1 .. i - 1 : (a \o b)[j] = c[j]
    BY <2>1, <2>2, <2>3, <1>1
  <2>5. \A j \in i .. Len(c) - 1 : (a \o b)[j] = b[j - (i - 1)]
    BY <2>1, <2>2, <2>3
  <2> QED BY <2>1, <2>2, <2>3, <2>4, <2>5
<1>4. \A j \in i .. Len(c) - 1 : b[j - (i - 1)] = c[j + 1]
  BY <1>2
<1> QED BY <1>3, <1>4 DEF RemoveAt, a, b

-----------------------------------------------------------------------------
(* The inductive invariant.  Its parts name the table they speak of, so    *)
(* that they can be compared before and after a step.                      *)

Index == 0 .. BucketCount - 1

Thing(t, v) == IF v \in Refs THEN t[v[1]][v[2]] ELSE v
Present(t, v) == v \in Refs => t[v[1]][v[2]] # None
KeyIn(t, v) == KeyOf(Thing(t, v))
HashIn(t, v) == IF IsObject(v) THEN v[2] ELSE HashOf[Thing(t, v)]
BucketIn(t, v) == HashIn(t, v) % BucketCount

(* Each object and string has one slot, in the table of its kind.          *)
TablesSane ==
  /\ \A slot \in Slots : table["object"][slot] \in Objects \cup {None}
  /\ \A slot \in Slots : table["string"][slot] \in Strings \cup {None}
  /\ \A v, w \in Refs : Thing(table, v) = Thing(table, w)
                          /\ Thing(table, v) # None => v = w

(* An element is in the bucket of its key, and refers to nothing that is   *)
(* gone.                                                                   *)
ElementSane(t, e, b) ==
  /\ ~IsObject(e.key)
  /\ Present(t, e.key) /\ Present(t, e.value)
  /\ BucketIn(t, e.key) = b
  /\ e.value # Nil

ChainSane(t, c, b) ==
  /\ KeysDiffer(c)
  /\ \A i \in 1 .. Len(c) : ElementSane(t, c[i], b)

ChainsSane ==
  \A o \in Objects, b \in Index : ChainSane(table, buckets[o][b], b)

(* What is not in the table has no elements.                               *)
DeadEmpty ==
  \A o \in Objects : (\A slot \in Slots : table["object"][slot] # o)
                       => buckets[o] = Empty

HeldPresent ==
  /\ \A p \in Places : Present(table, held[p])
  /\ held["host"] \in Refs => IsObject(held["host"])

(* What an element is found under.                                         *)
HasKey(t, e, n) == e.key \notin NaNs /\ KeyIn(t, e.key) = n

(* Where elements are.                                                     *)
Positions(bs) == UNION {{b} \X (1 .. Len(bs[b])) : b \in Index}

SizesCount ==
  ~failed => \A o \in Objects : size[o] = Cardinality(Positions(buckets[o]))

Inv == /\ TypeOK /\ TablesSane /\ ChainsSane /\ DeadEmpty /\ HeldPresent
       /\ SizesCount

(* References are pairs of a kind and a slot.                              *)
LEMMA RefParts ==
  /\ \A v \in Refs : v[1] \in Kinds /\ v[2] \in Slots /\ v = <<v[1], v[2]>>
  /\ \A kind \in Kinds, slot \in Slots :
       /\ <<kind, slot>> \in Refs
       /\ <<kind, slot>>[1] = kind /\ <<kind, slot>>[2] = slot
  /\ \A v \in Refs : v \notin Atoms
  /\ Refs \subseteq Values /\ Atoms \subseteq Values
  /\ \A v \in Values : v \in Refs \/ v \in Atoms
  /\ Nil \in Values \ Refs /\ Zero \in Values \ Refs
<1>1. \A v \in Refs : v[1] \in Kinds /\ v[2] \in Slots /\ v = <<v[1], v[2]>>
  BY DEF Refs
<1>2. \A kind \in Kinds, slot \in Slots : <<kind, slot>> \in Refs
  BY DEF Refs
<1>3. Refs \cap Atoms = {} /\ {Nil, Zero} \subseteq Atoms
  BY FieldsAssumption
<1> QED BY <1>1, <1>2, <1>3 DEF Values

(* The model's lookup in terms of these.                                   *)
LEMMA LookupIs ==
  /\ \A v \in Refs : At(v) = Thing(table, v)
  /\ \A v : Denoted(v) = Thing(table, v)
  /\ \A v \in Values : Bucket(v) = BucketIn(table, v)
  /\ \A v \in Refs : Present(table, v) <=> At(v) # None
BY DEF At, Thing, Denoted, Bucket, BucketIn, Hash, HashIn, Present, IsObject

LEMMA BucketInRange ==
  ASSUME TablesSane, NEW v \in Values, Present(table, v)
  PROVE  BucketIn(table, v) \in Index
<1>1. HashIn(table, v) \in Nat
  <2>1. CASE IsObject(v)
    BY <2>1, RefParts, FieldsAssumption DEF HashIn, IsObject, Slots
  <2>2. CASE v \in Refs /\ ~IsObject(v)
    <3>1. v[1] = "string" /\ v[2] \in Slots
      BY <2>2, RefParts DEF Kinds, IsObject
    <3>2. Thing(table, v) \in Strings
      BY <2>2, <3>1 DEF Present, TablesSane, Thing
    <3> QED BY <2>2, <3>2, FieldsAssumption DEF HashIn
  <2>3. CASE v \notin Refs
    BY <2>3, RefParts, FieldsAssumption DEF HashIn, IsObject, Thing
  <2> QED BY <2>1, <2>2, <2>3
<1> QED BY <1>1, FieldsAssumption DEF BucketIn, Index

(* References are to something that has a name; its kind tells which.      *)
LEMMA RefsNamed ==
  ASSUME TablesSane
  PROVE  /\ \A v \in Refs : Present(table, v) => Thing(table, v) \in Things
         /\ \A v \in Values : Present(table, v) => Thing(table, v) \in Names
<1>1. \A v \in Refs : Present(table, v) => Thing(table, v) \in Things
  BY RefParts DEF TablesSane, Thing, Present, Things, Kinds
<1> QED BY <1>1, RefParts DEF Thing, Names

(* Two values that are not references to nothing and denote the same are   *)
(* the same.                                                               *)
LEMMA OneName ==
  ASSUME TablesSane, NEW v \in Values, NEW w \in Values,
         Present(table, v), Present(table, w), Thing(table, v) = Thing(table, w)
  PROVE  v = w
<1>1. \A x \in Refs : Present(table, x) => Thing(table, x) \in Things
  BY RefsNamed
<1>2. \A x \in Values : x \notin Refs => Thing(table, x) = x /\ x \notin Things
  BY RefParts, FieldsAssumption DEF Thing
<1>3. CASE v \in Refs /\ w \in Refs
  BY <1>3 DEF TablesSane, Present, Thing
<1> QED BY <1>1, <1>2, <1>3

(* What is found under one number is found under all that are equal.       *)
LEMMA KeyNamesAre ==
  /\ KeyNames \subseteq Names \ NaNs
  /\ \A n \in Names \ NaNs : KeyOf(n) \in KeyNames /\ KeyNamed[n] = KeyOf(n)
  /\ \A n \in Names : n \notin Atoms => KeyOf(n) = n
  /\ \A v \in Atoms : KeyOf(v) \in Atoms /\ (KeyOf(v) \in NaNs => v \in NaNs)
  /\ \A v : KeyOf(KeyOf(v)) = KeyOf(v)
<1>1. \A v \in Atoms : KeyOf(v) \in Atoms /\ (KeyOf(v) \in NaNs => v \in NaNs)
  BY NumbersAssumption DEF KeyOf
<1>2. \A v : KeyOf(KeyOf(v)) = KeyOf(v)
  BY NumbersAssumption DEF KeyOf
<1>3. \A n \in Names : n \notin Atoms => KeyOf(n) = n
  BY DEF KeyOf
<1>4. \A n \in Names : KeyNamed[n] = KeyOf(n)
  BY DEF KeyNamed
<1>5. \A n \in Names \ NaNs : KeyOf(n) \in Names \ NaNs
  BY <1>1, <1>3 DEF Names
<1> QED BY <1>1, <1>2, <1>3, <1>4, <1>5 DEF KeyNames

LEMMA RefKeys ==
  /\ \A v \in Refs : v \notin NaNs /\ KeyOf(v) = v
  /\ \A n \in Things : n \notin NaNs /\ n \notin Atoms
  /\ NaNs \subseteq Atoms
BY RefParts, FieldsAssumption, NumbersAssumption DEF KeyOf

LEMMA KeyInIs ==
  ASSUME TablesSane, NEW v \in Values, Present(table, v)
  PROVE  /\ v \in Refs => Thing(table, v) \in Things /\ KeyIn(table, v) = Thing(table, v)
         /\ v \notin Refs => v \in Atoms /\ KeyIn(table, v) = KeyOf(v)
         /\ v \in NaNs <=> Thing(table, v) \in NaNs
         /\ v \notin NaNs => KeyIn(table, v) \in KeyNames
<1>1. CASE v \in Refs
  <2>1. Thing(table, v) \in Things
    BY <1>1, RefsNamed
  <2>2. KeyIn(table, v) = Thing(table, v)
    BY <2>1, RefKeys, KeyNamesAre DEF KeyIn, Names
  <2> QED BY <1>1, <2>1, <2>2, RefKeys, KeyNamesAre DEF Names
<1>2. CASE v \notin Refs
  <2>1. v \in Atoms /\ Thing(table, v) = v
    BY <1>2, RefParts DEF Thing
  <2> QED BY <1>2, <2>1, KeyNamesAre DEF KeyIn, Names
<1> QED BY <1>1, <1>2

(* Keys have one name when they are equal, and are in one bucket then.     *)
LEMMA EqualKeys ==
  ASSUME TablesSane, NEW v \in Values, NEW w \in Values,
         Present(table, v), Present(table, w), v \notin NaNs, w \notin NaNs
  PROVE  /\ KeyIn(table, v) = KeyIn(table, w) <=> Equal(v, w)
         /\ Equal(v, w) => BucketIn(table, v) = BucketIn(table, w)
<1>0. Equal(v, w) <=> KeyOf(v) = KeyOf(w)
  BY DEF Equal
<1>1. /\ v \in Refs => KeyIn(table, v) \in Things /\ KeyOf(v) = v /\ v \notin Atoms
      /\ w \in Refs => KeyIn(table, w) \in Things /\ KeyOf(w) = w /\ w \notin Atoms
  BY KeyInIs, RefKeys, RefParts
<1>2. /\ v \notin Refs => KeyIn(table, v) = KeyOf(v) /\ KeyOf(v) \in Atoms /\ v \in Atoms
      /\ w \notin Refs => KeyIn(table, w) = KeyOf(w) /\ KeyOf(w) \in Atoms /\ w \in Atoms
  BY KeyInIs, KeyNamesAre
<1>3. \A n \in Things : n \notin Atoms
  BY RefKeys
<1>4. CASE v \in Refs /\ w \in Refs
  <2>1. KeyIn(table, v) = Thing(table, v) /\ KeyIn(table, w) = Thing(table, w)
    BY <1>4, KeyInIs
  <2> QED BY <1>0, <1>1, <1>4, <2>1, OneName
<1>5. CASE v \notin Refs /\ w \notin Refs
  <2>1. HashIn(table, v) = HashOf[v] /\ HashIn(table, w) = HashOf[w]
    BY <1>5 DEF HashIn, IsObject, Thing
  <2>2. /\ HashOf[v] % BucketCount = HashOf[FirstEqual[v]] % BucketCount
        /\ HashOf[w] % BucketCount = HashOf[FirstEqual[w]] % BucketCount
        /\ KeyOf(v) = FirstEqual[v] /\ KeyOf(w) = FirstEqual[w]
    BY <1>2, <1>5, NumbersAssumption DEF KeyOf
  <2> QED BY <1>0, <1>2, <1>5, <2>1, <2>2 DEF BucketIn
<1>6. CASE ~(v \in Refs <=> w \in Refs)
  BY <1>0, <1>1, <1>2, <1>3, <1>6
<1> QED BY <1>4, <1>5, <1>6

LEMMA NamesFinite == IsFiniteSet(Names) /\ None \notin Things
BY FieldsAssumption, FS_Union DEF Names, Things

LEMMA ElementsTyped ==
  ASSUME TypeOK, NEW o \in Objects, NEW b \in Index
  PROVE  /\ buckets[o][b] \in Seq(Element)
         /\ \A i \in 1 .. Len(buckets[o][b]) :
              /\ buckets[o][b][i] \in Element
              /\ buckets[o][b][i].key \in Values
              /\ buckets[o][b][i].value \in Values
<1>1. buckets[o][b] \in Seq(Element)
  BY DEF TypeOK, Index
<1>2. \A i \in 1 .. Len(buckets[o][b]) : buckets[o][b][i] \in Element
  BY <1>1
<1> QED BY <1>1, <1>2 DEF Element

(* A lookup returns a value there is.                                      *)
LEMMA FieldPresent ==
  ASSUME Inv, NEW o \in Objects, NEW k \in Values, Present(table, k)
  PROVE  Field(o, k) \in Values /\ Present(table, Field(o, k))
<1>1. Bucket(k) \in Index
  BY BucketInRange, LookupIs DEF Inv
<1> DEFINE c == Chain(o, k)
<1>2. c \in Seq(Element) /\ KeysDiffer(c)
  BY <1>1 DEF Inv, TypeOK, ChainsSane, ChainSane, Chain, Index
<1>3. Position(c, k) \in 0 .. Len(c)
  BY <1>2, PositionFinds
<1>4. \A i \in 1 .. Len(c) : c[i].value \in Values /\ Present(table, c[i].value)
  <2>1. \A i \in 1 .. Len(c) : c[i] \in Element
    BY <1>2
  <2>2. \A i \in 1 .. Len(c) : Present(table, c[i].value)
    BY <1>1 DEF Inv, ChainsSane, ChainSane, ElementSane, Chain
  <2> QED BY <2>1, <2>2 DEF Element
<1>5. Nil \in Values /\ Present(table, Nil)
  BY RefParts DEF Present
<1>6. Field(o, k) = IF Position(c, k) = 0 THEN Nil ELSE c[Position(c, k)].value
  BY DEF Field
<1> HIDE DEF c
<1> QED BY <1>2, <1>3, <1>4, <1>5, <1>6

LEMMA OperandsPresent ==
  ASSUME Inv, NEW v \in Operands
  PROVE  v \in Values /\ Present(table, v)
BY RefParts DEF Operands, Inv, HeldPresent, TypeOK, Present

LEMMA EmptyHas ==
  /\ Empty \in [Index -> Seq(Element)]
  /\ \A b \in Index : Empty[b] = <<>>
  /\ Positions(Empty) = {}
  /\ \A t, b : ChainSane(t, <<>>, b)
BY DEF Empty, Index, Positions, ChainSane, KeysDiffer

(* An object's elements are counted by the lengths of its lists.           *)
LEMMA PositionIn ==
  ASSUME NEW bs
  PROVE  \A p : p \in Positions(bs)
                  <=> \E b \in Index : \E i \in 1 .. Len(bs[b]) : p = <<b, i>>
BY DEF Positions

LEMMA PositionsFinite ==
  ASSUME NEW bs, \A b \in Index : Len(bs[b]) \in Nat
  PROVE  IsFiniteSet(Positions(bs))
<1> DEFINE part(b) == {b} \X (1 .. Len(bs[b]))
           parts == {part(b) : b \in Index}
           f == [b \in Index |-> part(b)]
<1>1. IsFiniteSet(Index)
  BY FieldsAssumption, FS_Interval DEF Index
<1>2. f \in Surjection(Index, parts)
  BY DEF Surjection
<1>3. IsFiniteSet(parts)
  <2> HIDE DEF f, parts
  <2> QED BY <1>1, <1>2, FS_Surjection
<1>4. \A b \in Index : IsFiniteSet(part(b))
  <2> TAKE b \in Index
  <2>1. PICK n \in Nat : n = Len(bs[b])
    OBVIOUS
  <2>2. IsFiniteSet(1 .. n)
    BY FS_Interval
  <2>3. IsFiniteSet({b})
    BY FS_Singleton
  <2> QED BY <2>1, <2>2, <2>3, FS_Product
<1>5. \A T \in parts : IsFiniteSet(T)
  BY <1>4
<1>6. IsFiniteSet(UNION parts)
  <2> HIDE DEF parts
  <2> QED BY <1>3, <1>5, FS_UNION
<1> QED BY <1>6 DEF Positions

LEMMA SameLengths ==
  ASSUME NEW bs, NEW cs, \A b \in Index : Len(cs[b]) = Len(bs[b])
  PROVE  Positions(cs) = Positions(bs)
BY DEF Positions

LEMMA OneLonger ==
  ASSUME NEW bs, NEW cs, NEW b \in Index, \A a \in Index : Len(bs[a]) \in Nat,
         \A a \in Index \ {b} : Len(cs[a]) = Len(bs[a]),
         Len(cs[b]) = Len(bs[b]) + 1
  PROVE  Cardinality(Positions(cs)) = Cardinality(Positions(bs)) + 1
<1> DEFINE new == <<b, Len(cs[b])>>
<1>1. \A a \in Index : \A i :
        i \in 1 .. Len(cs[a]) <=> i \in 1 .. Len(bs[a]) \/ (a = b /\ i = Len(cs[b]))
  <2> TAKE a \in Index
  <2>1. CASE a = b
    BY <2>1
  <2>2. CASE a # b
    BY <2>2
  <2> QED BY <2>1, <2>2
<1>2. \A p : p \in Positions(cs) <=> p \in Positions(bs) \/ p = new
  BY <1>1, PositionIn
<1>3. new \notin Positions(bs)
  <2>1. Len(cs[b]) \notin 1 .. Len(bs[b])
    OBVIOUS
  <2> QED BY <2>1, PositionIn
<1> HIDE DEF new
<1>4. Positions(cs) = Positions(bs) \cup {new}
  BY <1>2
<1> QED BY <1>3, <1>4, PositionsFinite, FS_AddElement

LEMMA InitInv == Init => Inv
<1> SUFFICES ASSUME Init PROVE Inv
  OBVIOUS
<1>1. TypeOK
  <2>1. buckets \in [Objects -> [0 .. BucketCount - 1 -> Seq(Element)]]
    BY EmptyHas DEF Init, Index
  <2>2. table \in [Kinds -> [Slots -> Things \cup {None}]]
    BY DEF Init
  <2> QED BY <2>1, <2>2, RefParts DEF Init, TypeOK
<1>2. TablesSane
  BY RefParts DEF Init, TablesSane, Thing, Kinds
<1>3. \A o \in Objects : buckets[o] = Empty
  BY DEF Init
<1>4. ChainsSane /\ DeadEmpty
  BY <1>3, EmptyHas DEF ChainsSane, DeadEmpty
<1>5. "host" \in Places
  BY DEF Places
<1>6. HeldPresent
  BY <1>5, RefParts DEF Init, HeldPresent, Present
<1>7. SizesCount
  BY <1>3, EmptyHas, FS_EmptySet DEF Init, SizesCount
<1> QED BY <1>1, <1>2, <1>4, <1>6, <1>7 DEF Inv

-----------------------------------------------------------------------------
(* Steps that add to a table or take from it.                              *)

(* What v refers to is there in both tables.                               *)
Stays(t, u, v) ==
  Present(u, v) /\ Thing(u, v) = Thing(t, v)

(* Objects lose all their elements, or keep them along with what these     *)
(* refer to.                                                               *)
LEMMA KeptOrLost ==
  ASSUME Inv, ~failed,
         \A o \in Objects :
           \/ buckets'[o] = Empty /\ size'[o] = 0
           \/ /\ buckets'[o] = buckets[o] /\ size'[o] = size[o]
              /\ \A b \in Index : \A i \in 1 .. Len(buckets[o][b]) :
                   /\ Stays(table, table', buckets[o][b][i].key)
                   /\ Stays(table, table', buckets[o][b][i].value)
  PROVE  ChainsSane' /\ SizesCount'
<1> SUFFICES ASSUME NEW o \in Objects
             PROVE  /\ \A b \in Index : ChainSane(table', buckets'[o][b], b)
                    /\ size'[o] = Cardinality(Positions(buckets'[o]))
  BY DEF ChainsSane, SizesCount
<1>1. CASE buckets'[o] = Empty /\ size'[o] = 0
  BY <1>1, EmptyHas, FS_EmptySet
<1>2. CASE /\ buckets'[o] = buckets[o] /\ size'[o] = size[o]
           /\ \A b \in Index : \A i \in 1 .. Len(buckets[o][b]) :
                /\ Stays(table, table', buckets[o][b][i].key)
                /\ Stays(table, table', buckets[o][b][i].value)
  <2>1. ASSUME NEW b \in Index
        PROVE  ChainSane(table', buckets[o][b], b)
    <3>1. ChainSane(table, buckets[o][b], b)
      BY DEF Inv, ChainsSane
    <3> SUFFICES ASSUME NEW i \in 1 .. Len(buckets[o][b])
                 PROVE  ElementSane(table', buckets[o][b][i], b)
      BY <3>1 DEF ChainSane
    <3>2. ElementSane(table, buckets[o][b][i], b)
      BY <3>1 DEF ChainSane
    <3>3. /\ Stays(table, table', buckets[o][b][i].key)
          /\ Stays(table, table', buckets[o][b][i].value)
      BY <1>2
    <3>4. BucketIn(table', buckets[o][b][i].key) = BucketIn(table, buckets[o][b][i].key)
      BY <3>2, <3>3 DEF ElementSane, Stays, BucketIn, HashIn
    <3> QED BY <3>2, <3>3, <3>4 DEF ElementSane, Stays
  <2>2. size[o] = Cardinality(Positions(buckets[o]))
    BY DEF Inv, SizesCount
  <2> QED BY <1>2, <2>1, <2>2
<1> QED BY <1>1, <1>2

LEMMA ElementsPresent ==
  ASSUME Inv, NEW o \in Objects, NEW b \in Index, NEW i \in 1 .. Len(buckets[o][b])
  PROVE  /\ buckets[o][b][i].key \in Values /\ buckets[o][b][i].value \in Values
         /\ Present(table, buckets[o][b][i].key)
         /\ Present(table, buckets[o][b][i].value)
<1>1. buckets[o][b][i].key \in Values /\ buckets[o][b][i].value \in Values
  BY ElementsTyped DEF Inv
<1>2. ElementSane(table, buckets[o][b][i], b)
  BY DEF Inv, ChainsSane, ChainSane
<1> QED BY <1>1, <1>2 DEF ElementSane

LEMMA AddedEntry ==
  ASSUME Inv, NEW kind \in Kinds, NEW slot \in Slots, NEW thing,
         \/ kind = "object" /\ thing \in Objects
         \/ kind = "string" /\ thing \in Strings,
         table[kind][slot] = None,
         \A s \in Slots : table[kind][s] # thing,
         table' = [table EXCEPT ![kind][slot] = thing]
  PROVE  /\ table' \in [Kinds -> [Slots -> Things \cup {None}]]
         /\ TablesSane'
         /\ \A v \in Values : Present(table, v) => Stays(table, table', v)
         /\ Present(table', <<kind, slot>>)
<1>0. thing \in Things /\ thing # None
  BY FieldsAssumption DEF Things
<1>1. table' \in [Kinds -> [Slots -> Things \cup {None}]]
  BY <1>0 DEF Inv, TypeOK
<1>2. \A v \in Refs : Thing(table', v) = IF v = <<kind, slot>> THEN thing
                                                          ELSE Thing(table, v)
  BY RefParts DEF Thing, Inv, TypeOK
<1>3. \A v \in Refs : Thing(table, v) # thing
  <2> SUFFICES ASSUME NEW v \in Refs PROVE Thing(table, v) # thing
    OBVIOUS
  <2>1. CASE v[1] = kind
    BY <2>1, RefParts DEF Thing
  <2>2. CASE v[1] # kind
    BY <2>2, <1>0, RefParts, FieldsAssumption DEF Thing, Inv, TablesSane, Kinds, Things
  <2> QED BY <2>1, <2>2
<1>4. Thing(table, <<kind, slot>>) = None /\ <<kind, slot>> \in Refs
  BY RefParts DEF Thing
<1>5. TablesSane'
  <2>1. \A v, w \in Refs : Thing(table', v) = Thing(table', w)
                             /\ Thing(table', v) # None => v = w
    BY <1>2, <1>3, <1>4 DEF Inv, TablesSane
  <2>2. /\ \A s \in Slots : table'["object"][s] \in Objects \cup {None}
        /\ \A s \in Slots : table'["string"][s] \in Strings \cup {None}
    BY DEF Inv, TablesSane, TypeOK, Kinds
  <2> QED BY <2>1, <2>2 DEF TablesSane
<1>6. \A v \in Refs : /\ Present(table, v) <=> Thing(table, v) # None
                      /\ Present(table', v) <=> Thing(table', v) # None
  BY DEF Present, Thing
<1>7. \A v \in Values : Present(table, v) => Stays(table, table', v)
  <2>1. \A v \in Values \ Refs : Stays(table, table', v)
    BY DEF Stays, Present, Thing
  <2>2. \A v \in Refs : Present(table, v) => Stays(table, table', v)
    BY <1>2, <1>4, <1>6 DEF Stays
  <2> QED BY <2>1, <2>2
<1>8. Present(table', <<kind, slot>>)
  BY <1>0, <1>2, <1>4, <1>6
<1> QED BY <1>1, <1>5, <1>7, <1>8

LEMMA CreateInv ==
  ASSUME Inv, ~failed, NEW p \in ScriptPlaces, CreateObject(p)
  PROVE  Inv'
<1>1. PICK o \in Objects, slot \in Slots :
        /\ \A s \in Slots : table["object"][s] # o
        /\ table["object"][slot] = None
        /\ table' = [table EXCEPT !["object"][slot] = o]
        /\ buckets' = [buckets EXCEPT ![o] = Empty]
        /\ size' = [size EXCEPT ![o] = 0]
        /\ held' = [held EXCEPT ![p] = <<"object", slot>>]
        /\ UNCHANGED failed
  BY DEF CreateObject
<1>2. /\ table' \in [Kinds -> [Slots -> Things \cup {None}]]
      /\ TablesSane'
      /\ \A v \in Values : Present(table, v) => Stays(table, table', v)
      /\ Present(table', <<"object", slot>>)
  BY <1>1, AddedEntry DEF Kinds
<1>3. p \in Places /\ p # "host" /\ <<"object", slot>> \in Values
  BY RefParts, FieldsAssumption DEF Places, Kinds
<1>4. TypeOK'
  BY <1>1, <1>2, <1>3, EmptyHas DEF Inv, TypeOK, Index
<1>5. ChainsSane' /\ SizesCount'
  <2> SUFFICES ASSUME NEW q \in Objects
               PROVE  \/ buckets'[q] = Empty /\ size'[q] = 0
                      \/ /\ buckets'[q] = buckets[q] /\ size'[q] = size[q]
                         /\ \A b \in Index : \A i \in 1 .. Len(buckets[q][b]) :
                              /\ Stays(table, table', buckets[q][b][i].key)
                              /\ Stays(table, table', buckets[q][b][i].value)
    BY KeptOrLost
  <2>1. CASE q = o
    BY <1>1, <2>1 DEF Inv, TypeOK
  <2>2. CASE q # o
    <3>1. buckets'[q] = buckets[q] /\ size'[q] = size[q]
      BY <1>1, <2>2 DEF Inv, TypeOK
    <3> QED BY <1>2, <3>1, ElementsPresent
  <2> QED BY <2>1, <2>2
<1>6. DeadEmpty'
  <2> SUFFICES ASSUME NEW q \in Objects, \A s \in Slots : table'["object"][s] # q
               PROVE  buckets'[q] = Empty
    BY DEF DeadEmpty
  <2>1. table'["object"] = [table["object"] EXCEPT ![slot] = o]
    BY <1>1 DEF Inv, TypeOK, Kinds
  <2>2. table'["object"][slot] = o
    BY <2>1 DEF Inv, TypeOK, Kinds
  <2>3. q # o
    BY <2>2
  <2>4. None \notin Objects
    BY FieldsAssumption DEF Things
  <2>5. \A s \in Slots : table["object"][s] # q
    BY <1>1, <2>1, <2>4 DEF Inv, TypeOK, Kinds
  <2>6. buckets[q] = Empty
    BY <2>5 DEF Inv, DeadEmpty
  <2> QED BY <1>1, <2>3, <2>6 DEF Inv, TypeOK
<1>7. HeldPresent'
  <2>1. \A q \in Places : held'[q] = IF q = p THEN <<"object", slot>> ELSE held[q]
    BY <1>1, <1>3 DEF Inv, TypeOK
  <2>2. \A q \in Places : Present(table', held[q])
    BY <1>2 DEF Inv, TypeOK, HeldPresent, Stays
  <2>3. held'["host"] = held["host"]
    BY <2>1, <1>3 DEF Places
  <2> QED BY <1>2, <2>1, <2>2, <2>3 DEF HeldPresent, Inv
<1> QED BY <1>4, <1>2, <1>5, <1>6, <1>7 DEF Inv

(* Steps that leave tables and fields alone.                               *)
LEMMA HoldInv ==
  ASSUME Inv, UNCHANGED <<table, buckets, size, failed>>, NEW p \in Places,
         NEW v \in Values, Present(table, v), held' = [held EXCEPT ![p] = v],
         p = "host" => (v \in Refs => IsObject(v))
  PROVE  Inv'
<1>1. TypeOK'
  BY DEF Inv, TypeOK
<1>2. TablesSane' /\ ChainsSane'
  BY DEF Inv, TablesSane, ChainsSane
<1>3. DeadEmpty' /\ SizesCount'
  BY DEF Inv, DeadEmpty, SizesCount
<1>4. \A q \in Places : held'[q] = IF q = p THEN v ELSE held[q]
  BY DEF Inv, TypeOK
<1>5. "host" \in Places
  BY DEF Places
<1>6. HeldPresent'
  BY <1>4, <1>5 DEF Inv, HeldPresent
<1> QED BY <1>1, <1>2, <1>3, <1>6 DEF Inv

LEMMA FindOrAddStringInv ==
  ASSUME Inv, ~failed, NEW p \in ScriptPlaces, FindOrAddString(p)
  PROVE  Inv'
<1>1. PICK s \in Strings, slot \in Slots :
        /\ \/ table["string"][slot] = s /\ UNCHANGED table
           \/ /\ \A t \in Slots : table["string"][t] # s
              /\ table["string"][slot] = None
              /\ table' = [table EXCEPT !["string"][slot] = s]
        /\ held' = [held EXCEPT ![p] = <<"string", slot>>]
        /\ UNCHANGED <<buckets, size, failed>>
  BY DEF FindOrAddString
<1>2. p \in Places /\ p # "host" /\ <<"string", slot>> \in Values
  BY RefParts, FieldsAssumption DEF Places, Kinds
<1>3. CASE table["string"][slot] = s /\ UNCHANGED table
  <2>1. Present(table, <<"string", slot>>)
    BY <1>3, FieldsAssumption, RefParts DEF Present, Things, Kinds
  <2> QED BY <1>1, <1>2, <1>3, <2>1, HoldInv
<1>4. CASE /\ \A t \in Slots : table["string"][t] # s
           /\ table["string"][slot] = None
           /\ table' = [table EXCEPT !["string"][slot] = s]
  <2>1. /\ table' \in [Kinds -> [Slots -> Things \cup {None}]]
        /\ TablesSane'
        /\ \A v \in Values : Present(table, v) => Stays(table, table', v)
        /\ Present(table', <<"string", slot>>)
    BY <1>4, AddedEntry DEF Kinds
  <2>2. TypeOK'
    BY <1>1, <1>2, <2>1 DEF Inv, TypeOK
  <2>3. ChainsSane' /\ SizesCount'
    <3>1. \A q \in Objects : buckets'[q] = buckets[q] /\ size'[q] = size[q]
      BY <1>1
    <3>2. \A q \in Objects, b \in Index : \A i \in 1 .. Len(buckets[q][b]) :
            /\ Stays(table, table', buckets[q][b][i].key)
            /\ Stays(table, table', buckets[q][b][i].value)
      BY <2>1, ElementsPresent
    <3> QED BY <3>1, <3>2, KeptOrLost
  <2>4. DeadEmpty'
    BY <1>1, <1>4 DEF DeadEmpty, Inv, TypeOK, Kinds
  <2>5. HeldPresent'
    <3>1. \A q \in Places : held'[q] = IF q = p THEN <<"string", slot>> ELSE held[q]
      BY <1>1, <1>2 DEF Inv, TypeOK
    <3>2. \A q \in Places : Present(table', held[q])
      BY <2>1 DEF Inv, TypeOK, HeldPresent, Stays
    <3>3. held'["host"] = held["host"]
      BY <3>1, <1>2 DEF Places
    <3> QED BY <2>1, <3>1, <3>2, <3>3 DEF HeldPresent, Inv
  <2> QED BY <2>1, <2>2, <2>3, <2>4, <2>5 DEF Inv
<1> QED BY <1>1, <1>3, <1>4

LEMMA HoldsInv ==
  ASSUME Inv, NEW p \in ScriptPlaces,
         \/ PushAtom(p) \/ ReleaseHandle
         \/ \E q \in Places : Copy(p, q)
         \/ \E po \in Places, k \in Operands : FieldGet(p, po, k)
  PROVE  Inv'
<1>0. p \in Places /\ p # "host" /\ "host" \in Places
  BY FieldsAssumption DEF Places
<1>1. CASE PushAtom(p)
  <2>1. PICK v \in Atoms : held' = [held EXCEPT ![p] = v]
    BY <1>1 DEF PushAtom
  <2>2. v \in Values /\ Present(table, v)
    BY RefParts DEF Present
  <2> QED BY <1>0, <1>1, <2>1, <2>2, HoldInv DEF PushAtom
<1>2. CASE ReleaseHandle
  BY <1>0, <1>2, RefParts, HoldInv DEF ReleaseHandle, Present
<1>3. ASSUME NEW q \in Places, Copy(p, q)
      PROVE  Inv'
  <2>1. held[p] \in Values /\ Present(table, held[p])
    BY <1>0 DEF Inv, TypeOK, HeldPresent
  <2> QED BY <1>3, <2>1, HoldInv DEF Copy
<1>4. ASSUME NEW po \in Places, NEW k \in Operands, FieldGet(p, po, k)
      PROVE  Inv'
  <2>1. k \in Values /\ Present(table, k)
    BY OperandsPresent
  <2>2. /\ Field(HeldObject(po), k) \in Values
        /\ Present(table, Field(HeldObject(po), k))
    BY <1>4, <2>1, FieldPresent DEF FieldGet
  <2> QED BY <1>0, <1>4, <2>2, HoldInv DEF FieldGet
<1> QED BY <1>1, <1>2, <1>3, <1>4

-----------------------------------------------------------------------------
(* Steps that change the elements of an object.                            *)

LEMMA ChainReplaced ==
  ASSUME Inv, UNCHANGED <<table, held>>,
         NEW o \in Objects, \E slot \in Slots : table["object"][slot] = o,
         NEW b \in Index, NEW c \in Seq(Element), ChainSane(table, c, b),
         buckets' = [buckets EXCEPT ![o][b] = c],
         size' \in [Objects -> Nat], failed' \in BOOLEAN,
         ~failed' => /\ ~failed
                     /\ \A q \in Objects \ {o} : size'[q] = size[q]
                     /\ size'[o] = Cardinality(Positions(buckets'[o]))
  PROVE  Inv'
<1>1. TypeOK'
  BY DEF Inv, TypeOK, Index
<1>2. TablesSane' /\ HeldPresent'
  BY DEF Inv, TablesSane, HeldPresent
<1>3. \A q \in Objects \ {o} : buckets'[q] = buckets[q]
  BY DEF Inv, TypeOK
<1>4. \A a \in Index : buckets'[o][a] = IF a = b THEN c ELSE buckets[o][a]
  BY DEF Inv, TypeOK, Index
<1>5. ChainsSane'
  BY <1>3, <1>4 DEF Inv, ChainsSane
<1>6. DeadEmpty'
  BY <1>3 DEF Inv, DeadEmpty
<1>7. SizesCount'
  BY <1>3 DEF Inv, SizesCount
<1> QED BY <1>1, <1>2, <1>5, <1>6, <1>7 DEF Inv

(* The element that is found under a key is what a search finds.           *)
LEMMA KeyFound ==
  ASSUME Inv, NEW o \in Objects, NEW k \in Values, Present(table, k)
  PROVE  /\ BucketIn(table, k) \in Index
         /\ Chain(o, k) = buckets[o][BucketIn(table, k)]
         /\ Position(Chain(o, k), k) \in 0 .. Len(Chain(o, k))
         /\ k \notin NaNs => \A b \in Index : \A i \in 1 .. Len(buckets[o][b]) :
              HasKey(table, buckets[o][b][i], KeyIn(table, k)) =>
                /\ b = BucketIn(table, k)
                /\ i = Position(Chain(o, k), k)
                /\ Equal(k, buckets[o][b][i].key)
         /\ LET i == Position(Chain(o, k), k)
            IN  i # 0 => /\ i \in 1 .. Len(Chain(o, k))
                         /\ k \notin NaNs
                         /\ Equal(k, Chain(o, k)[i].key)
                         /\ HasKey(table, Chain(o, k)[i], KeyIn(table, k))
         /\ \A i \in 1 .. Len(Chain(o, k)) :
              Equal(k, Chain(o, k)[i].key) => i = Position(Chain(o, k), k)
<1> DEFINE b0 == BucketIn(table, k)
           c == buckets[o][b0]
           p == Position(c, k)
<1>1. b0 \in Index /\ Chain(o, k) = c
  BY BucketInRange, LookupIs DEF Inv, Chain
<1>2. c \in Seq(Element) /\ KeysDiffer(c)
  BY <1>1, ElementsTyped DEF Inv, ChainsSane, ChainSane
<1>0. \A i \in 1 .. Len(c) : c[i].key \in Values /\ Present(table, c[i].key)
  BY <1>1, ElementsPresent
<1> HIDE DEF b0
<1>3. /\ p \in 0 .. Len(c)
      /\ p # 0 => Equal(k, c[p].key)
      /\ \A i \in 1 .. Len(c) : Equal(k, c[i].key) => p = i
  BY <1>2, PositionFinds
<1>4. ASSUME k \notin NaNs, NEW b \in Index, NEW i \in 1 .. Len(buckets[o][b]),
             HasKey(table, buckets[o][b][i], KeyIn(table, k))
      PROVE  b = b0 /\ i = p /\ Equal(k, buckets[o][b][i].key)
  <2> DEFINE j == buckets[o][b][i].key
  <2>0. j \in Values /\ Present(table, j) /\ j \notin NaNs
        /\ KeyIn(table, k) = KeyIn(table, j)
    BY <1>4, ElementsPresent DEF HasKey
  <2>2. BucketIn(table, j) = b
    BY DEF Inv, ChainsSane, ChainSane, ElementSane
  <2> HIDE DEF j
  <2>1. Equal(k, j) /\ BucketIn(table, k) = BucketIn(table, j)
    BY <1>4, <2>0, EqualKeys DEF Inv
  <2>3. b = b0
    BY <2>1, <2>2 DEF b0
  <2> QED BY <1>3, <2>1, <2>3 DEF j
<1>5. p # 0 => p \in 1 .. Len(c)
  BY <1>2, <1>3
<1>6. p # 0 => k \notin NaNs /\ HasKey(table, c[p], KeyIn(table, k))
  <2> SUFFICES ASSUME p # 0 PROVE k \notin NaNs /\ HasKey(table, c[p], KeyIn(table, k))
    OBVIOUS
  <2>1. k \notin NaNs /\ c[p].key \notin NaNs /\ Equal(k, c[p].key)
    BY <1>3, EqualIs
  <2>2. c[p].key \in Values /\ Present(table, c[p].key)
    BY <1>0, <1>5
  <2>3. KeyIn(table, k) = KeyIn(table, c[p].key)
    BY <2>1, <2>2, EqualKeys DEF Inv
  <2> QED BY <2>1, <2>3 DEF HasKey
<1> QED BY <1>1, <1>3, <1>4, <1>5, <1>6 DEF b0

LEMMA SizeKnown ==
  ASSUME Inv, ~failed, NEW o \in Objects
  PROVE  /\ IsFiniteSet(Positions(buckets[o]))
         /\ size[o] = Cardinality(Positions(buckets[o])) /\ size[o] \in Nat
         /\ \A b \in Index : Len(buckets[o][b]) \in Nat
<1>1. \A b \in Index : Len(buckets[o][b]) \in Nat
  BY ElementsTyped DEF Inv
<1>2. IsFiniteSet(Positions(buckets[o]))
  BY <1>1, PositionsFinite
<1> QED BY <1>1, <1>2 DEF Inv, SizesCount, TypeOK

LEMMA ClearInv ==
  ASSUME Inv, ~failed, UNCHANGED <<table, held>>,
         NEW o \in Objects, \E slot \in Slots : table["object"][slot] = o,
         NEW k \in Values, Present(table, k), ClearEntry(o, k)
  PROVE  Inv'
<1> DEFINE b == BucketIn(table, k)
           c == buckets[o][b]
           i == Position(c, k)
           d == RemoveAt(c, i)
<1>1. b \in Index /\ Chain(o, k) = c
  BY KeyFound
<1>2. Bucket(k) = b
  BY LookupIs
<1>3. c \in Seq(Element) /\ ChainSane(table, c, b)
  BY <1>1, ElementsTyped DEF Inv, ChainsSane
<1>4. i \in 0 .. Len(c) /\ (i # 0 => i \in 1 .. Len(c))
  BY <1>1, KeyFound
<1>5. CASE i = 0
  <2>1. UNCHANGED <<buckets, size, failed>>
    BY <1>1, <1>5 DEF ClearEntry
  <2> QED BY <2>1 DEF Inv, TypeOK, TablesSane, ChainsSane, DeadEmpty, HeldPresent, SizesCount
<1>6. CASE i # 0
  <2>1. /\ buckets' = [buckets EXCEPT ![o][b] = d]
        /\ size' = [size EXCEPT ![o] = @ - 1]
        /\ failed' = failed
    BY <1>1, <1>2, <1>6 DEF ClearEntry, WithChain
  <2> HIDE DEF b
  <2>2. /\ d \in Seq(Element) /\ Len(d) = Len(c) - 1
        /\ \A j \in 1 .. i - 1 : d[j] = c[j]
        /\ \A j \in i .. Len(c) - 1 : d[j] = c[j + 1]
    BY <1>3, <1>4, <1>6, RemoveAtRemoves
  <2>3. Len(c) \in Nat /\ i \in 1 .. Len(c)
    BY <1>3, <1>4, <1>6
  <2> DEFINE from(j) == IF j < i THEN j ELSE j + 1
  <2>4. \A j \in 1 .. Len(d) : from(j) \in 1 .. Len(c) \ {i} /\ d[j] = c[from(j)]
    <3> SUFFICES ASSUME NEW j \in 1 .. Len(d)
                 PROVE  from(j) \in 1 .. Len(c) \ {i} /\ d[j] = c[from(j)]
      OBVIOUS
    <3>1. CASE j < i
      BY <2>2, <2>3, <3>1
    <3>2. CASE j >= i
      <4>1. j \in i .. Len(c) - 1 /\ from(j) = j + 1
        BY <2>2, <2>3, <3>2
      <4> QED BY <2>2, <2>3, <4>1
    <3> QED BY <2>3, <3>1, <3>2
  <2>5. \A j, l \in 1 .. Len(d) : from(j) = from(l) => j = l
    BY <2>2, <2>3
  <2> HIDE DEF from, d, i, c
  <2>7. ChainSane(table, d, b)
    <3>1. /\ \A j, l \in 1 .. Len(c) : Equal(c[j].key, c[l].key) => j = l
          /\ \A j \in 1 .. Len(c) : ElementSane(table, c[j], b)
      BY <1>3 DEF ChainSane, KeysDiffer
    <3>2. \A j \in 1 .. Len(d) : from(j) \in 1 .. Len(c) /\ d[j] = c[from(j)]
      BY <2>4
    <3>3. \A j, l \in 1 .. Len(d) : Equal(d[j].key, d[l].key) => j = l
      BY <2>5, <3>1, <3>2
    <3>4. \A j \in 1 .. Len(d) : ElementSane(table, d[j], b)
      BY <3>1, <3>2
    <3> QED BY <3>3, <3>4 DEF ChainSane, KeysDiffer
  <2>8. \A a \in Index : buckets'[o][a] = IF a = b THEN d ELSE buckets[o][a]
    BY <2>1 DEF Inv, TypeOK, Index
  <2>9. /\ \A a \in Index \ {b} : Len(buckets[o][a]) = Len(buckets'[o][a])
        /\ \A a \in Index : Len(buckets'[o][a]) \in Nat
        /\ Len(buckets[o][b]) = Len(buckets'[o][b]) + 1
    <3>1. \A a \in Index : Len(buckets[o][a]) \in Nat
      BY SizeKnown
    <3>2. Len(d) \in Nat /\ Len(c) = Len(d) + 1
      BY <2>2, <2>3
    <3> QED BY <1>1, <2>8, <3>1, <3>2 DEF c
  <2>10. Cardinality(Positions(buckets[o])) = Cardinality(Positions(buckets'[o])) + 1
    BY <1>1, <2>9, OneLonger
  <2>11. Cardinality(Positions(buckets'[o])) = size[o] - 1 /\ size[o] - 1 \in Nat
    <3>1. Cardinality(Positions(buckets'[o])) \in Nat
      BY <2>9, PositionsFinite, FS_CardinalityType
    <3>2. size[o] = Cardinality(Positions(buckets'[o])) + 1
      BY <2>10, SizeKnown
    <3> QED BY <3>1, <3>2
  <2>12. size' \in [Objects -> Nat] /\ size'[o] = size[o] - 1
         /\ \A q \in Objects \ {o} : size'[q] = size[q]
    BY <2>1, <2>11 DEF Inv, TypeOK
  <2>13. failed' \in BOOLEAN
    BY <2>1 DEF Inv, TypeOK
  <2>14. d \in Seq(Element)
    BY <2>2
  <2> QED BY <1>1, <2>1, <2>7, <2>11, <2>12, <2>13, <2>14, ChainReplaced
<1> QED BY <1>5, <1>6

(* A new element comes first in its list.                                  *)
LEMMA ConsSane ==
  ASSUME Inv, ~failed, NEW o \in Objects, NEW k \in Values, NEW v \in Values,
         Present(table, k), Present(table, v), v # Nil, ~IsObject(k),
         Position(Chain(o, k), k) = 0
  PROVE  LET d == Cons([key |-> k, value |-> v], Chain(o, k))
         IN  /\ d \in Seq(Element)
             /\ ChainSane(table, d, BucketIn(table, k))
             /\ LET bs == [buckets[o] EXCEPT ![BucketIn(table, k)] = d]
                IN  Cardinality(Positions(bs)) = size[o] + 1
<1> DEFINE b == BucketIn(table, k)
           c == buckets[o][b]
           e == [key |-> k, value |-> v]
           d == Cons(e, c)
           bs == [buckets[o] EXCEPT ![b] = d]
<1>1. b \in Index /\ Chain(o, k) = c
  BY KeyFound
<1>2. /\ c \in Seq(Element) /\ ChainSane(table, c, b)
      /\ \A i \in 1 .. Len(c) : ~Equal(k, c[i].key) /\ ~Equal(c[i].key, k)
  <2>1. \A i \in 1 .. Len(c) : Equal(k, c[i].key) => i = Position(c, k)
    BY <1>1, KeyFound
  <2>2. Position(c, k) = 0
    BY <1>1
  <2>3. \A i \in 1 .. Len(c) : ~Equal(k, c[i].key)
    BY <2>1, <2>2
  <2> QED BY <1>1, <2>3, ElementsTyped, EqualIs DEF Inv, ChainsSane
<1>3. e \in Element /\ e.key = k /\ e.value = v
  BY DEF Element
<1> HIDE DEF b, e
<1>4. /\ d \in Seq(Element)
      /\ Len(d) = Len(c) + 1
      /\ d[1] = e
      /\ \A i \in 1 .. Len(c) : d[i + 1] = c[i]
  <2>1. c \in Seq(Element) /\ e \in Element
    BY <1>2, <1>3
  <2> HIDE DEF c
  <2> QED BY <2>1, ConsAdds
<1> HIDE DEF d
<1>5. Len(c) \in Nat
  BY <1>2
<1>6. \A j \in 1 .. Len(d) : j = 1 \/ (j - 1 \in 1 .. Len(c) /\ d[j] = c[j - 1])
  <2> TAKE j \in 1 .. Len(d)
  <2>1. j # 1 => j - 1 \in 1 .. Len(c) /\ (j - 1) + 1 = j
    BY <1>4, <1>5
  <2> QED BY <1>4, <2>1
<1>7. ChainSane(table, d, b)
  <2>1. ElementSane(table, e, b)
    BY <1>3 DEF ElementSane, b
  <2>2. \A j \in 1 .. Len(d) : ElementSane(table, d[j], b)
    BY <1>2, <1>4, <1>6, <2>1 DEF ChainSane
  <2>3. KeysDiffer(d)
    <3> SUFFICES ASSUME NEW j \in 1 .. Len(d), NEW l \in 1 .. Len(d),
                        Equal(d[j].key, d[l].key)
                 PROVE  j = l
      BY DEF KeysDiffer
    <3>1. KeysDiffer(c)
      BY <1>2 DEF ChainSane
    <3>2. \A m \in 1 .. Len(d) :
            m # 1 => m - 1 \in 1 .. Len(c) /\ d[m].key = c[m - 1].key
      BY <1>6
    <3>3. \A m \in 1 .. Len(d) : m # 1 => ~Equal(k, d[m].key) /\ ~Equal(d[m].key, k)
      BY SMTT(20), ZenonT(30), <1>2, <3>2
    <3>4. d[1].key = k
      BY <1>3, <1>4
    <3>5. CASE j # 1 /\ l # 1
      <4>1. /\ j - 1 \in 1 .. Len(c) /\ l - 1 \in 1 .. Len(c)
            /\ Equal(c[j - 1].key, c[l - 1].key)
        BY <3>2, <3>5
      <4>2. \A x, y \in 1 .. Len(c) : Equal(c[x].key, c[y].key) => x = y
        BY <3>1 DEF KeysDiffer
      <4>3. j - 1 = l - 1
        BY <4>1, <4>2
      <4> QED BY <4>3, <1>4, <1>5
    <3> QED BY <3>3, <3>4, <3>5
  <2> QED BY <2>2, <2>3 DEF ChainSane
<1>9. Cardinality(Positions(bs)) = size[o] + 1
  <2>1. \A a \in Index : bs[a] = IF a = b THEN d ELSE buckets[o][a]
    BY DEF Inv, TypeOK, Index
  <2> HIDE DEF bs
  <2>2. /\ \A a \in Index \ {b} : Len(bs[a]) = Len(buckets[o][a])
        /\ Len(bs[b]) = Len(buckets[o][b]) + 1
    BY <1>1, <1>4, <2>1
  <2>3. \A a \in Index : Len(buckets[o][a]) \in Nat
    BY SizeKnown
  <2>4. Cardinality(Positions(bs)) = Cardinality(Positions(buckets[o])) + 1
    BY <1>1, <2>2, <2>3, OneLonger
  <2> QED BY <2>4, SizeKnown
<1> QED BY <1>1, <1>4, <1>7, <1>9 DEF b, d, e

LEMMA AddInv ==
  ASSUME Inv, ~failed, UNCHANGED <<table, held>>,
         NEW o \in Objects, \E slot \in Slots : table["object"][slot] = o,
         NEW k \in Values, NEW v \in Values,
         Present(table, k), Present(table, v), v # Nil, ~IsObject(k),
         FindOrAddEntry(o, k, v)
  PROVE  Inv'
<1> DEFINE b == BucketIn(table, k)
           c == Chain(o, k)
           i == Position(c, k)
<1>1. b \in Index /\ c = buckets[o][b] /\ Bucket(k) = b
  BY KeyFound, LookupIs
<1>2. c \in Seq(Element) /\ ChainSane(table, c, b)
  BY <1>1, ElementsTyped DEF Inv, ChainsSane
<1>3. i # 0 => i \in 1 .. Len(c)
  BY KeyFound
<1>4. CASE /\ i # 0
           /\ buckets' = WithChain(o, k, [c EXCEPT ![i].value = v])
           /\ UNCHANGED <<size, failed>>
  <2> DEFINE d == [c EXCEPT ![i].value = v]
  <2>1. buckets' = [buckets EXCEPT ![o][b] = d]
    BY <1>1, <1>4 DEF WithChain
  <2> HIDE DEF b, i, c
  <2>2. /\ d \in Seq(Element) /\ Len(d) = Len(c)
        /\ \A j \in 1 .. Len(c) : d[j] = IF j = i THEN [c[j] EXCEPT !.value = v] ELSE c[j]
    <3>1. c[i] \in Element
      BY <1>2, <1>3, <1>4
    <3>2. [c[i] EXCEPT !.value = v] \in Element
      BY <3>1 DEF Element
    <3> QED BY <1>2, <1>3, <1>4, <3>2
  <2>3. \A j \in 1 .. Len(c) : d[j].key = c[j].key
    <3>1. \A j \in 1 .. Len(c) : c[j] \in Element
      BY <1>2
    <3> QED BY <2>2, <3>1 DEF Element
  <2>4. \A j \in 1 .. Len(c) : d[j].value = IF j = i THEN v ELSE c[j].value
    <3>1. \A j \in 1 .. Len(c) : c[j] \in Element
      BY <1>2
    <3> QED BY <2>2, <3>1 DEF Element
  <2> HIDE DEF d
  <2>5. ChainSane(table, d, b)
    BY <1>2, <2>2, <2>3, <2>4 DEF ChainSane, KeysDiffer, ElementSane
  <2>6. \A a \in Index : buckets'[o][a] = IF a = b THEN d ELSE buckets[o][a]
    BY <2>1 DEF Inv, TypeOK, Index
  <2>7. Positions(buckets'[o]) = Positions(buckets[o])
    <3>1. \A a \in Index : Len(buckets'[o][a]) = Len(buckets[o][a])
      BY <1>1, <2>2, <2>6
    <3> QED BY <3>1, SameLengths
  <2>8. /\ size' \in [Objects -> Nat] /\ failed' \in BOOLEAN /\ ~failed'
        /\ \A q \in Objects \ {o} : size'[q] = size[q]
        /\ size'[o] = Cardinality(Positions(buckets'[o]))
    BY <1>4, <2>7, SizeKnown DEF Inv, TypeOK
  <2> QED BY <1>1, <2>1, <2>2, <2>5, <2>8, ChainReplaced
<1>5. CASE /\ i = 0
           /\ buckets' = WithChain(o, k, Cons([key |-> k, value |-> v], c))
           /\ size' = [size EXCEPT ![o] = @ + 1]
           /\ UNCHANGED failed
  <2> DEFINE d == Cons([key |-> k, value |-> v], c)
  <2>1. buckets' = [buckets EXCEPT ![o][b] = d]
    BY <1>1, <1>5 DEF WithChain
  <2>2. /\ d \in Seq(Element) /\ ChainSane(table, d, b)
        /\ Cardinality(Positions([buckets[o] EXCEPT ![b] = d])) = size[o] + 1
    BY <1>5, ConsSane
  <2> HIDE DEF b, d
  <2>3. buckets'[o] = [buckets[o] EXCEPT ![b] = d]
    BY <2>1 DEF Inv, TypeOK
  <2>4. /\ size' \in [Objects -> Nat] /\ failed' \in BOOLEAN
        /\ \A q \in Objects \ {o} : size'[q] = size[q]
        /\ size'[o] = Cardinality(Positions(buckets'[o]))
    BY <1>5, <2>2, <2>3 DEF Inv, TypeOK
  <2> QED BY <1>1, <2>1, <2>2, <2>4, ChainReplaced
<1>6. CASE /\ i = 0
           /\ buckets' = WithChain(o, k, Cons([key |-> k, value |-> Zero], c))
           /\ failed' = TRUE
           /\ UNCHANGED size
  <2> DEFINE d == Cons([key |-> k, value |-> Zero], c)
  <2>1. buckets' = [buckets EXCEPT ![o][b] = d]
    BY <1>1, <1>6 DEF WithChain
  <2>2. Zero \in Values /\ Present(table, Zero) /\ Zero # Nil
    BY RefParts, FieldsAssumption DEF Present
  <2>3. d \in Seq(Element) /\ ChainSane(table, d, b)
    BY <1>6, <2>2, ConsSane
  <2>4. size' \in [Objects -> Nat] /\ failed' = TRUE
    BY <1>6 DEF Inv, TypeOK
  <2> HIDE DEF b, d
  <2> QED BY <1>1, <2>1, <2>3, <2>4, ChainReplaced
<1> QED BY <1>4, <1>5, <1>6 DEF FindOrAddEntry

LEMMA FieldSetInv ==
  ASSUME Usual, Inv, ~failed, NEW po \in Places, NEW k \in Operands,
         NEW v \in Operands, FieldSet(po, k, v)
  PROVE  Inv'
<1> DEFINE o == HeldObject(po)
<1>1. /\ k \in Values /\ Present(table, k)
      /\ v \in Values /\ Present(table, v)
  BY OperandsPresent
<1>2. o \in Objects /\ ~IsObject(k) /\ UNCHANGED <<table, held>>
  BY DEF FieldSet, Usual
<1>3. \E slot \in Slots : table["object"][slot] = o
  <2>1. IsObject(held[po])
    BY <1>2, FieldsAssumption DEF HeldObject, Things
  <2> QED BY <2>1, RefParts DEF HeldObject, IsObject, At
<1>4. CASE v = Nil /\ ClearEntry(o, k)
  BY <1>1, <1>2, <1>3, <1>4, ClearInv
<1>5. CASE v # Nil /\ FindOrAddEntry(o, k, v)
  BY <1>1, <1>2, <1>3, <1>5, AddInv
<1> QED BY <1>4, <1>5 DEF FieldSet

-----------------------------------------------------------------------------
(* Steps of the collector.                                                 *)

(* Whatever an element has counts as referred to.                          *)
LEMMA ElementsReferenced ==
  ASSUME Inv, NEW o \in Objects, NEW b \in Index, NEW i \in 1 .. Len(buckets[o][b])
  PROVE  /\ buckets[o][b][i].key \in Referenced
         /\ buckets[o][b][i].value \in Referenced
<1>1. o \in Live
  <2>1. buckets[o][b] # <<>>
    BY ElementsTyped DEF Inv
  <2> QED BY <2>1, EmptyHas DEF Inv, DeadEmpty, Live
<1>2. buckets[o][b][i] \in ToSet(buckets[o][b])
  BY ElementsTyped DEF Inv, ToSet
<1>3. b \in DOMAIN buckets[o]
  BY DEF Inv, TypeOK, Index
<1>4. buckets[o][b][i] \in Elements(o)
  BY <1>2, <1>3 DEF Elements
<1> QED BY <1>1, <1>4 DEF Referenced

LEMMA RemovedEntry ==
  ASSUME Inv, NEW kind \in Kinds, NEW slot \in Slots,
         table' = [table EXCEPT ![kind][slot] = None]
  PROVE  /\ table' \in [Kinds -> [Slots -> Things \cup {None}]]
         /\ TablesSane'
         /\ \A v \in Values : Present(table, v) /\ v # <<kind, slot>>
                                => Stays(table, table', v)
<1>1. table' \in [Kinds -> [Slots -> Things \cup {None}]]
  BY DEF Inv, TypeOK
<1>2. \A v \in Refs : Thing(table', v) = IF v = <<kind, slot>> THEN None
                                                          ELSE Thing(table, v)
  BY RefParts DEF Thing, Inv, TypeOK
<1>3. TablesSane'
  <2>1. \A v, w \in Refs : Thing(table', v) = Thing(table', w)
                             /\ Thing(table', v) # None => v = w
    BY <1>2 DEF Inv, TablesSane
  <2>2. /\ \A s \in Slots : table'["object"][s] \in Objects \cup {None}
        /\ \A s \in Slots : table'["string"][s] \in Strings \cup {None}
    BY DEF Inv, TablesSane, TypeOK, Kinds
  <2> QED BY <2>1, <2>2 DEF TablesSane
<1>4. \A v \in Values : Present(table, v) /\ v # <<kind, slot>>
                          => Stays(table, table', v)
  <2>1. \A v \in Values \ Refs : Stays(table, table', v)
    BY DEF Stays, Present, Thing
  <2>2. \A v \in Refs : /\ Present(table, v) <=> Thing(table, v) # None
                        /\ Present(table', v) <=> Thing(table', v) # None
    BY DEF Present, Thing
  <2> QED BY <1>2, <2>1, <2>2 DEF Stays
<1> QED BY <1>1, <1>3, <1>4

LEMMA CleanOldStringInv ==
  ASSUME Inv, ~failed, NEW slot \in Slots, CleanOldString(slot)
  PROVE  Inv'
<1>1. /\ table' = [table EXCEPT !["string"][slot] = None]
      /\ <<"string", slot>> \notin Referenced
      /\ UNCHANGED <<buckets, size, held, failed>>
  BY DEF CleanOldString
<1>2. /\ table' \in [Kinds -> [Slots -> Things \cup {None}]]
      /\ TablesSane'
      /\ \A v \in Values : Present(table, v) /\ v # <<"string", slot>>
                             => Stays(table, table', v)
  BY <1>1, RemovedEntry DEF Kinds
<1>3. TypeOK'
  BY <1>1, <1>2 DEF Inv, TypeOK
<1>4. ChainsSane' /\ SizesCount'
  <2>1. \A o \in Objects : buckets'[o] = buckets[o] /\ size'[o] = size[o]
    BY <1>1
  <2>2. \A o \in Objects, b \in Index : \A i \in 1 .. Len(buckets[o][b]) :
          /\ Stays(table, table', buckets[o][b][i].key)
          /\ Stays(table, table', buckets[o][b][i].value)
    <3> TAKE o \in Objects, b \in Index
    <3> TAKE i \in 1 .. Len(buckets[o][b])
    <3>1. /\ buckets[o][b][i].key # <<"string", slot>>
          /\ buckets[o][b][i].value # <<"string", slot>>
      BY <1>1, ElementsReferenced
    <3> QED BY <1>2, <3>1, ElementsPresent
  <2> QED BY <2>1, <2>2, KeptOrLost
<1>5. DeadEmpty'
  <2>1. table'["object"] = table["object"] /\ buckets' = buckets
    BY <1>1 DEF Inv, TypeOK, Kinds
  <2> QED BY <2>1 DEF Inv, DeadEmpty
<1>6. HeldPresent'
  <2>1. \A p \in Places : held[p] \in Values /\ held[p] \in Referenced
    BY DEF Inv, TypeOK, Referenced
  <2>2. \A p \in Places : Present(table', held[p])
    BY <1>1, <1>2, <2>1 DEF Inv, HeldPresent, Stays
  <2> QED BY <1>1, <2>2 DEF Inv, HeldPresent
<1> QED BY <1>2, <1>3, <1>4, <1>5, <1>6 DEF Inv

LEMMA CleanOldObjectInv ==
  ASSUME Inv, ~failed, NEW slot \in Slots, CleanOldObject(slot)
  PROVE  Inv'
<1> DEFINE o == table["object"][slot]
<1>1. /\ o # None
      /\ <<"object", slot>> \notin Referenced
      /\ table' = [table EXCEPT !["object"][slot] = None]
      /\ buckets' = [buckets EXCEPT ![o] = Empty]
      /\ size' = [size EXCEPT ![o] = 0]
      /\ UNCHANGED <<held, failed>>
  BY DEF CleanOldObject
<1>2. o \in Objects
  BY <1>1 DEF Inv, TablesSane
<1>3. /\ table' \in [Kinds -> [Slots -> Things \cup {None}]]
      /\ TablesSane'
      /\ \A v \in Values : Present(table, v) /\ v # <<"object", slot>>
                             => Stays(table, table', v)
  BY <1>1, RemovedEntry DEF Kinds
<1>4. TypeOK'
  BY <1>1, <1>3, EmptyHas DEF Inv, TypeOK, Index
<1>5. ChainsSane' /\ SizesCount'
  <2> SUFFICES ASSUME NEW q \in Objects
               PROVE  \/ buckets'[q] = Empty /\ size'[q] = 0
                      \/ /\ buckets'[q] = buckets[q] /\ size'[q] = size[q]
                         /\ \A b \in Index : \A i \in 1 .. Len(buckets[q][b]) :
                              /\ Stays(table, table', buckets[q][b][i].key)
                              /\ Stays(table, table', buckets[q][b][i].value)
    BY KeptOrLost
  <2>1. CASE q = o
    BY <1>1, <2>1 DEF Inv, TypeOK
  <2>2. CASE q # o
    <3>1. buckets'[q] = buckets[q] /\ size'[q] = size[q]
      BY <1>1, <2>2 DEF Inv, TypeOK
    <3>2. ASSUME NEW b \in Index, NEW i \in 1 .. Len(buckets[q][b])
          PROVE  /\ Stays(table, table', buckets[q][b][i].key)
                 /\ Stays(table, table', buckets[q][b][i].value)
      <4>1. /\ buckets[q][b][i].key # <<"object", slot>>
            /\ buckets[q][b][i].value # <<"object", slot>>
        BY <1>1, ElementsReferenced
      <4> QED BY <1>3, <4>1, ElementsPresent
    <3> QED BY <3>1, <3>2
  <2> QED BY <2>1, <2>2
<1>6. DeadEmpty'
  <2> SUFFICES ASSUME NEW q \in Objects, \A s \in Slots : table'["object"][s] # q
               PROVE  buckets'[q] = Empty
    BY DEF DeadEmpty
  <2>1. \A s \in Slots : table'["object"][s] = IF s = slot THEN None
                                                       ELSE table["object"][s]
    BY <1>1 DEF Inv, TypeOK, Kinds
  <2>2. CASE q = o
    BY <1>1, <2>2 DEF Inv, TypeOK
  <2>3. CASE q # o
    <3>1. \A s \in Slots : table["object"][s] # q
      BY <2>1, <2>3
    <3>2. buckets[q] = Empty
      BY <3>1 DEF Inv, DeadEmpty
    <3> QED BY <1>1, <2>3, <3>2 DEF Inv, TypeOK
  <2> QED BY <2>2, <2>3
<1>7. HeldPresent'
  <2>1. \A p \in Places : held[p] \in Values /\ held[p] \in Referenced
    BY DEF Inv, TypeOK, Referenced
  <2>2. \A p \in Places : Present(table', held[p])
    BY <1>1, <1>3, <2>1 DEF Inv, HeldPresent, Stays
  <2> QED BY <1>1, <2>2 DEF Inv, HeldPresent
<1> QED BY <1>3, <1>4, <1>5, <1>6, <1>7 DEF Inv

(* What a step of compaction does to what is written in other places.      *)
Moved(kind, old, new, v) == IF v = <<kind, old>> THEN <<kind, new>> ELSE v

LEMMA MovedEntry ==
  ASSUME Inv, NEW kind \in Kinds, NEW old \in Slots, NEW new \in Slots,
         Move(kind, old, new)
  PROVE  /\ table' \in [Kinds -> [Slots -> Things \cup {None}]]
         /\ TablesSane'
         /\ \A v \in Values : Present(table, v) =>
              LET w == Moved(kind, old, new, v)
              IN  /\ w \in Values /\ Present(table', w)
                  /\ Thing(table', w) = Thing(table, v)
                  /\ IsObject(w) <=> IsObject(v)
                  /\ w = Nil <=> v = Nil
                  /\ w \in NaNs <=> v \in NaNs
                  /\ IF v \in Refs THEN w \in Refs ELSE w = v
<1> DEFINE from == <<kind, old>>
           to == <<kind, new>>
<1>1. /\ table' = [table EXCEPT ![kind] = [@ EXCEPT ![new] = table[kind][old],
                                                    ![old] = None]]
      /\ table[kind][new] = None /\ table[kind][old] # None
      /\ new < old
  BY DEF Move
<1>2. table' \in [Kinds -> [Slots -> Things \cup {None}]]
  BY <1>1 DEF Inv, TypeOK
<1>3. from \in Refs /\ to \in Refs /\ from # to /\ from[1] = kind /\ to[1] = kind
  BY <1>1, RefParts DEF Slots
<1>4. \A v \in Refs : Thing(table', v) = IF v = to THEN Thing(table, from)
                                         ELSE IF v = from THEN None
                                         ELSE Thing(table, v)
  <2> TAKE v \in Refs
  <2>1. \A s \in Slots : table'[kind][s] = IF s = new THEN table[kind][old]
                                           ELSE IF s = old THEN None
                                           ELSE table[kind][s]
    BY <1>1 DEF Inv, TypeOK, Slots
  <2>2. \A k \in Kinds \ {kind} : table'[k] = table[k]
    BY <1>1 DEF Inv, TypeOK
  <2>3. Thing(table, from) = table[kind][old]
    BY <1>3 DEF Thing
  <2>4. v[1] \in Kinds /\ v[2] \in Slots /\ v = <<v[1], v[2]>>
    BY RefParts
  <2>5. /\ Thing(table', v) = table'[v[1]][v[2]]
        /\ Thing(table, v) = table[v[1]][v[2]]
    BY DEF Thing
  <2>6. CASE v[1] = kind
    <3>1. (v = to <=> v[2] = new) /\ (v = from <=> v[2] = old)
      BY <2>4, <2>6
    <3> QED BY <2>1, <2>3, <2>4, <2>5, <2>6, <3>1
  <2>7. CASE v[1] # kind
    <3>1. v # to /\ v # from
      BY <1>3, <2>7
    <3> QED BY <2>2, <2>4, <2>5, <2>7, <3>1
  <2> QED BY <2>6, <2>7
<1>5. Thing(table, to) = None
  BY <1>1, <1>3 DEF Thing
<1> HIDE DEF from, to
<1>6. TablesSane'
  <2>1. \A v, w \in Refs : Thing(table', v) = Thing(table', w)
                             /\ Thing(table', v) # None => v = w
    <3>1. \A v, w \in Refs : Thing(table, v) = Thing(table, w)
                               /\ Thing(table, v) # None => v = w
      BY DEF Inv, TablesSane
    <3> QED BY <1>3, <1>4, <1>5, <3>1
  <2>2. /\ \A s \in Slots : table'["object"][s] \in Objects \cup {None}
        /\ \A s \in Slots : table'["string"][s] \in Strings \cup {None}
    <3>1. \A s \in Slots : table'[kind][s] \in {table[kind][x] : x \in Slots} \cup {None}
      BY <1>1 DEF Inv, TypeOK
    <3>2. \A k \in Kinds \ {kind} : table'[k] = table[k]
      BY <1>1 DEF Inv, TypeOK
    <3> QED BY <3>1, <3>2 DEF Inv, TablesSane, Kinds
  <2> QED BY <2>1, <2>2 DEF TablesSane
<1>7. ASSUME NEW v \in Values, Present(table, v)
      PROVE  LET w == Moved(kind, old, new, v)
             IN  /\ w \in Values /\ Present(table', w)
                 /\ Thing(table', w) = Thing(table, v)
                 /\ IsObject(w) <=> IsObject(v)
                 /\ w = Nil <=> v = Nil
                 /\ w \in NaNs <=> v \in NaNs
                 /\ IF v \in Refs THEN w \in Refs ELSE w = v
  <2>1. \A x \in Refs : /\ Present(table, x) <=> Thing(table, x) # None
                        /\ Present(table', x) <=> Thing(table', x) # None
    BY DEF Present, Thing
  <2>2. CASE v \notin Refs
    <3>1. v # from /\ Moved(kind, old, new, v) = v
      BY <1>3, <2>2 DEF Moved, from
    <3> QED BY <2>2, <3>1 DEF Present, Thing
  <2>3. CASE v = from
    <3>1. Moved(kind, old, new, v) = to
      BY <2>3 DEF Moved, from, to
    <3>2. Thing(table', to) = Thing(table, from) /\ Thing(table, from) # None
      BY <1>3, <1>4, <1>7, <2>1, <2>3
    <3>3. to \in Values /\ from # Nil /\ to # Nil /\ from \notin NaNs /\ to \notin NaNs
      BY <1>3, RefParts, RefKeys
    <3> QED BY <1>3, <2>1, <2>3, <3>1, <3>2, <3>3 DEF IsObject
  <2>4. CASE v \in Refs /\ v # from
    <3>1. Moved(kind, old, new, v) = v
      BY <2>4 DEF Moved, from
    <3>2. v # to
      BY <1>3, <1>5, <1>7, <2>1
    <3>3. Thing(table', v) = Thing(table, v)
      BY <1>4, <2>4, <3>2
    <3> QED BY <1>7, <2>1, <2>4, <3>1, <3>3
  <2> QED BY <2>2, <2>3, <2>4
<1> QED BY <1>2, <1>6, <1>7

(* Keys are equal after a move when they were.                             *)
LEMMA EqualMoved ==
  ASSUME TablesSane, NEW v \in Values, NEW w \in Values,
         NEW x \in Values, NEW y \in Values, Present(table, v), Present(table, w),
         Thing(table', x) = Thing(table, v), Thing(table', y) = Thing(table, w),
         IF v \in Refs THEN x \in Refs ELSE x = v,
         IF w \in Refs THEN y \in Refs ELSE y = w,
         Equal(x, y)
  PROVE  Equal(v, w)
<1>1. KeyOf(x) = KeyOf(y)
  BY DEF Equal
<1>2. CASE v \in Refs /\ w \in Refs
  <2>1. x = y
    BY <1>1, <1>2, RefKeys
  <2>2. v = w
    BY <1>2, <2>1, OneName
  <2> QED BY <1>2, <2>2, RefKeys, EqualIs
<1>3. CASE v \notin Refs /\ w \notin Refs
  BY <1>3
<1>4. CASE ~(v \in Refs <=> w \in Refs)
  <2>1. \A r \in Refs : KeyOf(r) \notin Atoms
    BY RefKeys, RefParts
  <2>2. \A a \in Values : a \notin Refs => KeyOf(a) \in Atoms
    BY RefParts, KeyNamesAre
  <2> QED BY <1>1, <1>4, <2>1, <2>2
<1> QED BY <1>2, <1>3, <1>4

LEMMA MoveInv ==
  ASSUME Usual, Inv, ~failed, NEW kind \in Kinds, NEW old \in Slots, NEW new \in Slots,
         Move(kind, old, new)
  PROVE  Inv'
<1> DEFINE m(v) == Moved(kind, old, new, v)
<1>1. /\ table' \in [Kinds -> [Slots -> Things \cup {None}]]
      /\ TablesSane'
      /\ \A v \in Values : Present(table, v) =>
              /\ m(v) \in Values /\ Present(table', m(v))
              /\ Thing(table', m(v)) = Thing(table, v)
              /\ IsObject(m(v)) <=> IsObject(v)
              /\ m(v) = Nil <=> v = Nil
              /\ m(v) \in NaNs <=> v \in NaNs
              /\ IF v \in Refs THEN m(v) \in Refs ELSE m(v) = v
  BY MovedEntry
<1> HIDE DEF m
<1>2. /\ held' = [p \in Places |-> IF p \in ScriptPlaces THEN m(held[p]) ELSE held[p]]
      /\ buckets' = [o \in Objects |-> [b \in DOMAIN buckets[o] |->
           [i \in DOMAIN buckets[o][b] |->
              [key |-> m(buckets[o][b][i].key), value |-> m(buckets[o][b][i].value)]]]]
      /\ UNCHANGED <<size, failed>>
  BY DEF Move, MoveReferences, m, Moved
<1>3. ASSUME NEW o \in Objects
      PROVE  /\ buckets'[o] \in [Index -> Seq(Element)]
             /\ \A b \in Index :
                  /\ Len(buckets'[o][b]) = Len(buckets[o][b])
                  /\ \A i \in 1 .. Len(buckets[o][b]) :
                       /\ buckets'[o][b][i].key = m(buckets[o][b][i].key)
                       /\ buckets'[o][b][i].value = m(buckets[o][b][i].value)
  <2>1. DOMAIN buckets[o] = Index
    BY DEF Inv, TypeOK, Index
  <2>2. buckets'[o] = [b \in Index |-> [i \in DOMAIN buckets[o][b] |->
              [key |-> m(buckets[o][b][i].key), value |-> m(buckets[o][b][i].value)]]]
    BY <1>2, <2>1
  <2>3. ASSUME NEW b \in Index
        PROVE  /\ buckets'[o][b] \in Seq(Element)
               /\ Len(buckets'[o][b]) = Len(buckets[o][b])
               /\ \A i \in 1 .. Len(buckets[o][b]) :
                    /\ buckets'[o][b][i].key = m(buckets[o][b][i].key)
                    /\ buckets'[o][b][i].value = m(buckets[o][b][i].value)
    <3> DEFINE e(i) == [key |-> m(buckets[o][b][i].key),
                        value |-> m(buckets[o][b][i].value)]
    <3>1. /\ DOMAIN buckets[o][b] = 1 .. Len(buckets[o][b])
          /\ Len(buckets[o][b]) \in Nat
      BY ElementsTyped DEF Inv
    <3>2. \A i \in 1 .. Len(buckets[o][b]) : e(i) \in Element
      BY <1>1, ElementsPresent DEF Element
    <3>3. buckets'[o][b] = [i \in 1 .. Len(buckets[o][b]) |-> e(i)]
      BY <2>2, <3>1
    <3> HIDE DEF e
    <3>4. [i \in 1 .. Len(buckets[o][b]) |-> e(i)] \in Seq(Element)
      BY <3>1, <3>2
    <3>5. Len(buckets'[o][b]) = Len(buckets[o][b])
      BY <3>1, <3>3, <3>4
    <3> QED BY <3>3, <3>4, <3>5 DEF e
  <2> QED BY <2>2, <2>3
<1>4. TypeOK'
  <2>1. \A p \in Places : held[p] \in Values /\ m(held[p]) \in Values
    BY <1>1 DEF Inv, TypeOK, HeldPresent
  <2>2. held' \in [Places -> Values]
    BY <1>2, <2>1
  <2>3. buckets' \in [Objects -> [Index -> Seq(Element)]]
    BY <1>2, <1>3
  <2> QED BY <1>1, <1>2, <2>2, <2>3 DEF Inv, TypeOK, Index
<1>5. ChainsSane'
  <2> SUFFICES ASSUME NEW o \in Objects, NEW b \in Index
               PROVE  ChainSane(table', buckets'[o][b], b)
    BY DEF ChainsSane
  <2>1. ChainSane(table, buckets[o][b], b)
    BY DEF Inv, ChainsSane
  <2>2. \A i \in 1 .. Len(buckets[o][b]) :
          /\ buckets'[o][b][i].key = m(buckets[o][b][i].key)
          /\ buckets'[o][b][i].value = m(buckets[o][b][i].value)
    BY <1>3
  <2>3. Len(buckets'[o][b]) = Len(buckets[o][b])
    BY <1>3
  <2>4. KeysDiffer(buckets'[o][b])
    <3> SUFFICES ASSUME NEW i \in 1 .. Len(buckets[o][b]),
                        NEW j \in 1 .. Len(buckets[o][b]),
                        Equal(m(buckets[o][b][i].key), m(buckets[o][b][j].key))
                 PROVE  i = j
      BY <2>2, <2>3 DEF KeysDiffer
    <3> DEFINE k == buckets[o][b][i].key
               l == buckets[o][b][j].key
    <3>1. k \in Values /\ Present(table, k) /\ l \in Values /\ Present(table, l)
      BY ElementsPresent
    <3>2. Equal(k, l)
      <4> HIDE DEF k, l
      <4>1. Equal(m(k), m(l))
        BY DEF k, l
      <4> QED BY <1>1, <3>1, <4>1, EqualMoved DEF Inv
    <3> QED BY <2>1, <3>2 DEF ChainSane, KeysDiffer
  <2>5. ASSUME NEW i \in 1 .. Len(buckets[o][b])
        PROVE  ElementSane(table', buckets'[o][b][i], b)
    <3> DEFINE k == buckets[o][b][i].key
    <3>1. /\ k \in Values /\ Present(table, k) /\ ~IsObject(k) /\ BucketIn(table, k) = b
          /\ buckets[o][b][i].value \in Values
          /\ Present(table, buckets[o][b][i].value) /\ buckets[o][b][i].value # Nil
      BY <2>1, ElementsPresent DEF ChainSane, ElementSane
    <3>2. BucketIn(table', m(k)) = BucketIn(table, k)
      BY <1>1, <3>1 DEF BucketIn, HashIn
    <3> HIDE DEF k
    <3> QED BY <1>1, <2>2, <3>1, <3>2 DEF ElementSane, k
  <2> QED BY <2>3, <2>4, <2>5 DEF ChainSane
<1>6. SizesCount'
  <2> SUFFICES ASSUME NEW o \in Objects
               PROVE  Positions(buckets'[o]) = Positions(buckets[o])
    BY <1>2 DEF Inv, SizesCount
  <2>1. \A b \in Index : Len(buckets'[o][b]) = Len(buckets[o][b])
    BY <1>3
  <2> QED BY <2>1, SameLengths
<1>7. DeadEmpty'
  <2> SUFFICES ASSUME NEW o \in Objects, \A s \in Slots : table'["object"][s] # o
               PROVE  buckets'[o] = Empty
    BY DEF DeadEmpty
  <2>1. \A s \in Slots : table["object"][s] # o
    <3> SUFFICES ASSUME NEW s \in Slots, table["object"][s] = o
                 PROVE  FALSE
      OBVIOUS
    <3>1. <<"object", s>> \in Values /\ Thing(table, <<"object", s>>) = o
      BY RefParts DEF Thing, Kinds
    <3>2. o # None
      BY FieldsAssumption DEF Things
    <3>3. Present(table, <<"object", s>>)
      BY <3>1, <3>2, RefParts DEF Present, Kinds
    <3>4. IsObject(<<"object", s>>)
      BY RefParts DEF IsObject, Kinds
    <3>5. /\ Thing(table', m(<<"object", s>>)) = o
          /\ IsObject(m(<<"object", s>>))
      BY <1>1, <3>1, <3>3, <3>4
    <3> QED BY <3>5, RefParts DEF IsObject, Thing
  <2>2. buckets[o] = Empty
    BY <2>1 DEF Inv, DeadEmpty
  <2>3. \A b \in Index : buckets'[o][b] = <<>>
    BY <1>3, <2>2, EmptyHas, EmptySeq
  <2>4. buckets'[o] = [b \in Index |-> <<>>]
    BY <1>3, <2>3
  <2> QED BY <2>4 DEF Empty, Index
<1>8. HeldPresent'
  <2>0. "host" \in Places /\ "host" \notin ScriptPlaces
    BY FieldsAssumption DEF Places
  <2>1. held["host"] = m(held["host"])
    <3>1. held["host"] # <<kind, old>>
      <4>1. CASE kind = "object"
        BY <4>1 DEF Move, MayMove
      <4>2. CASE kind = "string"
        <5>1. <<kind, old>> \in Refs /\ ~IsObject(<<kind, old>>)
          BY <4>2, RefParts DEF IsObject, Kinds
        <5> QED BY <5>1 DEF Inv, HeldPresent
      <4> QED BY <4>1, <4>2 DEF Kinds
    <3> QED BY <3>1 DEF m, Moved
  <2>2. \A p \in Places : held'[p] = m(held[p])
    BY <1>2, <2>0, <2>1 DEF Places, Usual
  <2>3. \A p \in Places : Present(table', m(held[p]))
    BY <1>1 DEF Inv, TypeOK, HeldPresent
  <2>4. held'["host"] = held["host"]
    BY <2>0, <2>1, <2>2
  <2> QED BY <2>2, <2>3, <2>4 DEF Inv, HeldPresent
<1> QED BY <1>1, <1>4, <1>5, <1>6, <1>7, <1>8 DEF Inv

-----------------------------------------------------------------------------
(* The theorems.                                                           *)

LEMMA NextInv == Usual /\ Inv /\ [Next]_vars => Inv'
<1> SUFFICES ASSUME Usual, Inv, [Next]_vars PROVE Inv'
  OBVIOUS
<1>1. CASE UNCHANGED vars
  BY <1>1 DEF vars, Inv, TypeOK, TablesSane, ChainsSane, DeadEmpty, HeldPresent, SizesCount
<1>2. CASE Next
  <2>1. ~failed
    BY <1>2 DEF Next
  <2>2. ASSUME NEW p \in ScriptPlaces, CreateObject(p) PROVE Inv'
    BY <2>1, <2>2, CreateInv
  <2>3. ASSUME NEW p \in ScriptPlaces, FindOrAddString(p) PROVE Inv'
    BY <2>1, <2>3, FindOrAddStringInv
  <2>4. ASSUME NEW p \in ScriptPlaces,
               \/ PushAtom(p)
               \/ \E q \in Places : Copy(p, q)
               \/ \E po \in Places, k \in Operands : FieldGet(p, po, k)
        PROVE  Inv'
    BY <2>4, HoldsInv
  <2>5. ASSUME NEW po \in Places, NEW k \in Operands, NEW v \in Operands,
               FieldSet(po, k, v)
        PROVE  Inv'
    BY <2>1, <2>5, FieldSetInv
  <2>6. ASSUME ReleaseHandle PROVE Inv'
    BY <2>6, RefParts, HoldInv DEF ReleaseHandle, Present, Places
  <2>7. ASSUME NEW slot \in Slots, CleanOldObject(slot) PROVE Inv'
    BY <2>1, <2>7, CleanOldObjectInv
  <2>8. ASSUME NEW slot \in Slots, CleanOldString(slot) PROVE Inv'
    BY <2>1, <2>8, CleanOldStringInv
  <2>9. ASSUME NEW kind \in Kinds, NEW old \in Slots, NEW new \in Slots,
               Move(kind, old, new)
        PROVE  Inv'
    BY <2>1, <2>9, MoveInv
  <2> QED BY <1>2, <2>2, <2>3, <2>4, <2>5, <2>6, <2>7, <2>8, <2>9 DEF Next
<1> QED BY <1>1, <1>2

LEMMA Invariant == ASSUME Usual PROVE Spec => []Inv
<1>1. Inv /\ [Next]_vars => Inv'
  BY NextInv
<1> QED BY <1>1, InitInv, PTL DEF Spec

(* The variables are of their types: in particular the count of an         *)
(* object's elements never goes below 0.                                   *)
THEOREM TypeCorrect == ASSUME Usual PROVE Spec => []TypeOK
<1>1. Inv => TypeOK
  BY DEF Inv
<1> QED BY <1>1, Invariant, PTL

(* Whatever is collected or moved, a reference that a program or a field   *)
(* has is to the object or string it was to.                               *)
THEOREM ReferencesTheorem == ASSUME Usual PROVE Spec => []ReferencesStay
<1>1. ASSUME Inv PROVE ReferencesStay
  <2> SUFFICES ASSUME NEW v \in Referenced, v \in Refs PROVE At(v) # None
    BY DEF ReferencesStay
  <2>1. CASE v \in {held[p] : p \in Places}
    BY <1>1, <2>1, LookupIs DEF Inv, HeldPresent
  <2>2. ASSUME NEW o \in Live, NEW e \in Elements(o), v \in {e.key, e.value}
        PROVE  At(v) # None
    <3>1. PICK b \in DOMAIN buckets[o] : e \in ToSet(buckets[o][b])
      BY DEF Elements
    <3>2. o \in Objects /\ b \in Index
      BY <1>1, <3>1 DEF Live, Inv, TypeOK, Index
    <3>3. PICK i \in 1 .. Len(buckets[o][b]) : e = buckets[o][b][i]
      BY <1>1, <3>1, <3>2, ElementsTyped DEF ToSet, Inv
    <3>4. Present(table, e.key) /\ Present(table, e.value)
      BY <1>1, <3>2, <3>3, ElementsPresent
    <3> QED BY <2>2, <3>4, LookupIs
  <2> QED BY <2>1, <2>2 DEF Referenced
<1> QED BY <1>1, Invariant, PTL

(* A search for the key of any field, except NaN, looks in the list the    *)
(* field is in and finds that field.                                       *)
THEOREM KeysTheorem == ASSUME Usual PROVE Spec => []KeysFindable
<1>1. ASSUME Inv PROVE KeysFindable
  <2> SUFFICES ASSUME NEW o \in Live, NEW b \in DOMAIN buckets[o],
                      NEW i \in DOMAIN buckets[o][b],
                      buckets[o][b][i].key \notin NaNs
               PROVE  /\ Bucket(buckets[o][b][i].key) = b
                      /\ Position(buckets[o][b], buckets[o][b][i].key) = i
    BY DEF KeysFindable
  <2>1. o \in Objects /\ b \in Index
    BY <1>1 DEF Live, Inv, TypeOK, Index
  <2>2. buckets[o][b] \in Seq(Element) /\ i \in 1 .. Len(buckets[o][b])
    BY <1>1, <2>1, ElementsTyped DEF Inv
  <2>3. ChainSane(table, buckets[o][b], b)
    BY <1>1, <2>1 DEF Inv, ChainsSane
  <2>4. buckets[o][b][i].key \in Values
    BY <1>1, <2>1, <2>2, ElementsPresent
  <2>5. Position(buckets[o][b], buckets[o][b][i].key) = i
    BY <2>2, <2>3, PositionFinds, EqualIs DEF ChainSane
  <2>6. Bucket(buckets[o][b][i].key) = b
    BY <2>2, <2>3, <2>4, LookupIs DEF ChainSane, ElementSane
  <2> QED BY <2>5, <2>6
<1> QED BY <1>1, Invariant, PTL

-----------------------------------------------------------------------------
(* What a program sees of fields.                                          *)

(* A field in terms of what its key and value are.                         *)
HasField(t, bs, n, w) ==
  \E b \in Index : \E i \in 1 .. Len(bs[b]) :
    HasKey(t, bs[b][i], n) /\ Thing(t, bs[b][i].value) = w

(* What the elements of an object are found under.                         *)
KeysOf(t, bs) ==
  {n \in KeyNames : \E b \in Index : \E i \in 1 .. Len(bs[b]) :
                      HasKey(t, bs[b][i], n)}

(* There is one value that is n.                                           *)
LEMMA OneRef ==
  ASSUME Inv, NEW k \in Values, Present(table, k)
  PROVE  RefsTo(Thing(table, k)) = {k}
<1> DEFINE n == Thing(table, k)
<1>1. n \in Names /\ None \notin Things
  BY RefsNamed, NamesFinite DEF Inv
<1>2. CASE k \in Refs
  <2>1. n \in Things /\ n \notin Atoms
    BY <1>2, RefsNamed, FieldsAssumption DEF Inv
  <2>2. \A v \in Refs : At(v) = n => v = k
    BY <1>1, <1>2, <2>1, LookupIs DEF Inv, TablesSane
  <2>3. At(k) = n
    BY <1>2, LookupIs
  <2> QED BY <1>2, <2>1, <2>2, <2>3 DEF RefsTo
<1>3. CASE k \notin Refs
  <2>1. n = k /\ k \in Atoms
    BY <1>3, RefParts DEF Thing
  <2> QED BY <2>1 DEF RefsTo
<1> QED BY <1>2, <1>3

LEMMA FieldNamedIs ==
  ASSUME Inv, NEW o \in Objects, NEW k \in Values, Present(table, k), k \notin NaNs
  PROVE  FieldNamed(o, KeyIn(table, k)) = Thing(table, Field(o, k))
<1>0. PICK j : j = KeyOf(k)
  OBVIOUS
<1>1. /\ j \in Values /\ Present(table, j) /\ j \notin NaNs
      /\ Thing(table, j) = KeyIn(table, k) /\ KeyOf(j) = KeyOf(k)
  <2>1. CASE k \in Refs
    <3>1. j = k
      BY <1>0, <2>1, RefKeys
    <3> QED BY <2>1, <3>1, KeyInIs DEF Inv
  <2>2. CASE k \notin Refs
    <3>1. k \in Atoms /\ j \in Atoms /\ j \notin NaNs /\ KeyOf(j) = KeyOf(k)
      BY <1>0, <2>2, RefParts, KeyNamesAre
    <3>2. j \in Values /\ j \notin Refs
      BY <3>1, RefParts
    <3>3. Thing(table, j) = j /\ KeyIn(table, k) = j
      BY <1>0, <2>2, <3>2, KeyInIs DEF Thing, Inv
    <3> QED BY <3>1, <3>2, <3>3 DEF Present
  <2> QED BY <2>1, <2>2
<1>2. FieldNamed(o, KeyIn(table, k)) = Thing(table, Field(o, j))
  <2>1. RefsTo(KeyIn(table, k)) = {j}
    BY <1>1, OneRef
  <2>2. {Denoted(f) : f \in {Field(o, v) : v \in RefsTo(KeyIn(table, k))}}
          = {Denoted(Field(o, j))}
    BY <2>1
  <2>3. FieldNamed(o, KeyIn(table, k)) = Denoted(Field(o, j))
    BY <2>2 DEF FieldNamed
  <2> QED BY <2>3, LookupIs
<1>3. Field(o, j) = Field(o, k)
  <2>1. Equal(j, k)
    BY <1>1 DEF Equal
  <2>2. Bucket(j) = Bucket(k)
    BY <1>1, <2>1, EqualKeys, LookupIs DEF Inv
  <2>3. \A v : Equal(j, v) <=> Equal(k, v)
    BY <2>1, EqualIs
  <2>4. \A c : Position(c, j) = Position(c, k)
    <3> TAKE c
    <3>1. {i \in 1 .. Len(c) : Equal(j, c[i].key)} = {i \in 1 .. Len(c) : Equal(k, c[i].key)}
      BY <2>3
    <3> QED BY <3>1 DEF Position, SelectInSeq
  <2> QED BY <2>2, <2>4 DEF Field, Chain
<1> QED BY <1>2, <1>3

(* The fields of an object are those its elements give it.                 *)
FieldsKnown ==
  \A o \in Objects, n \in KeyNames :
    /\ \A w : HasField(table, buckets[o], n, w) =>
                FieldNamed(o, n) = w /\ w # Nil /\ w \in Names
    /\ (\A w : ~HasField(table, buckets[o], n, w)) => FieldNamed(o, n) = Nil
    /\ n \in KeysOf(table, buckets[o]) <=> \E w : HasField(table, buckets[o], n, w)

LEMMA FieldsOfElements == Inv => FieldsKnown
<1> SUFFICES ASSUME Inv, NEW o \in Objects, NEW n \in KeyNames
             PROVE  /\ \A w : HasField(table, buckets[o], n, w) =>
                                FieldNamed(o, n) = w /\ w # Nil /\ w \in Names
                    /\ (\A w : ~HasField(table, buckets[o], n, w))
                         => FieldNamed(o, n) = Nil
                    /\ n \in KeysOf(table, buckets[o])
                         <=> \E w : HasField(table, buckets[o], n, w)
  BY DEF FieldsKnown
<1>1. ASSUME NEW w, HasField(table, buckets[o], n, w)
      PROVE  FieldNamed(o, n) = w /\ w # Nil /\ w \in Names
  <2>1. PICK b \in Index : \E i \in 1 .. Len(buckets[o][b]) :
          HasKey(table, buckets[o][b][i], n) /\ Thing(table, buckets[o][b][i].value) = w
    BY <1>1 DEF HasField
  <2>2. PICK i \in 1 .. Len(buckets[o][b]) :
          HasKey(table, buckets[o][b][i], n) /\ Thing(table, buckets[o][b][i].value) = w
    BY <2>1
  <2> DEFINE k == buckets[o][b][i].key
             v == buckets[o][b][i].value
  <2>3. k \in Values /\ v \in Values /\ Present(table, k) /\ Present(table, v)
    BY ElementsPresent
  <2>4. v # Nil
    BY DEF Inv, ChainsSane, ChainSane, ElementSane
  <2>5. k \notin NaNs /\ KeyIn(table, k) = n
    BY <2>2 DEF HasKey
  <2>6. Chain(o, k) = buckets[o][b] /\ Position(Chain(o, k), k) = i /\ i # 0
    <3>1. b = BucketIn(table, k) /\ i = Position(Chain(o, k), k)
      BY <2>2, <2>3, <2>5, KeyFound
    <3> QED BY <2>3, <3>1, KeyFound
  <2>7. Field(o, k) = v
    BY <2>6 DEF Field
  <2>8. FieldNamed(o, n) = w
    BY <2>2, <2>3, <2>5, <2>7, FieldNamedIs
  <2>9. w # Nil
    <3>1. Thing(table, Nil) = Nil /\ Nil \in Values /\ Present(table, Nil)
      BY RefParts DEF Thing, Present
    <3> QED BY <2>2, <2>3, <2>4, <3>1, OneName DEF Inv
  <2> QED BY <2>2, <2>3, <2>8, <2>9, RefsNamed DEF Inv
<1>2. ASSUME \A w : ~HasField(table, buckets[o], n, w)
      PROVE  FieldNamed(o, n) = Nil
  <2>1. CASE RefsTo(n) = {}
    BY <2>1 DEF FieldNamed
  <2>2. CASE RefsTo(n) # {}
    <3>1. PICK k : k \in RefsTo(n)
      BY <2>2
    <3>2. k \in Values /\ Present(table, k) /\ Thing(table, k) = n
      BY <3>1, RefParts, LookupIs, NamesFinite, FieldsAssumption, KeyNamesAre
      DEF RefsTo, Names, Present, Thing
    <3>3. k \notin NaNs /\ KeyIn(table, k) = n
      BY <3>2, KeyInIs, KeyNamesAre DEF KeyIn, KeyNames, Inv, KeyNamed
    <3>4. Position(Chain(o, k), k) = 0
      <4>1. SUFFICES ASSUME Position(Chain(o, k), k) # 0 PROVE FALSE
        OBVIOUS
      <4> DEFINE i == Position(Chain(o, k), k)
                 b == BucketIn(table, k)
      <4>2. /\ b \in Index /\ i \in 1 .. Len(buckets[o][b])
            /\ HasKey(table, buckets[o][b][i], n)
        BY <3>2, <3>3, <4>1, KeyFound
      <4>3. HasField(table, buckets[o], n, Thing(table, buckets[o][b][i].value))
        BY <4>2 DEF HasField
      <4> QED BY <1>2, <4>3
    <3>5. Field(o, k) = Nil
      BY <3>4 DEF Field
    <3> QED BY <3>2, <3>3, <3>5, FieldNamedIs, RefParts DEF Thing
  <2> QED BY <2>1, <2>2
<1>3. n \in KeysOf(table, buckets[o]) <=> \E w : HasField(table, buckets[o], n, w)
  BY DEF KeysOf, HasField
<1> QED BY <1>1, <1>2, <1>3

(* The elements found under different keys, and the rest, make up the      *)
(* count.                                                                  *)
LEMMA ElementsCounted ==
  ASSUME Inv, NEW o \in Objects
  PROVE  Cardinality(Positions(buckets[o]))
           = Cardinality(KeysOf(table, buckets[o])) + Cardinality(Unfindable(o))
<1> DEFINE all == Positions(buckets[o])
           key(p) == buckets[o][p[1]][p[2]].key
           found == {p \in all : key(p) \notin NaNs}
           lost == {p \in all : key(p) \in NaNs}
           keys == KeysOf(table, buckets[o])
           f == [p \in found |-> KeyIn(table, key(p))]
<1>1. \A p : p \in all <=> \E b \in Index : \E i \in 1 .. Len(buckets[o][b]) : p = <<b, i>>
  BY PositionIn
<1>2. \A p \in all : /\ p[1] \in Index /\ p[2] \in 1 .. Len(buckets[o][p[1]])
                     /\ p = <<p[1], p[2]>>
                     /\ key(p) \in Values /\ Present(table, key(p))
  BY <1>1, ElementsPresent
<1>3. IsFiniteSet(all)
  <2>1. \A b \in Index : Len(buckets[o][b]) \in Nat
    BY ElementsTyped DEF Inv
  <2> QED BY <2>1, PositionsFinite
<1>4. lost = Unfindable(o)
  <2>1. DOMAIN buckets[o] = Index
    BY DEF Inv, TypeOK, Index
  <2>2. \A b \in Index : DOMAIN buckets[o][b] = 1 .. Len(buckets[o][b])
    BY ElementsTyped DEF Inv
  <2>3. \A p : p \in Unfindable(o) <=>
          \E b \in Index : \E i \in 1 .. Len(buckets[o][b]) :
            p = <<b, i>> /\ buckets[o][b][i].key \in NaNs
    BY <2>1, <2>2 DEF Unfindable
  <2>4. \A p : p \in lost <=>
          \E b \in Index : \E i \in 1 .. Len(buckets[o][b]) :
            p = <<b, i>> /\ buckets[o][b][i].key \in NaNs
    BY <1>1
  <2> HIDE DEF lost
  <2> QED BY <2>3, <2>4
<1>5. f \in Bijection(found, keys)
  <2>1. \A p \in found : KeyIn(table, key(p)) \in keys
    <3> TAKE p \in found
    <3>1. KeyIn(table, key(p)) \in KeyNames
      BY <1>2, KeyInIs DEF Inv
    <3>2. HasKey(table, buckets[o][p[1]][p[2]], KeyIn(table, key(p)))
      BY DEF HasKey
    <3>3. p[1] \in Index /\ p[2] \in 1 .. Len(buckets[o][p[1]])
      BY <1>2
    <3> QED BY <3>1, <3>2, <3>3 DEF KeysOf
  <2>2. ASSUME NEW p \in found, NEW q \in found,
               KeyIn(table, key(p)) = KeyIn(table, key(q))
        PROVE  p = q
    <3>1. /\ HasKey(table, buckets[o][q[1]][q[2]], KeyIn(table, key(p)))
          /\ HasKey(table, buckets[o][p[1]][p[2]], KeyIn(table, key(p)))
      BY <2>2 DEF HasKey
    <3> DEFINE k == key(p)
    <3>2. k \in Values /\ Present(table, k) /\ k \notin NaNs
      BY <1>2
    <3>3. /\ p[1] \in Index /\ p[2] \in 1 .. Len(buckets[o][p[1]])
          /\ q[1] \in Index /\ q[2] \in 1 .. Len(buckets[o][q[1]])
      BY <1>2
    <3> HIDE DEF k
    <3>5. /\ HasKey(table, buckets[o][q[1]][q[2]], KeyIn(table, k))
          /\ HasKey(table, buckets[o][p[1]][p[2]], KeyIn(table, k))
      BY <3>1 DEF k
    <3>4. /\ p[1] = BucketIn(table, k) /\ p[2] = Position(Chain(o, k), k)
          /\ q[1] = BucketIn(table, k) /\ q[2] = Position(Chain(o, k), k)
      BY <3>2, <3>3, <3>5, KeyFound
    <3> QED BY <1>2, <3>4
  <2>3. ASSUME NEW n \in keys
        PROVE  \E p \in found : KeyIn(table, key(p)) = n
    <3>1. PICK b \in Index : \E i \in 1 .. Len(buckets[o][b]) :
            HasKey(table, buckets[o][b][i], n)
      BY DEF KeysOf
    <3>2. PICK i \in 1 .. Len(buckets[o][b]) : HasKey(table, buckets[o][b][i], n)
      BY <3>1
    <3>3. <<b, i>> \in all
      BY <1>1
    <3>4. key(<<b, i>>) \notin NaNs /\ KeyIn(table, key(<<b, i>>)) = n
      BY <3>2 DEF HasKey
    <3> QED BY <3>3, <3>4
  <2> HIDE DEF found, keys, key
  <2>4. f \in [found -> keys]
    BY <2>1
  <2> QED BY <2>2, <2>3, <2>4 DEF Bijection, Injection, Surjection, IsInjective
<1>6. IsFiniteSet(found) /\ IsFiniteSet(lost)
  BY <1>3, FS_Subset
<1>7. Cardinality(keys) = Cardinality(found)
  <2> HIDE DEF found, keys, f
  <2>1. ExistsBijection(found, keys)
    BY <1>5 DEF ExistsBijection
  <2> QED BY <1>6, <2>1, FS_Bijection
<1>8. all = found \cup lost /\ found \cap lost = {}
  OBVIOUS
<1> HIDE DEF all, found, lost, keys
<1>9. Cardinality(all) = Cardinality(found) + Cardinality(lost) - 0
  BY <1>6, <1>8, FS_Union, FS_EmptySet
<1>10. Cardinality(found) \in Nat /\ Cardinality(lost) \in Nat
  BY <1>6, FS_CardinalityType
<1> QED BY <1>4, <1>7, <1>9, <1>10 DEF all, keys

(* Until there is an error, len() is the number of fields that are not nil *)
(* and of those set under NaN, whatever was set, cleared, collected and    *)
(* moved.                                                                  *)
THEOREM LenTheorem == ASSUME Usual PROVE Spec => []LenCountsFields
<1>1. ASSUME Inv PROVE LenCountsFields
  <2> SUFFICES ASSUME ~failed, NEW o \in Live
               PROVE  size[o] = Cardinality({n \in KeyNames : FieldNamed(o, n) # Nil})
                                  + Cardinality(Unfindable(o))
    BY DEF LenCountsFields
  <2>1. o \in Objects
    BY DEF Live
  <2>2. FieldsKnown
    BY <1>1, FieldsOfElements
  <2>3. {n \in KeyNames : FieldNamed(o, n) # Nil} = KeysOf(table, buckets[o])
    <3>1. KeysOf(table, buckets[o]) \subseteq KeyNames
      BY DEF KeysOf
    <3>2. ASSUME NEW n \in KeyNames
          PROVE  FieldNamed(o, n) # Nil <=> n \in KeysOf(table, buckets[o])
      BY <2>1, <2>2 DEF FieldsKnown
    <3> QED BY <3>1, <3>2
  <2> QED BY <1>1, <2>1, <2>3, SizeKnown, ElementsCounted
<1> QED BY <1>1, Invariant, PTL

-----------------------------------------------------------------------------
(* Steps, as a program sees them.                                          *)

LEMMA FieldsTyped ==
  ASSUME FieldsKnown
  PROVE  \A o \in Objects, n \in KeyNames : FieldNamed(o, n) \in Names
<1> TAKE o \in Objects, n \in KeyNames
<1>1. Nil \in Names
  BY FieldsAssumption DEF Names
<1> QED BY <1>1 DEF FieldsKnown

LEMMA FieldsSame ==
  ASSUME FieldsKnown, FieldsKnown', NEW o \in Objects,
         \A n \in KeyNames : \A w : HasField(table', buckets'[o], n, w)
                                      <=> HasField(table, buckets[o], n, w)
  PROVE  \A n \in KeyNames : FieldNamed(o, n)' = FieldNamed(o, n)
BY DEF FieldsKnown

(* List d is c with e in place of the i-th element, or without it.         *)
Replaced(c, i, x, e, d) ==
  /\ \A j \in 1 .. Len(d) :
       \/ x # Nil /\ d[j] = e
       \/ \E m \in 1 .. Len(c) : m # i /\ d[j] = c[m]
  /\ \A m \in 1 .. Len(c) : m # i => \E j \in 1 .. Len(d) : d[j] = c[m]
  /\ x # Nil => \E j \in 1 .. Len(d) : d[j] = e

(* What replacing the list of a key by one with another element for that   *)
(* key, or none, does to the fields.  Nothing is found under NaN.          *)
LEMMA OneFieldChanges ==
  ASSUME Inv, NEW o \in Objects, NEW k \in Values, Present(table, k), NEW x,
         NEW b, b = BucketIn(table, k), NEW c, c = buckets[o][b],
         NEW i, i = Position(c, k), NEW e, e.value = x,
         \A n : HasKey(table, e, n) <=> k \notin NaNs /\ n = KeyIn(table, k),
         NEW d, NEW bs, bs = [buckets[o] EXCEPT ![b] = d],
         Replaced(c, i, x, e, d)
  PROVE  \A n, w : HasField(table, bs, n, w)
                     <=> IF k \notin NaNs /\ n = KeyIn(table, k)
                           THEN x # Nil /\ w = Thing(table, x)
                           ELSE HasField(table, buckets[o], n, w)
<1> DEFINE Is(n) == k \notin NaNs /\ n = KeyIn(table, k)
<1>1. /\ \A j \in 1 .. Len(d) :
           \/ x # Nil /\ d[j] = e
           \/ \E m \in 1 .. Len(c) : m # i /\ d[j] = c[m]
      /\ \A m \in 1 .. Len(c) : m # i => \E j \in 1 .. Len(d) : d[j] = c[m]
      /\ x # Nil => \E j \in 1 .. Len(d) : d[j] = e
  BY DEF Replaced
<1>2. /\ b \in Index
      /\ \A n : Is(n) => \A a \in Index : \A j \in 1 .. Len(buckets[o][a]) :
           HasKey(table, buckets[o][a][j], n) => a = b /\ j = i
      /\ i # 0 => /\ i \in 1 .. Len(c)
                  /\ \A n : HasKey(table, c[i], n) => Is(n)
  <2>1. b \in Index /\ Chain(o, k) = c
    BY KeyFound
  <2>2. i # 0 => i \in 1 .. Len(c) /\ k \notin NaNs /\ HasKey(table, c[i], KeyIn(table, k))
    BY <2>1, KeyFound
  <2>3. \A n : Is(n) => \A a \in Index : \A j \in 1 .. Len(buckets[o][a]) :
           HasKey(table, buckets[o][a][j], n) => a = b /\ j = i
    BY <2>1, KeyFound
  <2> QED BY <2>1, <2>2, <2>3 DEF HasKey
<1>3. \A n : HasKey(table, e, n) <=> Is(n)
  OBVIOUS
<1>4. \A a \in Index : bs[a] = IF a = b THEN d ELSE buckets[o][a]
  BY <1>2 DEF Inv, TypeOK, Index
<1> HIDE DEF Is
<1>5. ASSUME NEW n, NEW w, HasField(table, bs, n, w)
      PROVE  IF Is(n) THEN x # Nil /\ w = Thing(table, x)
                      ELSE HasField(table, buckets[o], n, w)
  <2>1. PICK a \in Index : \E j \in 1 .. Len(bs[a]) :
          HasKey(table, bs[a][j], n) /\ Thing(table, bs[a][j].value) = w
    BY <1>5 DEF HasField
  <2>2. PICK j \in 1 .. Len(bs[a]) :
          HasKey(table, bs[a][j], n) /\ Thing(table, bs[a][j].value) = w
    BY <2>1
  <2>3. CASE a # b
    <3>1. j \in 1 .. Len(buckets[o][a]) /\ bs[a] = buckets[o][a]
      BY <1>4, <2>2, <2>3
    <3>2. ~Is(n)
      BY <1>2, <2>2, <2>3, <3>1
    <3> QED BY <2>2, <3>1, <3>2 DEF HasField
  <2>4. CASE a = b /\ x # Nil /\ bs[a][j] = e
    BY <1>3, <2>2, <2>4
  <2>5. CASE a = b /\ ~(x # Nil /\ bs[a][j] = e)
    <3>1. j \in 1 .. Len(d) /\ bs[a] = d
      BY <1>4, <2>2, <2>5
    <3>2. PICK m \in 1 .. Len(c) : m # i /\ d[j] = c[m]
      BY <1>1, <2>5, <3>1
    <3>3. HasKey(table, c[m], n) /\ Thing(table, c[m].value) = w
      BY <2>2, <3>1, <3>2
    <3>4. ~Is(n)
      BY <1>2, <3>2, <3>3
    <3>5. HasField(table, buckets[o], n, w)
      BY <1>2, <3>3 DEF HasField
    <3> QED BY <3>4, <3>5
  <2> QED BY <2>3, <2>4, <2>5
<1>6. ASSUME x # Nil, NEW n, Is(n)
      PROVE  HasField(table, bs, n, Thing(table, x))
  <2>1. PICK j \in 1 .. Len(d) : d[j] = e
    BY <1>1, <1>6
  <2>2. bs[b] = d /\ b \in Index
    BY <1>2, <1>4
  <2>3. HasKey(table, bs[b][j], n) /\ Thing(table, bs[b][j].value) = Thing(table, x)
    BY <1>3, <1>6, <2>1, <2>2
  <2>4. j \in 1 .. Len(bs[b])
    BY <2>2
  <2> QED BY <2>2, <2>3, <2>4 DEF HasField
<1>7. ASSUME NEW n, NEW w, ~Is(n), HasField(table, buckets[o], n, w)
      PROVE  HasField(table, bs, n, w)
  <2>1. PICK a \in Index : \E j \in 1 .. Len(buckets[o][a]) :
          HasKey(table, buckets[o][a][j], n) /\ Thing(table, buckets[o][a][j].value) = w
    BY <1>7 DEF HasField
  <2>2. PICK j \in 1 .. Len(buckets[o][a]) :
          HasKey(table, buckets[o][a][j], n) /\ Thing(table, buckets[o][a][j].value) = w
    BY <2>1
  <2>3. CASE a # b
    BY <1>4, <2>2, <2>3 DEF HasField
  <2>4. CASE a = b
    <3>1. j \in 1 .. Len(c) /\ buckets[o][a][j] = c[j]
      BY <2>4
    <3>2. j # i
      BY <1>2, <1>7, <2>2, <3>1
    <3>3. PICK l \in 1 .. Len(d) : d[l] = c[j]
      BY <1>1, <3>1, <3>2
    <3>4. bs[b] = d /\ b \in Index
      BY <1>2, <1>4
    <3>5. HasKey(table, bs[b][l], n) /\ Thing(table, bs[b][l].value) = w
      BY <2>2, <3>1, <3>3, <3>4
    <3>6. l \in 1 .. Len(bs[b])
      BY <3>4
    <3> QED BY <3>4, <3>5, <3>6 DEF HasField
  <2> QED BY <2>3, <2>4
<1> QED BY <1>5, <1>6, <1>7 DEF Is

(* Setting a field to x changes this field alone.                          *)
LEMMA SetChanges ==
  ASSUME Inv, NEW o \in Objects, NEW k \in Values, Present(table, k), NEW x \in Values,
         \/ x = Nil /\ ClearEntry(o, k)
         \/ x # Nil /\ FindOrAddEntry(o, k, x) /\ failed' = failed,
         ~failed
  PROVE  /\ failed' = failed
         /\ \A q \in Objects \ {o} : buckets'[q] = buckets[q]
         /\ \A n, w : HasField(table, buckets'[o], n, w)
                        <=> IF k \notin NaNs /\ n = KeyIn(table, k)
                              THEN x # Nil /\ w = Thing(table, x)
                              ELSE HasField(table, buckets[o], n, w)
<1> DEFINE b == BucketIn(table, k)
           c == buckets[o][b]
           i == Position(c, k)
           Is(n) == k \notin NaNs /\ n = KeyIn(table, k)
           new == [key |-> k, value |-> x]
<1>1. b \in Index /\ Chain(o, k) = c /\ Bucket(k) = b
  BY KeyFound, LookupIs
<1>2. /\ c \in Seq(Element) /\ i \in 0 .. Len(c)
      /\ i # 0 => /\ i \in 1 .. Len(c)
                  /\ \A n : HasKey(table, c[i], n) <=> Is(n)
  <2>1. /\ Position(Chain(o, k), k) \in 0 .. Len(Chain(o, k))
        /\ LET p == Position(Chain(o, k), k)
           IN  p # 0 => /\ p \in 1 .. Len(Chain(o, k))
                        /\ k \notin NaNs
                        /\ HasKey(table, Chain(o, k)[p], KeyIn(table, k))
    BY KeyFound
  <2>2. c \in Seq(Element)
    BY <1>1, ElementsTyped DEF Inv
  <2> QED BY <1>1, <2>1, <2>2 DEF HasKey
<1>3. /\ new \in Element /\ new.value = x
      /\ \A n : HasKey(table, new, n) <=> Is(n)
  BY DEF Element, HasKey
<1>4. SUFFICES \E d, e :
        /\ buckets' = [buckets EXCEPT ![o][b] = d] /\ failed' = failed
        /\ e.value = x /\ \A n : HasKey(table, e, n) <=> Is(n)
        /\ Replaced(c, i, x, e, d)
  <2>1. PICK d, e :
          /\ buckets' = [buckets EXCEPT ![o][b] = d] /\ failed' = failed
          /\ e.value = x /\ \A n : HasKey(table, e, n) <=> Is(n)
          /\ Replaced(c, i, x, e, d)
    BY <1>4
  <2>2. /\ buckets'[o] = [buckets[o] EXCEPT ![b] = d]
        /\ \A q \in Objects \ {o} : buckets'[q] = buckets[q]
    BY <2>1 DEF Inv, TypeOK
  <2>3. \A n, w : HasField(table, buckets'[o], n, w)
                  <=> IF Is(n) THEN x # Nil /\ w = Thing(table, x)
                               ELSE HasField(table, buckets[o], n, w)
    <3> DEFINE bs == buckets'[o]
    <3>1. bs = [buckets[o] EXCEPT ![b] = d]
      BY <2>2
    <3> HIDE DEF bs
    <3>2. \A n, w : HasField(table, bs, n, w)
                    <=> IF Is(n) THEN x # Nil /\ w = Thing(table, x)
                                 ELSE HasField(table, buckets[o], n, w)
      BY SMTT(30), <2>1, <3>1, OneFieldChanges
    <3> QED BY <3>2 DEF bs
  <2> QED BY <2>1, <2>2, <2>3
<1> HIDE DEF b, i, new, Is
<1>5. CASE x = Nil /\ i = 0
  <2>1. buckets' = buckets /\ failed' = failed
    BY <1>1, <1>5, FieldsAssumption DEF ClearEntry, i
  <2>2. buckets' = [buckets EXCEPT ![o][b] = c]
    BY <1>1, <2>1 DEF Inv, TypeOK, Index
  <2>3. \A m \in 1 .. Len(c) : m # i
    BY <1>5
  <2>4. Replaced(c, i, x, new, c)
    BY <1>5, <2>3 DEF Replaced
  <2> QED BY <1>3, <2>1, <2>2, <2>4
<1>6. CASE x = Nil /\ i # 0
  <2> DEFINE d == RemoveAt(c, i)
  <2>1. buckets' = [buckets EXCEPT ![o][b] = d] /\ failed' = failed
    BY <1>1, <1>6 DEF ClearEntry, WithChain, i
  <2>2. i \in 1 .. Len(c) /\ Len(c) \in Nat
    BY <1>2, <1>6
  <2>3. /\ Len(d) = Len(c) - 1
        /\ \A j \in 1 .. i - 1 : d[j] = c[j]
        /\ \A j \in i .. Len(c) - 1 : d[j] = c[j + 1]
    BY <1>2, <2>2, RemoveAtRemoves
  <2> HIDE DEF d, c
  <2>4. ASSUME NEW j \in 1 .. Len(d)
        PROVE  \E m \in 1 .. Len(c) : m # i /\ d[j] = c[m]
    <3>1. CASE j < i
      <4>1. j \in 1 .. Len(c) /\ j # i /\ d[j] = c[j]
        BY <2>2, <2>3, <3>1
      <4> QED BY <4>1
    <3>2. CASE j >= i
      <4>1. j + 1 \in 1 .. Len(c) /\ j + 1 # i /\ d[j] = c[j + 1]
        BY <2>2, <2>3, <3>2
      <4> QED BY <4>1
    <3> QED BY <2>2, <2>3, <3>1, <3>2
  <2>5. ASSUME NEW m \in 1 .. Len(c), m # i
        PROVE  \E j \in 1 .. Len(d) : d[j] = c[m]
    <3>1. CASE m < i
      <4>1. m \in 1 .. Len(d) /\ d[m] = c[m]
        BY <2>2, <2>3, <3>1
      <4> QED BY <4>1
    <3>2. CASE m > i
      <4>1. m - 1 \in 1 .. Len(d) /\ d[m - 1] = c[m]
        BY <2>2, <2>3, <3>2
      <4> QED BY <4>1
    <3> QED BY <2>2, <2>5, <3>1, <3>2
  <2>6. Replaced(c, i, x, new, d)
    BY <1>6, <2>4, <2>5 DEF Replaced
  <2> QED BY <1>3, <2>1, <2>6
<1>7. CASE x # Nil /\ i # 0
  <2> DEFINE d == [c EXCEPT ![i].value = x]
  <2>1. buckets' = [buckets EXCEPT ![o][b] = d] /\ failed' = failed
    <3>1. /\ buckets' = WithChain(o, k, [Chain(o, k) EXCEPT
                                           ![Position(Chain(o, k), k)].value = x])
          /\ failed' = failed
      BY <1>1, <1>7 DEF FindOrAddEntry, i
    <3> QED BY <1>1, <3>1 DEF WithChain, i
  <2>2. i \in 1 .. Len(c)
    BY <1>2, <1>7
  <2> DEFINE e == [c[i] EXCEPT !.value = x]
  <2>3. c[i] \in Element
    BY <1>2, <2>2
  <2>4. e.key = c[i].key /\ e.value = x
    BY <2>3 DEF Element
  <2>5. \A n : HasKey(table, e, n) <=> Is(n)
    <3> HIDE DEF e
    <3> QED BY <1>2, <1>7, <2>4 DEF HasKey
  <2>6. /\ Len(d) = Len(c)
        /\ \A j \in 1 .. Len(c) : d[j] = IF j = i THEN e ELSE c[j]
    BY <1>2, <2>2
  <2> HIDE DEF d, c, e
  <2>7. Replaced(c, i, x, e, d)
    BY <1>7, <2>2, <2>6 DEF Replaced
  <2> QED BY <2>1, <2>4, <2>5, <2>7
<1>8. CASE x # Nil /\ i = 0
  <2> DEFINE d == Cons(new, c)
  <2>1. buckets' = [buckets EXCEPT ![o][b] = d] /\ failed' = failed
    <3>1. /\ Position(Chain(o, k), k) = 0
          /\ FindOrAddEntry(o, k, x) /\ failed' = failed
      BY <1>1, <1>8 DEF i
    <3>2. buckets' = WithChain(o, k, Cons([key |-> k, value |-> x], Chain(o, k)))
      BY <3>1 DEF FindOrAddEntry
    <3> QED BY <1>1, <3>1, <3>2 DEF WithChain, new
  <2>2. /\ Len(d) = Len(c) + 1 /\ d[1] = new
        /\ \A m \in 1 .. Len(c) : d[m + 1] = c[m]
    BY <1>2, <1>3, ConsAdds
  <2>3. Len(c) \in Nat
    BY <1>2
  <2> HIDE DEF d, c
  <2>4. ASSUME NEW j \in 1 .. Len(d), j # 1
        PROVE  \E m \in 1 .. Len(c) : m # i /\ d[j] = c[m]
    <3>1. j - 1 \in 1 .. Len(c) /\ (j - 1) + 1 = j
      BY <2>2, <2>3, <2>4
    <3>2. j - 1 # i /\ d[j] = c[j - 1]
      BY <1>8, <2>2, <3>1
    <3> QED BY <3>1, <3>2
  <2>5. ASSUME NEW m \in 1 .. Len(c)
        PROVE  \E j \in 1 .. Len(d) : d[j] = c[m]
    <3>1. m + 1 \in 1 .. Len(d)
      BY <2>2, <2>3
    <3> QED BY <2>2, <3>1
  <2>6. 1 \in 1 .. Len(d)
    BY <2>2, <2>3
  <2>7. Replaced(c, i, x, new, d)
    BY <1>8, <2>2, <2>4, <2>5, <2>6 DEF Replaced
  <2> QED BY <1>3, <2>1, <2>7
<1> QED BY <1>5, <1>6, <1>7, <1>8

(* The state NkFieldMap sees.                                              *)
FieldsOf == [o \in Objects |-> [n \in KeyNames |-> FieldNamed(o, n)]]
HeldOf == [p \in Places |-> Denoted(held[p])]

LEMMA MapValues ==
  /\ Map!Values = Names /\ Map!Held = {HeldOf[p] : p \in Places}
  /\ Map!Keys = KeyNames
BY DEF Map!Values, Names, Things, Map!Held, HeldOf, Map!Keys, KeyNames

LEMMA HeldIs ==
  ASSUME Inv
  PROVE  /\ \A p \in Places : HeldOf[p] = Thing(table, held[p]) /\ HeldOf[p] \in Names
         /\ \A k \in Operands : Thing(table, k) \in (Strings \cup Atoms) \cup Map!Held
<1>1. \A p \in Places : HeldOf[p] = Thing(table, held[p])
  BY LookupIs DEF HeldOf
<1>2. \A p \in Places : Thing(table, held[p]) \in Names
  BY RefsNamed DEF Inv, TypeOK, HeldPresent
<1>3. \A k \in Atoms : Thing(table, k) = k
  BY RefParts DEF Thing
<1>4. \A k \in Operands : Thing(table, k) \in (Strings \cup Atoms) \cup Map!Held
  BY <1>1, <1>3, MapValues DEF Operands
<1> QED BY <1>1, <1>2, <1>4

(* No field changes when elements keep what they denote.                   *)
LEMMA FieldsOfSame ==
  ASSUME Inv, Inv', FieldsKnown',
         \A o \in Objects : \A n, w : HasField(table', buckets'[o], n, w)
                                        <=> HasField(table, buckets[o], n, w)
  PROVE  FieldsOf' = FieldsOf
<1>1. FieldsKnown
  BY FieldsOfElements
<1>2. \A o \in Objects, n \in KeyNames : FieldNamed(o, n)' = FieldNamed(o, n)
  BY <1>1, FieldsSame
<1> QED BY <1>2 DEF FieldsOf

LEMMA StaysSame ==
  ASSUME Inv, NEW o \in Objects, buckets'[o] = buckets[o],
         \A b \in Index : \A i \in 1 .. Len(buckets[o][b]) :
           /\ Stays(table, table', buckets[o][b][i].key)
           /\ Stays(table, table', buckets[o][b][i].value)
  PROVE  \A n, w : HasField(table', buckets'[o], n, w)
                     <=> HasField(table, buckets[o], n, w)
BY DEF HasField, HasKey, KeyIn, Stays

LEMMA EmptyHasNone == \A t, n, w : ~HasField(t, Empty, n, w)
BY EmptyHas DEF HasField

LEMMA MapHolds ==
  ASSUME ~failed, UNCHANGED failed, FieldsOf' = FieldsOf, NEW p \in Places, NEW v,
         v \in (Strings \cup Atoms) \cup Map!Held, v \in Names,
         HeldOf' = [HeldOf EXCEPT ![p] = v]
  PROVE  Map!Next
<1>1. Map!Hold(p, v)
  BY MapValues DEF Map!Hold, FieldsOf, HeldOf
<1> QED BY <1>1, MapValues DEF Map!Next

(* Holding something else while all else stays.                            *)
LEMMA HeldStep ==
  ASSUME Inv, NEW p \in Places, NEW v, held' = [held EXCEPT ![p] = v],
         \A q \in Places : Thing(table', held[q]) = Thing(table, held[q])
  PROVE  HeldOf' = [HeldOf EXCEPT ![p] = Thing(table', v)]
<1>1. \A q \in Places : Denoted(held[q]) = Thing(table, held[q])
  BY LookupIs
<1>2. \A q \in Places : Denoted(held[q])' = Thing(table', held'[q])
  BY DEF Denoted, At, Thing
<1>3. \A q \in Places : held'[q] = IF q = p THEN v ELSE held[q]
  BY DEF Inv, TypeOK
<1>4. HeldOf' = [q \in Places |-> Thing(table', held'[q])]
  BY <1>2 DEF HeldOf
<1>5. HeldOf = [q \in Places |-> Thing(table, held[q])]
  BY <1>1 DEF HeldOf
<1> QED BY <1>3, <1>4, <1>5

(* o is in no place and no field.                                          *)
LEMMA MapUnreferenced ==
  ASSUME Inv, NEW o \in Objects,
         \A p \in Places : Thing(table, held[p]) # o,
         \A q \in Objects, b \in Index : \A i \in 1 .. Len(buckets[q][b]) :
           Thing(table, buckets[q][b][i].key) # o /\ Thing(table, buckets[q][b][i].value) # o
  PROVE  Map!Unreferenced(o)
<1>1. o \notin {HeldOf[p] : p \in Places}
  BY HeldIs
<1>2. o # Nil /\ o \in Names
  BY FieldsAssumption DEF Things, Names
<1>3. ASSUME NEW q \in Objects, NEW n \in KeyNames
      PROVE  FieldNamed(q, n) # o /\ (n = o => FieldNamed(q, n) = Nil)
  <2>1. FieldsKnown
    BY FieldsOfElements
  <2>2. \A w : HasField(table, buckets[q], n, w) => n # o /\ w # o
    <3>1. \A y : KeyOf(y) = o => y = o
      BY RefKeys, KeyNamesAre DEF KeyOf, Things
    <3> QED BY <3>1 DEF HasField, HasKey, KeyIn
  <2> QED BY <1>2, <2>1, <2>2 DEF FieldsKnown
<1>4. \A q \in Objects, n \in KeyNames :
        FieldsOf[q][n] # o /\ (n = o => FieldsOf[q][n] = Nil)
  BY <1>3 DEF FieldsOf
<1> QED BY <1>1, <1>4, MapValues DEF Map!Unreferenced, HeldOf, FieldsOf

LEMMA CreateMaps ==
  ASSUME Inv, ~failed, Inv', FieldsKnown', NEW p \in ScriptPlaces, CreateObject(p)
  PROVE  Map!Next
<1>1. PICK o \in Objects, slot \in Slots :
        /\ \A s \in Slots : table["object"][s] # o
        /\ table["object"][slot] = None
        /\ table' = [table EXCEPT !["object"][slot] = o]
        /\ buckets' = [buckets EXCEPT ![o] = Empty]
        /\ size' = [size EXCEPT ![o] = 0]
        /\ held' = [held EXCEPT ![p] = <<"object", slot>>]
        /\ UNCHANGED failed
  BY DEF CreateObject
<1>2. \A v \in Values : Present(table, v) => Stays(table, table', v)
  BY <1>1, AddedEntry DEF Kinds
<1>3. buckets[o] = Empty
  BY <1>1 DEF Inv, DeadEmpty
<1>4. FieldsOf' = FieldsOf
  <2>1. ASSUME NEW q \in Objects
        PROVE  \A n, w : HasField(table', buckets'[q], n, w)
                           <=> HasField(table, buckets[q], n, w)
    <3>1. buckets'[q] = buckets[q]
      BY <1>1, <1>3 DEF Inv, TypeOK
    <3> QED BY <1>2, <3>1, ElementsPresent, StaysSame
  <2> QED BY <2>1, FieldsOfSame
<1>5. p \in Places
  BY DEF Places
<1>6. HeldOf' = [HeldOf EXCEPT ![p] = o]
  <2>1. Thing(table', <<"object", slot>>) = o
    BY <1>1, RefParts DEF Thing, Inv, TypeOK, Kinds
  <2>2. \A q \in Places : Thing(table', held[q]) = Thing(table, held[q])
    BY <1>2 DEF Inv, TypeOK, HeldPresent, Stays
  <2> DEFINE r == <<"object", slot>>
  <2>3. held' = [held EXCEPT ![p] = r] /\ Thing(table', r) = o
    BY <1>1, <2>1
  <2> HIDE DEF r
  <2>4. HeldOf' = [HeldOf EXCEPT ![p] = Thing(table', r)]
    BY <1>5, <2>2, <2>3, HeldStep
  <2> QED BY <2>3, <2>4
<1>7. Map!Unreferenced(o)
  <2>1. \A v \in Values : Present(table, v) => Thing(table, v) # o
    <3> SUFFICES ASSUME NEW v \in Values, Present(table, v), Thing(table, v) = o
                 PROVE  FALSE
      OBVIOUS
    <3>1. v \in Refs
      BY RefParts, FieldsAssumption DEF Thing, Things
    <3>2. v[1] \in Kinds /\ v[2] \in Slots
      BY <3>1, RefParts
    <3>3. CASE v[1] = "object"
      BY <1>1, <3>1, <3>2, <3>3 DEF Thing
    <3>4. CASE v[1] = "string"
      BY <3>1, <3>2, <3>4, FieldsAssumption DEF Thing, Inv, TablesSane, Things
    <3> QED BY <3>2, <3>3, <3>4 DEF Kinds
  <2> QED BY <2>1, ElementsPresent, MapUnreferenced DEF Inv, TypeOK, HeldPresent
<1>8. FieldsOf[o] = [n \in KeyNames |-> Nil]
  <2>1. \A n \in KeyNames : FieldNamed(o, n) = Nil
    BY <1>3, EmptyHasNone, FieldsOfElements DEF FieldsKnown
  <2> QED BY <2>1 DEF FieldsOf
<1>9. Map!Create(p)
  BY <1>1, <1>4, <1>6, <1>7, <1>8, MapValues DEF Map!Create, Map!NoFields, FieldsOf, HeldOf
<1> QED BY <1>5, <1>9 DEF Map!Next

LEMMA HoldMaps ==
  ASSUME Inv, ~failed, Inv', FieldsKnown', UNCHANGED <<table, buckets, size, failed>>,
         NEW p \in Places, NEW v, held' = [held EXCEPT ![p] = v],
         Thing(table, v) \in (Strings \cup Atoms) \cup Map!Held,
         Thing(table, v) \in Names
  PROVE  Map!Next /\ FieldsOf' = FieldsOf /\ HeldOf' = [HeldOf EXCEPT ![p] = Thing(table, v)]
<1>1. FieldsOf' = FieldsOf
  BY FieldsOfSame
<1>2. HeldOf' = [HeldOf EXCEPT ![p] = Thing(table', v)]
  BY HeldStep
<1>3. HeldOf' = [HeldOf EXCEPT ![p] = Thing(table, v)]
  BY <1>2
<1> QED BY <1>1, <1>3, MapHolds

LEMMA FindOrAddStringMaps ==
  ASSUME Inv, ~failed, Inv', FieldsKnown', NEW p \in ScriptPlaces, FindOrAddString(p)
  PROVE  Map!Next
<1>1. PICK s \in Strings, slot \in Slots :
        /\ \/ table["string"][slot] = s /\ UNCHANGED table
           \/ /\ \A t \in Slots : table["string"][t] # s
              /\ table["string"][slot] = None
              /\ table' = [table EXCEPT !["string"][slot] = s]
        /\ held' = [held EXCEPT ![p] = <<"string", slot>>]
        /\ UNCHANGED <<buckets, size, failed>>
  BY DEF FindOrAddString
<1>2. p \in Places /\ s \in Names
  BY DEF Places, Names, Things
<1> DEFINE r == <<"string", slot>>
<1>3. Thing(table', r) = s
  BY <1>1, RefParts DEF Thing, Inv, TypeOK, Kinds
<1>4. held' = [held EXCEPT ![p] = r]
  BY <1>1
<1>5. \A v \in Values : Present(table, v) => Thing(table', v) = Thing(table, v)
  <2>1. CASE UNCHANGED table
    BY <2>1
  <2>2. CASE /\ \A t \in Slots : table["string"][t] # s
             /\ table["string"][slot] = None
             /\ table' = [table EXCEPT !["string"][slot] = s]
    <3>1. \A v \in Values : Present(table, v) => Stays(table, table', v)
      BY <2>2, AddedEntry DEF Kinds
    <3> QED BY <3>1 DEF Stays
  <2> QED BY <1>1, <2>1, <2>2
<1> HIDE DEF r
<1>6. FieldsOf' = FieldsOf
  <2>1. ASSUME NEW o \in Objects, NEW b \in Index, NEW i \in 1 .. Len(buckets[o][b])
        PROVE  /\ Thing(table', buckets[o][b][i].key) = Thing(table, buckets[o][b][i].key)
               /\ Thing(table', buckets[o][b][i].value) = Thing(table, buckets[o][b][i].value)
    BY <1>5, ElementsPresent
  <2>2. buckets' = buckets
    BY <1>1
  <2>3. \A o \in Objects : \A n, w : HasField(table', buckets'[o], n, w)
                                        <=> HasField(table, buckets[o], n, w)
    BY <2>1, <2>2 DEF HasField, HasKey, KeyIn
  <2> QED BY <2>3, FieldsOfSame
<1>7. HeldOf' = [HeldOf EXCEPT ![p] = s]
  <2>1. \A q \in Places : Thing(table', held[q]) = Thing(table, held[q])
    BY <1>5 DEF Inv, TypeOK, HeldPresent
  <2>2. HeldOf' = [HeldOf EXCEPT ![p] = Thing(table', r)]
    BY <1>2, <1>4, <2>1, HeldStep
  <2> QED BY <1>3, <2>2
<1> QED BY <1>1, <1>2, <1>6, <1>7, MapHolds

LEMMA HoldsMaps ==
  ASSUME Inv, ~failed, Inv', FieldsKnown', NEW p \in ScriptPlaces,
         \/ PushAtom(p)
         \/ \E q \in Places : Copy(p, q)
  PROVE  Map!Next
<1>0. p \in Places
  BY DEF Places
<1>1. CASE PushAtom(p)
  <2>1. PICK v \in Atoms : held' = [held EXCEPT ![p] = v]
    BY <1>1 DEF PushAtom
  <2>2. Thing(table, v) = v /\ v \in Names
    BY RefParts DEF Thing, Names
  <2>3. UNCHANGED <<table, buckets, size, failed>>
    BY <1>1 DEF PushAtom
  <2>4. Thing(table, v) \in (Strings \cup Atoms) \cup Map!Held
    BY <2>2
  <2> QED BY <1>0, <2>1, <2>2, <2>3, <2>4, HoldMaps
<1>2. ASSUME NEW q \in Places, Copy(p, q)
      PROVE  Map!Next
  <2>1. Thing(table, held[p]) = HeldOf[p] /\ HeldOf[p] \in Names
    BY <1>0, HeldIs
  <2>2. Thing(table, held[p]) \in Map!Held
    BY <1>0, <2>1, MapValues
  <2> DEFINE v == held[p]
  <2>3. held' = [held EXCEPT ![q] = v] /\ UNCHANGED <<table, buckets, size, failed>>
    BY <1>2 DEF Copy
  <2>4. Thing(table, v) \in (Strings \cup Atoms) \cup Map!Held /\ Thing(table, v) \in Names
    BY <2>1, <2>2
  <2> HIDE DEF v
  <2> QED BY <2>3, <2>4, HoldMaps
<1> QED BY <1>1, <1>2

LEMMA ReleaseMaps ==
  ASSUME Inv, ~failed, Inv', FieldsKnown', ReleaseHandle
  PROVE  Map!Next
<1>1. Thing(table, Nil) = Nil /\ Nil \in Atoms /\ Nil \in Names
  BY RefParts, FieldsAssumption DEF Thing, Names
<1>2. "host" \in Places
  BY DEF Places
<1> QED BY <1>1, <1>2, HoldMaps DEF ReleaseHandle

LEMMA HeldObjectIs ==
  ASSUME Inv, NEW po \in Places, HeldObject(po) \in Objects
  PROVE  /\ HeldObject(po) \in Objects \cap Map!Held
         /\ \E slot \in Slots : table["object"][slot] = HeldObject(po)
<1>1. IsObject(held[po])
  BY FieldsAssumption DEF HeldObject, Things
<1>2. HeldObject(po) = Thing(table, held[po])
  BY <1>1 DEF HeldObject, At, Thing, IsObject
<1>3. HeldObject(po) \in Map!Held
  BY <1>2, HeldIs, MapValues
<1> QED BY <1>1, <1>3, RefParts DEF HeldObject, IsObject, At

LEMMA FieldGetMaps ==
  ASSUME Inv, ~failed, Inv', FieldsKnown', NEW p \in ScriptPlaces,
         NEW po \in Places, NEW k \in Operands, FieldGet(p, po, k)
  PROVE  Map!Next
<1> DEFINE o == HeldObject(po)
           n == Thing(table, k)
           v == Field(o, k)
           r == IF n \in NaNs THEN Nil ELSE FieldsOf[o][KeyNamed[n]]
<1>0. p \in Places
  BY DEF Places
<1>1. k \in Values /\ Present(table, k) /\ n \in Names /\ (k \in NaNs <=> n \in NaNs)
  BY OperandsPresent, RefsNamed, KeyInIs DEF Inv
<1>2. o \in Objects \cap Map!Held
  BY HeldObjectIs DEF FieldGet
<1>3. Thing(table, v) = r
  <2>1. CASE n \in NaNs
    <3>1. Position(Chain(o, k), k) = 0
      BY <1>1, <1>2, <2>1, KeyFound
    <3>2. v = Nil
      BY <3>1 DEF Field
    <3> QED BY <2>1, <3>2, RefParts DEF Thing
  <2>2. CASE n \notin NaNs
    <3>1. KeyNamed[n] = KeyIn(table, k) /\ KeyNamed[n] \in KeyNames
      BY <1>1, <2>2, KeyNamesAre DEF KeyIn
    <3>2. FieldNamed(o, KeyIn(table, k)) = Thing(table, v)
      BY <1>1, <1>2, <2>2, FieldNamedIs
    <3> QED BY <1>2, <2>2, <3>1, <3>2 DEF FieldsOf
  <2> QED BY <2>1, <2>2
<1>5. held' = [held EXCEPT ![p] = v] /\ UNCHANGED <<table, buckets, size, failed>>
  BY DEF FieldGet
<1> HIDE DEF o, n, v
<1>6. FieldsOf' = FieldsOf
  BY <1>5, FieldsOfSame
<1>7. HeldOf' = [HeldOf EXCEPT ![p] = r]
  <2>1. HeldOf' = [HeldOf EXCEPT ![p] = Thing(table', v)]
    BY <1>0, <1>5, HeldStep
  <2> QED BY <1>3, <1>5, <2>1
<1>8. Map!Get(p, o, n)
  BY <1>5, <1>6, <1>7 DEF Map!Get, FieldsOf, HeldOf
<1>9. n \in (Strings \cup Atoms) \cup Map!Held
  BY HeldIs DEF n
<1> QED BY <1>0, <1>2, <1>8, <1>9 DEF Map!Next

LEMMA FieldSetMaps ==
  ASSUME Inv, ~failed, Inv', FieldsKnown', NEW po \in Places,
         NEW k \in Operands, NEW x \in Operands, FieldSet(po, k, x)
  PROVE  Map!Next
<1>1. /\ k \in Values /\ Present(table, k)
      /\ x \in Values /\ Present(table, x)
  BY OperandsPresent
<1>2. PICK n \in Names : n = Thing(table, k)
  BY <1>1, RefsNamed DEF Inv
<1>7. PICK w \in Names : w = Thing(table, x)
  BY <1>1, RefsNamed DEF Inv
<1>8. HeldObject(po) \in Objects \cap Map!Held
  BY HeldObjectIs DEF FieldSet
<1>9. PICK o : o = HeldObject(po) /\ o \in Objects /\ o \in Map!Held
  BY <1>8
<1>3. UNCHANGED <<table, held>>
  BY DEF FieldSet
<1>4. HeldOf' = HeldOf
  BY <1>3 DEF HeldOf, Denoted, At
<1>5. CASE failed' = failed
  <2> DEFINE Is(m) == k \notin NaNs /\ m = KeyIn(table, k)
  <2>1. /\ \A q \in Objects \ {o} : buckets'[q] = buckets[q]
        /\ \A m, y : HasField(table, buckets'[o], m, y)
                        <=> IF Is(m) THEN x # Nil /\ y = w
                              ELSE HasField(table, buckets[o], m, y)
    <3>1. \/ x = Nil /\ ClearEntry(o, k)
          \/ x # Nil /\ FindOrAddEntry(o, k, x) /\ failed' = failed
      BY <1>5, <1>9 DEF FieldSet
    <3> QED BY <1>1, <1>7, <1>9, <3>1, SetChanges
  <2>2. w = Nil <=> x = Nil
    <3>1. Thing(table, Nil) = Nil /\ Nil \in Values /\ Present(table, Nil)
      BY RefParts DEF Thing, Present
    <3> QED BY <1>1, <1>7, <3>1, OneName DEF Inv
  <2>3. FieldsKnown
    BY FieldsOfElements
  <2>0. /\ k \in NaNs <=> n \in NaNs
        /\ n \notin NaNs => KeyNamed[n] = KeyIn(table, k) /\ KeyNamed[n] \in KeyNames
    BY <1>1, <1>2, KeyInIs, KeyNamesAre DEF KeyIn, Inv
  <2>4. n \notin NaNs => FieldNamed(o, KeyNamed[n])' = w
    <3> SUFFICES ASSUME n \notin NaNs PROVE FieldNamed(o, KeyNamed[n])' = w
      OBVIOUS
    <3>0. PICK m \in KeyNames : m = KeyIn(table, k) /\ m = KeyNamed[n]
      BY <2>0
    <3>1. \A y : HasField(table', buckets'[o], m, y) <=> x # Nil /\ y = w
      BY <1>3, <2>0, <2>1, <3>0
    <3>2. FieldNamed(o, m)' = w
      BY <1>9, <2>2, <3>1 DEF FieldsKnown
    <3> QED BY <3>0, <3>2
  <2>5. \A m \in KeyNames : ~Is(m) => FieldNamed(o, m)' = FieldNamed(o, m)
    <3> SUFFICES ASSUME NEW m \in KeyNames, ~Is(m)
                 PROVE  FieldNamed(o, m)' = FieldNamed(o, m)
      OBVIOUS
    <3>1. \A y : HasField(table', buckets'[o], m, y) <=> HasField(table, buckets[o], m, y)
      BY <1>3, <2>1
    <3> QED BY <1>9, <2>3, <3>1 DEF FieldsKnown
  <2>6. \A q \in Objects \ {o}, m \in KeyNames : FieldNamed(q, m)' = FieldNamed(q, m)
    <3> TAKE q \in Objects \ {o}, m \in KeyNames
    <3>1. \A y : HasField(table', buckets'[q], m, y) <=> HasField(table, buckets[q], m, y)
      BY <1>3, <2>1
    <3> QED BY <2>3, <3>1 DEF FieldsKnown
  <2>7. ASSUME NEW q \in Objects, NEW j \in KeyNames, FieldNamed(q, j)' # FieldNamed(q, j)
        PROVE  n \notin NaNs /\ q = o /\ j = KeyNamed[n] /\ FieldNamed(q, j)' = w
    BY <2>0, <2>4, <2>5, <2>6, <2>7
  <2>8. \A q \in Objects, j \in KeyNames : FieldsOf'[q][j] # FieldsOf[q][j] =>
          n \notin NaNs /\ q = o /\ j = KeyNamed[n] /\ FieldsOf'[q][j] = w
    BY <2>7 DEF FieldsOf
  <2>9. {n, w} \subseteq (Strings \cup Atoms) \cup Map!Held
    BY <1>2, <1>7, HeldIs
  <2>10. Map!Set(o, n)
    BY <1>4, <1>5, <2>8, <2>9, MapValues DEF Map!Set, FieldsOf, HeldOf
  <2> QED BY <1>9, <2>9, <2>10 DEF Map!Next
<1>6. CASE failed' # failed
  <2>1. failed' = TRUE
    BY <1>6 DEF FieldSet, ClearEntry, FindOrAddEntry
  <2>2. \A q \in Objects, m \in KeyNames : FieldNamed(q, m)' \in Names
    <3>1. FieldsKnown => \A q \in Objects, m \in KeyNames : FieldNamed(q, m) \in Names
      BY FieldsTyped
    <3>2. Nil \in Names
      BY FieldsAssumption DEF Names
    <3> QED BY <3>2 DEF FieldsKnown
  <2>3. FieldsOf' \in [Objects -> [KeyNames -> Names]]
    BY <2>2 DEF FieldsOf
  <2>4. Map!Refuse
    BY <1>4, <2>1, <2>3, MapValues DEF Map!Refuse, FieldsOf, HeldOf
  <2> QED BY <2>4 DEF Map!Next
<1> QED BY <1>5, <1>6

LEMMA HeldSame ==
  ASSUME \A p \in Places : Thing(table', held'[p]) = Thing(table, held[p])
  PROVE  HeldOf' = HeldOf
<1>1. \A p \in Places : Denoted(held[p]) = Thing(table, held[p])
  BY LookupIs
<1>2. \A p \in Places : Denoted(held[p])' = Thing(table', held'[p])
  BY DEF Denoted, At, Thing
<1> QED BY <1>1, <1>2 DEF HeldOf

LEMMA CleanOldStringMaps ==
  ASSUME Inv, ~failed, Inv', FieldsKnown', NEW slot \in Slots, CleanOldString(slot)
  PROVE  FieldsOf' = FieldsOf /\ HeldOf' = HeldOf /\ failed' = failed
<1>1. /\ table' = [table EXCEPT !["string"][slot] = None]
      /\ <<"string", slot>> \notin Referenced
      /\ UNCHANGED <<buckets, size, held, failed>>
  BY DEF CleanOldString
<1>2. \A v \in Values : Present(table, v) /\ v # <<"string", slot>>
                          => Stays(table, table', v)
  BY <1>1, RemovedEntry DEF Kinds
<1>3. ASSUME NEW o \in Objects
      PROVE  \A n, w : HasField(table', buckets'[o], n, w)
                         <=> HasField(table, buckets[o], n, w)
  <2>1. ASSUME NEW b \in Index, NEW i \in 1 .. Len(buckets[o][b])
        PROVE  /\ Stays(table, table', buckets[o][b][i].key)
               /\ Stays(table, table', buckets[o][b][i].value)
    <3>1. /\ buckets[o][b][i].key # <<"string", slot>>
          /\ buckets[o][b][i].value # <<"string", slot>>
      BY <1>1, ElementsReferenced
    <3> QED BY <1>2, <3>1, ElementsPresent
  <2> QED BY <1>1, <2>1, StaysSame
<1>4. FieldsOf' = FieldsOf
  BY <1>3, FieldsOfSame
<1>5. HeldOf' = HeldOf
  <2>1. \A p \in Places : held[p] # <<"string", slot>>
    BY <1>1 DEF Referenced
  <2>2. \A p \in Places : Stays(table, table', held[p])
    BY <1>2, <2>1 DEF Inv, TypeOK, HeldPresent
  <2> QED BY <1>1, <2>2, HeldSame DEF Stays
<1> QED BY <1>1, <1>4, <1>5

LEMMA CleanOldObjectMaps ==
  ASSUME Inv, ~failed, Inv', FieldsKnown', NEW slot \in Slots, CleanOldObject(slot)
  PROVE  Map!Next
<1>0. PICK o \in Objects : o = table["object"][slot]
  BY DEF CleanOldObject, Inv, TablesSane
<1>1. /\ <<"object", slot>> \notin Referenced
      /\ table' = [table EXCEPT !["object"][slot] = None]
      /\ buckets' = [buckets EXCEPT ![o] = Empty]
      /\ UNCHANGED <<held, failed>>
  BY <1>0 DEF CleanOldObject
<1>2. \A v \in Values : Present(table, v) /\ v # <<"object", slot>>
                          => Stays(table, table', v)
  BY <1>1, RemovedEntry DEF Kinds
<1>3. \A v \in Referenced : v # <<"object", slot>>
  BY <1>1
<1>4. \A v \in Values : Present(table, v) /\ Thing(table, v) = o => v = <<"object", slot>>
  <2>1. <<"object", slot>> \in Values /\ Thing(table, <<"object", slot>>) = o
    BY <1>0, RefParts DEF Thing, Kinds
  <2>2. o # None
    BY FieldsAssumption DEF Things
  <2>3. Present(table, <<"object", slot>>)
    BY <2>2, <1>0, RefParts DEF Present, Kinds
  <2> DEFINE r == <<"object", slot>>
  <2>4. r \in Values /\ Thing(table, r) = o /\ Present(table, r)
    BY <2>1, <2>3
  <2> HIDE DEF r
  <2>5. \A v \in Values : Present(table, v) /\ Thing(table, v) = o => v = r
    BY <2>4, OneName DEF Inv
  <2> QED BY <2>5 DEF r
<1>5. HeldOf' = HeldOf
  <2>1. \A p \in Places : held[p] # <<"object", slot>>
    BY <1>1 DEF Referenced
  <2>2. \A p \in Places : Stays(table, table', held[p])
    BY <1>2, <2>1 DEF Inv, TypeOK, HeldPresent
  <2> QED BY <1>1, <2>2, HeldSame DEF Stays
<1>6. ASSUME NEW q \in Objects \ {o}, NEW n \in KeyNames
      PROVE  FieldNamed(q, n)' = FieldNamed(q, n)
  <2>1. buckets'[q] = buckets[q]
    BY <1>1 DEF Inv, TypeOK
  <2>2. ASSUME NEW b \in Index, NEW i \in 1 .. Len(buckets[q][b])
        PROVE  /\ Stays(table, table', buckets[q][b][i].key)
               /\ Stays(table, table', buckets[q][b][i].value)
    <3>1. /\ buckets[q][b][i].key # <<"object", slot>>
          /\ buckets[q][b][i].value # <<"object", slot>>
      BY <1>1, ElementsReferenced
    <3> QED BY <1>2, <3>1, ElementsPresent
  <2>3. \A m, w : HasField(table', buckets'[q], m, w) <=> HasField(table, buckets[q], m, w)
    BY <2>1, <2>2, StaysSame
  <2> QED BY <2>3, FieldsOfElements, FieldsSame
<1>7. ASSUME NEW n \in KeyNames
      PROVE  FieldNamed(o, n)' = Nil
  <2>1. buckets'[o] = Empty
    BY <1>1 DEF Inv, TypeOK
  <2>2. \A w : ~HasField(table', buckets'[o], n, w)
    BY <2>1, EmptyHasNone
  <2> QED BY <2>2 DEF FieldsKnown
<1>8. FieldsOf' = [FieldsOf EXCEPT ![o] = [n \in KeyNames |-> Nil]]
  <2>1. \A q \in Objects : FieldsOf'[q] = IF q = o THEN [n \in KeyNames |-> Nil] ELSE FieldsOf[q]
    BY <1>6, <1>7 DEF FieldsOf
  <2>2. DOMAIN FieldsOf' = Objects /\ DOMAIN FieldsOf = Objects
    BY DEF FieldsOf
  <2>3. FieldsOf' = [q \in Objects |-> FieldsOf'[q]]
    BY DEF FieldsOf
  <2>4. [FieldsOf EXCEPT ![o] = [n \in KeyNames |-> Nil]]
          = [q \in Objects |-> IF q = o THEN [n \in KeyNames |-> Nil] ELSE FieldsOf[q]]
    BY <2>2
  <2> QED BY <2>1, <2>3, <2>4
<1>9. Map!Unreferenced(o)
  <2>1. \A p \in Places : Thing(table, held[p]) # o
    <3>1. \A p \in Places : held[p] # <<"object", slot>>
      BY <1>1 DEF Referenced
    <3> QED BY <1>4, <3>1 DEF Inv, TypeOK, HeldPresent
  <2>2. ASSUME NEW q \in Objects, NEW b \in Index, NEW i \in 1 .. Len(buckets[q][b])
        PROVE  /\ Thing(table, buckets[q][b][i].key) # o
               /\ Thing(table, buckets[q][b][i].value) # o
    <3>1. /\ buckets[q][b][i].key # <<"object", slot>>
          /\ buckets[q][b][i].value # <<"object", slot>>
      BY <1>1, ElementsReferenced
    <3> QED BY <1>4, <3>1, ElementsPresent
  <2> QED BY <2>1, <2>2, MapUnreferenced
<1>10. Map!Forget(o)
  BY <1>1, <1>5, <1>8, <1>9, MapValues DEF Map!Forget, Map!NoFields, FieldsOf, HeldOf
<1> QED BY <1>10 DEF Map!Next

LEMMA MoveMaps ==
  ASSUME Usual, Inv, ~failed, Inv', FieldsKnown', NEW kind \in Kinds,
         NEW old \in Slots, NEW new \in Slots, Move(kind, old, new)
  PROVE  FieldsOf' = FieldsOf /\ HeldOf' = HeldOf /\ failed' = failed
<1> DEFINE m(v) == Moved(kind, old, new, v)
<1>1. \A v \in Values : Present(table, v) =>
        Thing(table', m(v)) = Thing(table, v) /\ (m(v) \in NaNs <=> v \in NaNs)
  BY MovedEntry
<1> HIDE DEF m
<1>2. /\ held' = [p \in Places |-> IF p \in ScriptPlaces THEN m(held[p]) ELSE held[p]]
      /\ buckets' = [o \in Objects |-> [b \in DOMAIN buckets[o] |->
           [i \in DOMAIN buckets[o][b] |->
              [key |-> m(buckets[o][b][i].key), value |-> m(buckets[o][b][i].value)]]]]
      /\ UNCHANGED <<size, failed>>
  BY DEF Move, MoveReferences, m, Moved
<1>3. ASSUME NEW o \in Objects
      PROVE  \A n, w : HasField(table', buckets'[o], n, w)
                         <=> HasField(table, buckets[o], n, w)
  <2>1. DOMAIN buckets[o] = Index
    BY DEF Inv, TypeOK, Index
  <2>2. ASSUME NEW b \in Index
        PROVE  /\ Len(buckets'[o][b]) = Len(buckets[o][b])
               /\ \A i \in 1 .. Len(buckets[o][b]) :
                    /\ buckets'[o][b][i].key = m(buckets[o][b][i].key)
                    /\ buckets'[o][b][i].value = m(buckets[o][b][i].value)
    <3>1. /\ DOMAIN buckets[o][b] = 1 .. Len(buckets[o][b])
          /\ Len(buckets[o][b]) \in Nat
      BY ElementsTyped DEF Inv
    <3>2. buckets'[o][b] = [i \in 1 .. Len(buckets[o][b]) |->
            [key |-> m(buckets[o][b][i].key), value |-> m(buckets[o][b][i].value)]]
      BY <1>2, <2>1, <3>1
    <3>3. buckets'[o][b] \in Seq(Element)
      <4>1. TypeOK'
        BY DEF Inv
      <4> QED BY <4>1 DEF TypeOK, Index
    <3>4. Len(buckets'[o][b]) = Len(buckets[o][b])
      BY <3>1, <3>2, <3>3
    <3> QED BY <3>2, <3>4
  <2>3. \A b \in Index : \A i \in 1 .. Len(buckets[o][b]) :
          /\ \A n : HasKey(table', buckets'[o][b][i], n) <=> HasKey(table, buckets[o][b][i], n)
          /\ Thing(table', buckets'[o][b][i].value) = Thing(table, buckets[o][b][i].value)
    <3> TAKE b \in Index
    <3> TAKE i \in 1 .. Len(buckets[o][b])
    <3>1. /\ buckets'[o][b][i].key = m(buckets[o][b][i].key)
          /\ buckets'[o][b][i].value = m(buckets[o][b][i].value)
      BY <2>2
    <3> QED BY <1>1, <3>1, ElementsPresent DEF HasKey, KeyIn
  <2> QED BY SMTT(20), ZenonT(30), <2>2, <2>3 DEF HasField
<1>4. FieldsOf' = FieldsOf
  BY <1>3, FieldsOfSame
<1>5. HeldOf' = HeldOf
  <2>0. "host" \in Places /\ "host" \notin ScriptPlaces
    BY FieldsAssumption DEF Places
  <2>1. held["host"] = m(held["host"])
    <3>1. held["host"] # <<kind, old>>
      <4>1. CASE kind = "object"
        BY <4>1 DEF Move, MayMove
      <4>2. CASE kind = "string"
        <5>1. <<kind, old>> \in Refs /\ ~IsObject(<<kind, old>>)
          BY <4>2, RefParts DEF IsObject, Kinds
        <5> QED BY <5>1 DEF Inv, HeldPresent
      <4> QED BY <4>1, <4>2 DEF Kinds
    <3> QED BY <3>1 DEF m, Moved
  <2>2. \A p \in Places : held'[p] = m(held[p])
    BY <1>2, <2>0, <2>1 DEF Places, Usual
  <2>3. \A p \in Places : Thing(table', held'[p]) = Thing(table, held[p])
    BY <1>1, <2>2 DEF Inv, TypeOK, HeldPresent
  <2> QED BY <2>3, HeldSame
<1> QED BY <1>2, <1>4, <1>5

(* Objects with hash buckets that are collected and moved are objects as   *)
(* maps that stay where they are.                                          *)
THEOREM MapTheorem == ASSUME Usual PROVE Spec => ImplementsFieldMap
<1>1. Init => Map!Init
  <2> SUFFICES ASSUME Init PROVE Map!Init
    OBVIOUS
  <2>1. \A o \in Objects, n \in KeyNames : FieldNamed(o, n) = Nil
    BY InitInv, FieldsOfElements, EmptyHasNone DEF Init, FieldsKnown
  <2>2. Denoted(Nil) = Nil
    BY RefParts DEF Denoted
  <2> QED BY <2>1, <2>2, MapValues DEF Init, Map!Init, Map!NoFields
<1>2. Inv /\ Inv' /\ FieldsKnown' /\ [Next]_vars
        => Map!Next \/ (FieldsOf' = FieldsOf /\ HeldOf' = HeldOf /\ failed' = failed)
  <2> SUFFICES ASSUME Inv, Inv', FieldsKnown', [Next]_vars
               PROVE  \/ Map!Next
                      \/ FieldsOf' = FieldsOf /\ HeldOf' = HeldOf /\ failed' = failed
    OBVIOUS
  <2>1. CASE UNCHANGED vars
    <3>1. FieldsOf' = FieldsOf
      BY <2>1, FieldsOfSame DEF vars
    <3>2. HeldOf' = HeldOf
      BY <2>1, HeldSame DEF vars
    <3> QED BY <2>1, <3>1, <3>2 DEF vars
  <2>2. CASE Next
    <3>0. ~failed
      BY <2>2 DEF Next
    <3>1. ASSUME NEW p \in ScriptPlaces, CreateObject(p) PROVE Map!Next
      BY <3>0, <3>1, CreateMaps
    <3>2. ASSUME NEW p \in ScriptPlaces, FindOrAddString(p) PROVE Map!Next
      BY <3>0, <3>2, FindOrAddStringMaps
    <3>3. ASSUME NEW p \in ScriptPlaces,
                 PushAtom(p) \/ \E q \in Places : Copy(p, q)
          PROVE  Map!Next
      BY <3>0, <3>3, HoldsMaps
    <3>4. ASSUME NEW p \in ScriptPlaces, NEW po \in Places, NEW k \in Operands,
                 FieldGet(p, po, k)
          PROVE  Map!Next
      BY <3>0, <3>4, FieldGetMaps
    <3>5. ASSUME NEW po \in Places, NEW k \in Operands, NEW v \in Operands,
                 FieldSet(po, k, v)
          PROVE  Map!Next
      BY <3>0, <3>5, FieldSetMaps
    <3>6. ASSUME ReleaseHandle PROVE Map!Next
      BY <3>0, <3>6, ReleaseMaps
    <3>7. ASSUME NEW slot \in Slots, CleanOldObject(slot) PROVE Map!Next
      BY <3>0, <3>7, CleanOldObjectMaps
    <3>8. ASSUME NEW slot \in Slots, CleanOldString(slot)
          PROVE  FieldsOf' = FieldsOf /\ HeldOf' = HeldOf /\ failed' = failed
      BY <3>0, <3>8, CleanOldStringMaps
    <3>9. ASSUME NEW kind \in Kinds, NEW old \in Slots, NEW new \in Slots,
                 Move(kind, old, new)
          PROVE  FieldsOf' = FieldsOf /\ HeldOf' = HeldOf /\ failed' = failed
      BY <3>0, <3>9, MoveMaps
    <3> QED BY <2>2, <3>1, <3>2, <3>3, <3>4, <3>5, <3>6, <3>7, <3>8, <3>9 DEF Next
  <2> QED BY <2>1, <2>2
<1>3. Inv /\ Inv' /\ FieldsKnown' /\ [Next]_vars => [Map!Next]_<<FieldsOf, HeldOf, failed>>
  BY <1>2
<1>4. Inv => FieldsKnown
  BY FieldsOfElements
<1>5. Spec => []Inv
  BY Invariant
<1> QED BY <1>1, <1>3, <1>4, <1>5, PTL DEF Spec, ImplementsFieldMap, Map!Spec, FieldsOf, HeldOf

=============================================================================
