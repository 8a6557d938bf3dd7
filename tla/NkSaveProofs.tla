---------------------------- MODULE NkSaveProofs ----------------------------
(***************************************************************************)
(* Proofs about NkSave.                                                    *)
(*                                                                         *)
(* First what the operators of the model return: Nth and BySlot, the items *)
(* of Written and their positions (ItemIs), how many of each part are read *)
(* at a position (ByIs, and StringAt ... ActiveAt for the item that is     *)
(* next), Added and Rebuilt, and the searches by name. Then the inductive  *)
(* invariant IInv, which says what a VM is when p items of a stream are    *)
(* read: Sane for every stream, Faithful for one that is not damaged; what *)
(* each item does to it (...Item), what an undamaged item is never refused *)
(* for (...Fits), and one lemma for each action (...Keeps). Last, that a   *)
(* field is found: InPlaceInv, for every stream, and AgreedInv, for one    *)
(* that is not damaged, say what was read item by item, and SavedMeans is  *)
(* what that comes to at the end.                                          *)
(***************************************************************************)
EXTENDS NkSave, SequenceTheorems, FiniteSetTheorems, NaturalsInduction,
        WellFoundedInduction, TLAPS

LEMMA Constants ==
  /\ SlotCount \in Nat /\ BucketCount \in Nat \ {0}
  /\ Nil \in Atoms /\ None \notin Contents
  /\ None \notin Nat /\ None \notin Object /\ None \notin Image
  /\ None \notin Context
  /\ Slots \subseteq Nat /\ Slots \subseteq Int
  /\ IsFiniteSet(Slots)
<1>1. IsFiniteSet(0 .. SlotCount - 1)
  BY SaveAssumption, FS_Interval
<1> QED BY <1>1, SaveAssumption DEF Slots

LEMMA SmallestNat ==
  ASSUME NEW S \in SUBSET Nat, S # {}
  PROVE  \E n \in S : \A m \in S : n <= m
<1> DEFINE R == OpToRel(<, Nat)
<1>1. IsWellFoundedOn(R, Nat)
  BY NatLessThanWellFounded
<1>2. ASSUME NEW x \in Nat, NEW y \in Nat, y < x
      PROVE  <<y, x>> \in R
  BY <1>2 DEF OpToRel
<1> HIDE DEF R
<1>3. PICK x \in S : \A y \in S : ~ (<<y, x>> \in R)
  BY <1>1, WFMin
<1>4. ASSUME NEW y \in S PROVE x <= y
  <2>1. ~ (y < x) /\ x \in Nat /\ y \in Nat
    BY <1>2, <1>3
  <2> QED BY <2>1
<1> QED BY <1>4

-----------------------------------------------------------------------------
(* Slots in use, in their order.                                             *)

Below(S, s) == {t \in S : t < s}

LEMMA BelowIs ==
  ASSUME NEW S \in SUBSET Slots, NEW s \in S
  PROVE  /\ IsFiniteSet(S) /\ Cardinality(S) \in Nat
         /\ Cardinality(Below(S, s)) \in 0 .. Cardinality(S) - 1
         /\ \A t \in S : t < s => Cardinality(Below(S, t)) < Cardinality(Below(S, s))
<1>1. IsFiniteSet(S) /\ Cardinality(S) \in Nat /\ S \subseteq Nat
  BY Constants, FS_Subset, FS_CardinalityType
<1>2. \A T \in SUBSET S : IsFiniteSet(T) /\ Cardinality(T) \in Nat
  BY <1>1, FS_Subset, FS_CardinalityType
<1>3. \A T \in SUBSET S, x \in S : x \notin T =>
        Cardinality(T \cup {x}) = Cardinality(T) + 1
  BY <1>2, FS_AddElement
<1>4. Cardinality(Below(S, s)) \in 0 .. Cardinality(S) - 1
  <2>1. Below(S, s) \in SUBSET S /\ s \notin Below(S, s)
    BY <1>1 DEF Below
  <2>2. (Below(S, s) \cup {s}) \in SUBSET S
    BY <2>1
  <2>3. Cardinality(Below(S, s) \cup {s}) <= Cardinality(S)
    BY <1>1, <2>2, FS_Subset
  <2>4. Cardinality(Below(S, s) \cup {s}) = Cardinality(Below(S, s)) + 1
    BY <1>3, <2>1
  <2>5. Cardinality(Below(S, s)) \in Nat
    BY <1>2, <2>1
  <2> QED BY <1>1, <2>3, <2>4, <2>5
<1>5. ASSUME NEW t \in S, t < s
      PROVE  Cardinality(Below(S, t)) < Cardinality(Below(S, s))
  <2>1. /\ Below(S, t) \in SUBSET S /\ Below(S, s) \in SUBSET S
        /\ t \notin Below(S, t)
    BY <1>1 DEF Below
  <2>2. (Below(S, t) \cup {t}) \in SUBSET Below(S, s)
    <3>1. \A x \in S : x \in Nat
      BY <1>1
    <3>2. ASSUME NEW x \in S, x < t PROVE x < s
      BY <1>5, <3>1, <3>2
    <3> QED BY <1>5, <3>2 DEF Below
  <2>3. Cardinality(Below(S, t) \cup {t}) <= Cardinality(Below(S, s))
    BY <1>2, <2>1, <2>2, FS_Subset
  <2>4. Cardinality(Below(S, t) \cup {t}) = Cardinality(Below(S, t)) + 1
    BY <1>3, <2>1
  <2> QED BY <1>2, <2>1, <2>3, <2>4
<1> QED BY <1>1, <1>4, <1>5

LEMMA NthIs ==
  ASSUME NEW S \in SUBSET Slots
  PROVE  /\ IsFiniteSet(S) /\ Cardinality(S) \in Nat
         /\ \A i \in 1 .. Cardinality(S) :
              Nth(S, i) \in S /\ Cardinality(Below(S, Nth(S, i))) = i - 1
         /\ \A s \in S : \E i \in 1 .. Cardinality(S) : Nth(S, i) = s
         /\ \A i, j \in 1 .. Cardinality(S) : i < j <=> Nth(S, i) < Nth(S, j)
         /\ \A i, j \in 1 .. Cardinality(S) : Nth(S, i) = Nth(S, j) => i = j
<1> DEFINE n == Cardinality(S)
           r == [s \in S |-> Cardinality(Below(S, s)) + 1]
<1>1. IsFiniteSet(S) /\ n \in Nat /\ S \subseteq Nat
  BY Constants, FS_Subset, FS_CardinalityType
<1>2. \A s \in S : r[s] \in 1 .. n
  BY <1>1, BelowIs
<1>3. \A s, t \in S : t < s => r[t] < r[s]
  <2>1. \A s, t \in S : t < s => Cardinality(Below(S, t)) < Cardinality(Below(S, s))
    BY BelowIs
  <2>2. \A s \in S : Cardinality(Below(S, s)) \in Nat
    BY <1>1, BelowIs
  <2> QED BY <2>1, <2>2
<1>4. \A s, t \in S : r[s] = r[t] => s = t
  <2> SUFFICES ASSUME NEW s \in S, NEW t \in S, r[s] = r[t], s # t
               PROVE  FALSE
    OBVIOUS
  <2>1. s \in Nat /\ t \in Nat /\ r[s] \in Nat /\ r[t] \in Nat
    BY <1>1, <1>2
  <2> HIDE DEF r
  <2>2. s < t \/ t < s
    BY <2>1
  <2> QED BY <1>3, <2>1, <2>2
<1>5. \A i \in 1 .. n : \E s \in S : r[s] = i
  <2>1. r \in Injection(S, 1 .. n)
    BY <1>2, <1>4 DEF Injection, IsInjective
  <2>2. IsFiniteSet(1 .. n) /\ Cardinality(1 .. n) = n
    BY <1>1, FS_Interval
  <2>3. r \in Surjection(S, 1 .. n)
    BY <2>1, <2>2, FS_Injection
  <2> QED BY <2>3 DEF Surjection
<1>6. ASSUME NEW i \in 1 .. n
      PROVE  Nth(S, i) \in S /\ Cardinality(Below(S, Nth(S, i))) = i - 1
  <2>1. PICK s \in S : r[s] = i
    BY <1>5
  <2>2. Cardinality(Below(S, s)) = i - 1
    <3>1. Cardinality(Below(S, s)) \in Nat /\ r[s] = Cardinality(Below(S, s)) + 1
      BY <1>1, BelowIs
    <3> QED BY <2>1, <3>1
  <2>3. Nth(S, i) = CHOOSE x \in S : Cardinality(Below(S, x)) = i - 1
    BY DEF Nth, Below
  <2> QED BY <2>2, <2>3
<1>7. \A i \in 1 .. n : Nth(S, i) \in S /\ r[Nth(S, i)] = i
  BY <1>6
<1> HIDE DEF r, n
<1>8. \A s \in S : Nth(S, r[s]) = s
  BY <1>2, <1>4, <1>7
<1>9. ASSUME NEW i \in 1 .. n, NEW j \in 1 .. n
      PROVE  i < j <=> Nth(S, i) < Nth(S, j)
  <2>1. Nth(S, i) \in Nat /\ Nth(S, j) \in Nat /\ i \in Nat /\ j \in Nat
    <3>1. \A x \in S : x \in Nat
      BY <1>1
    <3>2. Nth(S, i) \in S /\ Nth(S, j) \in S
      BY <1>7
    <3>3. i \in Nat /\ j \in Nat
      BY <1>1
    <3> QED BY <3>1, <3>2, <3>3
  <2>2. Nth(S, i) < Nth(S, j) => i < j
    BY <1>3, <1>7
  <2>3. Nth(S, j) < Nth(S, i) => j < i
    BY <1>3, <1>7
  <2>4. Nth(S, i) = Nth(S, j) => i = j
    BY <1>7
  <2> QED BY <2>1, <2>2, <2>3, <2>4
<1> QED BY <1>1, <1>2, <1>6, <1>7, <1>8, <1>9 DEF n

-----------------------------------------------------------------------------
(* The elements of an object in the order they are written.                  *)

Flattening(seqs, m, g) ==
  g = [i \in 1 .. m |-> IF i = 1 THEN seqs[i] ELSE g[i - 1] \o seqs[i]]

LEMMA FlattenUnfolds ==
  ASSUME NEW seqs, Len(seqs) # 0
  PROVE  FlattenSeq(seqs) =
           (CHOOSE g : Flattening(seqs, Len(seqs), g))[Len(seqs)]
BY DEF FlattenSeq, Flattening

LEMMA FlatteningHas ==
  ASSUME NEW seqs, NEW n \in Nat, NEW g, Flattening(seqs, n, g)
  PROVE  /\ DOMAIN g = 1 .. n /\ g = [i \in 1 .. n |-> g[i]]
         /\ \A i \in 1 .. n :
              g[i] = IF i = 1 THEN seqs[i] ELSE g[i - 1] \o seqs[i]
<1> DEFINE h == [i \in 1 .. n |-> IF i = 1 THEN seqs[i] ELSE g[i - 1] \o seqs[i]]
<1>1. g = h
  BY DEF Flattening
<1>2. /\ DOMAIN h = 1 .. n /\ h = [i \in 1 .. n |-> h[i]]
      /\ \A i \in 1 .. n :
           h[i] = IF i = 1 THEN seqs[i] ELSE g[i - 1] \o seqs[i]
  OBVIOUS
<1> HIDE DEF h
<1> QED BY <1>1, <1>2

LEMMA FlatteningExists ==
  ASSUME NEW seqs, NEW n \in Nat
  PROVE  \E g : Flattening(seqs, n, g)
<1> DEFINE wrong == {m \in Nat : ~ \E g : Flattening(seqs, m, g)}
<1>1. SUFFICES wrong = {}
  OBVIOUS
<1>2. SUFFICES ASSUME wrong # {} PROVE FALSE
  OBVIOUS
<1>3. PICK m \in wrong : \A k \in wrong : m <= k
  BY <1>2, SmallestNat
<1>4. m # 0
  <2>1. Flattening(seqs, 0, [i \in 1 .. 0 |-> 0])
    BY DEF Flattening
  <2> QED BY <2>1
<1>5. m - 1 \in Nat /\ ~ (m <= m - 1) /\ m \in Nat
  BY <1>4
<1>6. PICK g : Flattening(seqs, m - 1, g)
  BY <1>3, <1>5
<1> DEFINE h == [i \in 1 .. m |->
                   IF i = 1 THEN seqs[i] ELSE g[i - 1] \o seqs[i]]
<1>7. \A i \in 1 .. m - 1 :
        /\ g[i] = IF i = 1 THEN seqs[i] ELSE g[i - 1] \o seqs[i]
        /\ i \in 1 .. m
  <2>1. \A i \in 1 .. m - 1 :
          g[i] = IF i = 1 THEN seqs[i] ELSE g[i - 1] \o seqs[i]
    BY <1>5, <1>6, FlatteningHas
  <2> QED BY <1>5, <2>1
<1>8. \A i \in 1 .. m - 1 : h[i] = g[i]
  BY <1>7
<1>9. \A i \in 1 .. m : i # 1 => i - 1 \in 1 .. m - 1
  BY <1>5
<1>10. \A i \in 1 .. m : h[i] = IF i = 1 THEN seqs[i] ELSE h[i - 1] \o seqs[i]
  <2> TAKE i \in 1 .. m
  <2>1. h[i] = IF i = 1 THEN seqs[i] ELSE g[i - 1] \o seqs[i]
    OBVIOUS
  <2> HIDE DEF h
  <2> QED BY <1>8, <1>9, <2>1
<1>11. h = [i \in 1 .. m |-> h[i]]
  OBVIOUS
<1> HIDE DEF h
<1>12. Flattening(seqs, m, h)
  BY <1>10, <1>11 DEF Flattening
<1> QED BY <1>12

LEMMA FlattenIs ==
  ASSUME NEW S, NEW seqs \in Seq(Seq(S)), Len(seqs) # 0
  PROVE  \E g : /\ g \in [1 .. Len(seqs) -> Seq(S)]
                /\ g[1] = seqs[1]
                /\ \A i \in 2 .. Len(seqs) : g[i] = g[i - 1] \o seqs[i]
                /\ FlattenSeq(seqs) = g[Len(seqs)]
<1> DEFINE n == Len(seqs)
           g == CHOOSE f : Flattening(seqs, n, f)
<1>1. n \in Nat \ {0} /\ \A i \in 1 .. n : seqs[i] \in Seq(S)
  OBVIOUS
<1>2. Flattening(seqs, n, g)
  BY <1>1, FlatteningExists
<1>3. FlattenSeq(seqs) = g[n]
  BY FlattenUnfolds
<1> HIDE DEF g, n
<1>4. /\ DOMAIN g = 1 .. n /\ g[1] = seqs[1]
      /\ \A i \in 2 .. n : g[i] = g[i - 1] \o seqs[i]
      /\ g = [i \in 1 .. n |-> g[i]]
  <2>1. /\ DOMAIN g = 1 .. n /\ g = [i \in 1 .. n |-> g[i]]
        /\ \A i \in 1 .. n :
             g[i] = IF i = 1 THEN seqs[i] ELSE g[i - 1] \o seqs[i]
    BY <1>1, <1>2, FlatteningHas
  <2>2. 1 \in 1 .. n /\ \A i \in 2 .. n : i \in 1 .. n /\ i # 1
    BY <1>1
  <2> QED BY <2>1, <2>2
<1> DEFINE wrong == {i \in 1 .. n : g[i] \notin Seq(S)}
<1>5. wrong = {}
  <2>1. SUFFICES ASSUME wrong # {} PROVE FALSE
    OBVIOUS
  <2>2. wrong \in SUBSET Nat
    BY <1>1
  <2>3. PICK i \in wrong : \A j \in wrong : i <= j
    BY <2>1, <2>2, SmallestNat
  <2>4. i # 1
    BY <1>1, <1>4
  <2>5. i \in 2 .. n /\ i - 1 \in 1 .. n /\ ~ (i <= i - 1)
    BY <1>1, <2>4
  <2>6. g[i - 1] \in Seq(S)
    BY <2>3, <2>5
  <2>7. g[i - 1] \o seqs[i] \in Seq(S)
    BY <1>1, <2>5, <2>6, ConcatProperties
  <2> QED BY <1>4, <2>5, <2>7
<1>6. g \in [1 .. n -> Seq(S)]
  BY <1>4, <1>5
<1> QED BY <1>3, <1>4, <1>6 DEF n

LEMMA InOrderIs ==
  ASSUME NEW buckets \in [Buckets -> Seq(Element)]
  PROVE  InOrder(buckets) \in Seq(Element)
<1> DEFINE seqs == [b \in 1 .. BucketCount |-> buckets[b - 1]]
<1>1. BucketCount \in Nat \ {0} /\ \A b \in 1 .. BucketCount : b - 1 \in Buckets
  BY Constants DEF Buckets
<1>2. seqs \in Seq(Seq(Element)) /\ Len(seqs) = BucketCount
  BY <1>1
<1>3. Len(seqs) \in 1 .. Len(seqs) /\ Len(seqs) # 0
  BY <1>1, <1>2
<1> HIDE DEF seqs
<1>4. PICK g : /\ g \in [1 .. Len(seqs) -> Seq(Element)]
               /\ FlattenSeq(seqs) = g[Len(seqs)]
  BY <1>2, <1>3, FlattenIs
<1>5. FlattenSeq(seqs) \in Seq(Element)
  BY <1>3, <1>4
<1> QED BY <1>5 DEF InOrder, seqs

LEMMA ListedIs ==
  ASSUME NEW object \in Object
  PROVE  /\ Listed(object) \in Image
         /\ Listed(object).handles = object.handles
         /\ Listed(object).type = object.type
         /\ Listed(object).elements = InOrder(object.buckets)
<1>1. InOrder(object.buckets) \in Seq(Element)
  BY InOrderIs DEF Object
<1> DEFINE e == InOrder(object.buckets)
<1>2. object.handles \in Nat /\ object.type \in Nat /\ e \in Seq(Element)
  BY <1>1 DEF Object
<1>3. Listed(object) = [elements |-> e, handles |-> object.handles,
                        type |-> object.type]
  BY DEF Listed
<1> HIDE DEF e
<1>4. Listed(object) \in Image
  BY <1>2, <1>3 DEF Image
<1> QED BY <1>3, <1>4 DEF e


-----------------------------------------------------------------------------
(* A stream as it is written: which part is at which position.               *)

Things ==
  Nat \cup Seq(Values) \cup Contents \cup Native \cup {None} \cup Image
    \cup Seq(Names) \cup [name : Names, data : Values] \cup Context
    \cup {"coroutine", "root"}

Items == Parts \X Nat \X Things

LEMMA OneIs ==
  ASSUME NEW part \in Parts, NEW x \in Things
  PROVE  /\ One(part, x) \in Seq(Items) /\ Len(One(part, x)) = 1
         /\ One(part, x)[1] = <<part, 0, x>>
<1>1. <<part, 0, x>> \in Items
  BY DEF Items
<1> QED BY <1>1 DEF One

LEMMA EachIs ==
  ASSUME NEW part \in Parts, NEW seq \in Seq(Things)
  PROVE  /\ Each(part, seq) \in Seq(Items) /\ Len(Each(part, seq)) = Len(seq)
         /\ \A i \in 1 .. Len(seq) : Each(part, seq)[i] = <<part, i, seq[i]>>
<1>1. Len(seq) \in Nat /\ \A i \in 1 .. Len(seq) : seq[i] \in Things
  OBVIOUS
<1>2. \A i \in 1 .. Len(seq) : <<part, i, seq[i]>> \in Items
  <2>1. \A i \in 1 .. Len(seq) : i \in Nat
    BY <1>1
  <2> HIDE DEF Things
  <2> QED BY <1>1, <2>1 DEF Items
<1> HIDE DEF Items
<1> QED BY <1>1, <1>2 DEF Each

LEMMA BySlotIs ==
  ASSUME NEW part \in Parts, NEW table \in [Slots -> Things]
  PROVE  LET n == Cardinality(Used(table)) IN
         /\ BySlot(part, table) \in Seq(Items) /\ Len(BySlot(part, table)) = n
         /\ \A i \in 1 .. n :
              BySlot(part, table)[i] =
                <<part, Nth(Used(table), i), table[Nth(Used(table), i)]>>
<1> DEFINE used == Used(table)
           n == Cardinality(used)
<1>1. used \in SUBSET Slots
  BY DEF Used
<1>2. n \in Nat /\ \A i \in 1 .. n : Nth(used, i) \in Slots
  BY <1>1, NthIs
<1>3. BySlot(part, table) =
        [i \in 1 .. n |-> <<part, Nth(used, i), table[Nth(used, i)]>>]
  BY DEF BySlot
<1> HIDE DEF used, n, Things
<1>4. \A i \in 1 .. n : <<part, Nth(used, i), table[Nth(used, i)]>> \in Items
  BY <1>2, Constants DEF Items
<1> HIDE DEF Items
<1>5. /\ BySlot(part, table) \in Seq(Items) /\ Len(BySlot(part, table)) = n
      /\ \A i \in 1 .. n :
           BySlot(part, table)[i] = <<part, Nth(used, i), table[Nth(used, i)]>>
  BY <1>2, <1>3, <1>4
<1> QED BY <1>5 DEF used, n

ImagesOf(v) ==
  [s \in Slots |-> IF v.objects[s] = None THEN None ELSE Listed(v.objects[s])]

LEMMA ObjectsAre ==
  ASSUME NEW v \in VM
  PROVE  LET used == Used(v.objects) IN
         /\ Objects(v) \in Seq(Items) /\ Len(Objects(v)) = Cardinality(used)
         /\ \A i \in 1 .. Cardinality(used) :
              Objects(v)[i] =
                <<"object", Nth(used, i), Listed(v.objects[Nth(used, i)])>>
<1>1. \A s \in Slots : v.objects[s] = None \/ v.objects[s] \in Object
  BY DEF VM
<1>2. \A s \in Slots : ImagesOf(v)[s] = None <=> v.objects[s] = None
  BY <1>1, ListedIs, Constants DEF ImagesOf
<1>3. ImagesOf(v) \in [Slots -> Things]
  BY <1>1, ListedIs DEF ImagesOf, Things
<1>4. Used(ImagesOf(v)) = Used(v.objects)
  BY <1>2 DEF Used
<1>5. Objects(v) = BySlot("object", ImagesOf(v)) /\ "object" \in Parts
  BY DEF Objects, ImagesOf, Parts
<1>6. \A i \in 1 .. Cardinality(Used(v.objects)) :
        /\ Nth(Used(v.objects), i) \in Slots
        /\ v.objects[Nth(Used(v.objects), i)] # None
  <2>1. Used(v.objects) \in SUBSET Slots
    BY DEF Used
  <2>2. \A i \in 1 .. Cardinality(Used(v.objects)) :
          Nth(Used(v.objects), i) \in Used(v.objects)
    BY <2>1, NthIs
  <2> QED BY <2>2 DEF Used
<1>7. \A i \in 1 .. Cardinality(Used(v.objects)) :
        ImagesOf(v)[Nth(Used(v.objects), i)] =
          Listed(v.objects[Nth(Used(v.objects), i)])
  BY <1>6 DEF ImagesOf
<1>8. LET n == Cardinality(Used(v.objects)) IN
      /\ Objects(v) \in Seq(Items) /\ Len(Objects(v)) = n
      /\ \A i \in 1 .. n :
           Objects(v)[i] =
             <<"object", Nth(Used(v.objects), i), ImagesOf(v)[Nth(Used(v.objects), i)]>>
  BY <1>3, <1>4, <1>5, BySlotIs
<1> QED BY <1>7, <1>8

(* One sequence is at the beginning of another, or after some of it.         *)
Begins(h, w) == Len(h) <= Len(w) /\ \A i \in 1 .. Len(h) : w[i] = h[i]
Follows(s, base, w) ==
  base + Len(s) <= Len(w) /\ \A i \in 1 .. Len(s) : w[base + i] = s[i]

LEMMA Joining ==
  ASSUME NEW h \in Seq(Items), NEW s \in Seq(Items)
  PROVE  /\ h \o s \in Seq(Items) /\ Len(h \o s) = Len(h) + Len(s)
         /\ Begins(h, h \o s) /\ Follows(s, Len(h), h \o s)
<1>1. Len(h) \in Nat /\ Len(s) \in Nat
  OBVIOUS
<1>2. /\ h \o s \in Seq(Items) /\ Len(h \o s) = Len(h) + Len(s)
      /\ \A i \in 1 .. Len(h) + Len(s) :
           (h \o s)[i] = IF i <= Len(h) THEN h[i] ELSE s[i - Len(h)]
  BY ConcatProperties
<1> DEFINE w == h \o s  m == Len(h)  n == Len(s)
<1> HIDE DEF Items, w, m, n
<1>3. Begins(h, w)
  BY <1>1, <1>2 DEF Begins, w, m, n
<1>4. Follows(s, m, w)
  <2>1. \A i \in 1 .. n : /\ m + i \in 1 .. m + n /\ ~ (m + i <= m)
                          /\ m + i - m = i
    BY <1>1 DEF m, n
  <2> QED BY <1>1, <1>2, <2>1 DEF Follows, w, m, n
<1> QED BY <1>2, <1>3, <1>4 DEF w, m

LEMMA ActiveIs ==
  ASSUME NEW v \in VM
  PROVE  LET n == Len(v.active) IN
         /\ n \in Nat
         /\ Active(v) \in Seq(Items) /\ Len(Active(v)) = n + 1
         /\ \A i \in 1 .. n : Active(v)[i] = <<"active", v.active[i], "coroutine">>
         /\ Active(v)[n + 1] = <<"active", 0, "root">>
<1> DEFINE n == Len(v.active)
           a == [i \in 1 .. n |-> <<"active", v.active[i], "coroutine">>]
           b == << <<"active", 0, "root">> >>
<1>1. n \in Nat /\ \A i \in 1 .. n : v.active[i] \in Slots
  BY DEF VM
<1>2. "active" \in Parts /\ "coroutine" \in Things /\ "root" \in Things
  BY DEF Parts, Things
<1>3. a \in Seq(Items) /\ Len(a) = n
  <2>1. \A i \in 1 .. n : <<"active", v.active[i], "coroutine">> \in Items
    BY <1>1, <1>2, Constants DEF Items
  <2> QED BY <1>1, <2>1
<1>4. b \in Seq(Items) /\ Len(b) = 1 /\ b[1] = <<"active", 0, "root">>
  <2>1. <<"active", 0, "root">> \in Items
    BY <1>2 DEF Items
  <2> QED BY <2>1
<1>5. Active(v) = a \o b
  BY DEF Active
<1>6. \A i \in 1 .. n : a[i] = <<"active", v.active[i], "coroutine">>
  OBVIOUS
<1> HIDE DEF a, b, n
<1>7. /\ a \o b \in Seq(Items) /\ Len(a \o b) = Len(a) + Len(b)
      /\ Begins(a, a \o b) /\ Follows(b, Len(a), a \o b)
  BY <1>3, <1>4, Joining
<1>8. 1 \in 1 .. Len(b) /\ n \in Nat
  BY <1>1, <1>4
<1>9. ASSUME NEW i \in 1 .. n
      PROVE  Active(v)[i] = <<"active", v.active[i], "coroutine">>
  BY <1>3, <1>5, <1>6, <1>7 DEF Begins
<1>10. Active(v)[n + 1] = <<"active", 0, "root">>
  BY <1>3, <1>4, <1>5, <1>7, <1>8 DEF Follows
<1>11. Active(v) \in Seq(Items) /\ Len(Active(v)) = n + 1
  BY <1>3, <1>4, <1>5, <1>7
<1> QED BY <1>1, <1>9, <1>10, <1>11 DEF n

LEMMA BeginsOn ==
  ASSUME NEW h \in Seq(Items), NEW w \in Seq(Items), NEW x \in Seq(Items),
         Begins(h, w), Begins(w, x)
  PROVE  /\ Begins(h, x)
         /\ \A s \in Seq(Items), base \in Nat : Follows(s, base, w) => Follows(s, base, x)
<1>1. Len(h) \in Nat /\ Len(w) \in Nat /\ Len(x) \in Nat
  OBVIOUS
<1> HIDE DEF Items
<1>2. Begins(h, x)
  BY <1>1 DEF Begins
<1>3. ASSUME NEW s \in Seq(Items), NEW base \in Nat, Follows(s, base, w)
      PROVE  Follows(s, base, x)
  <2>1. Len(s) \in Nat /\ \A i \in 1 .. Len(s) : base + i \in 1 .. Len(w)
    BY <1>1, <1>3 DEF Follows
  <2> QED BY <1>1, <1>3, <2>1 DEF Follows, Begins
<1> QED BY <1>2, <1>3

AfterStrings(v) == 3 + Cardinality(Used(v.strings))
AfterNatives(v) == AfterStrings(v) + Len(v.natives)
AfterFunctions(v) == AfterNatives(v) + Len(v.functions)
AfterObjects(v) == AfterFunctions(v) + Cardinality(Used(v.objects))
AfterTypes(v) == AfterObjects(v) + 2
AfterSubsystems(v) == AfterTypes(v) + Len(v.subsystems)
AfterContexts(v) == AfterSubsystems(v) + Cardinality(Used(v.contexts))
AfterActive(v) == AfterContexts(v) + Len(v.active)

Offsets(v) ==
  /\ AfterStrings(v) \in Nat /\ AfterNatives(v) \in Nat
  /\ AfterFunctions(v) \in Nat /\ AfterObjects(v) \in Nat
  /\ AfterTypes(v) \in Nat /\ AfterSubsystems(v) \in Nat
  /\ AfterContexts(v) \in Nat /\ AfterActive(v) \in Nat
  /\ 3 <= AfterStrings(v) /\ AfterStrings(v) <= AfterNatives(v)
  /\ AfterNatives(v) <= AfterFunctions(v)
  /\ AfterFunctions(v) <= AfterObjects(v)
  /\ AfterTypes(v) = AfterObjects(v) + 2
  /\ AfterTypes(v) <= AfterSubsystems(v)
  /\ AfterSubsystems(v) <= AfterContexts(v)
  /\ AfterContexts(v) <= AfterActive(v)

LEMMA CountsAre ==
  ASSUME NEW v \in VM
  PROVE  /\ Used(v.strings) \in SUBSET Slots /\ Cardinality(Used(v.strings)) \in Nat
         /\ Used(v.objects) \in SUBSET Slots /\ Cardinality(Used(v.objects)) \in Nat
         /\ Used(v.contexts) \in SUBSET Slots /\ Cardinality(Used(v.contexts)) \in Nat
         /\ Len(v.natives) \in Nat /\ Len(v.functions) \in Nat
         /\ Len(v.subsystems) \in Nat /\ Len(v.active) \in Nat
         /\ Offsets(v)
<1>1. /\ Used(v.strings) \in SUBSET Slots /\ Used(v.objects) \in SUBSET Slots
      /\ Used(v.contexts) \in SUBSET Slots
  BY DEF Used
<1>2. /\ Cardinality(Used(v.strings)) \in Nat /\ Cardinality(Used(v.objects)) \in Nat
      /\ Cardinality(Used(v.contexts)) \in Nat
  BY <1>1, NthIs
<1>3. /\ Len(v.natives) \in Nat /\ Len(v.functions) \in Nat
      /\ Len(v.subsystems) \in Nat /\ Len(v.active) \in Nat
  BY DEF VM
<1>4. AfterStrings(v) \in Nat /\ 3 <= AfterStrings(v)
  BY <1>2 DEF AfterStrings
<1>5. AfterNatives(v) \in Nat /\ AfterStrings(v) <= AfterNatives(v)
  BY <1>3, <1>4 DEF AfterNatives
<1>6. AfterFunctions(v) \in Nat /\ AfterNatives(v) <= AfterFunctions(v)
  BY <1>3, <1>5 DEF AfterFunctions
<1>7. AfterObjects(v) \in Nat /\ AfterFunctions(v) <= AfterObjects(v)
  BY <1>2, <1>6 DEF AfterObjects
<1>8. AfterTypes(v) \in Nat /\ AfterTypes(v) = AfterObjects(v) + 2
  BY <1>7 DEF AfterTypes
<1>9. AfterSubsystems(v) \in Nat /\ AfterTypes(v) <= AfterSubsystems(v)
  BY <1>3, <1>8 DEF AfterSubsystems
<1>10. AfterContexts(v) \in Nat /\ AfterSubsystems(v) <= AfterContexts(v)
  BY <1>2, <1>9 DEF AfterContexts
<1>11. AfterActive(v) \in Nat /\ AfterContexts(v) <= AfterActive(v)
  BY <1>3, <1>10 DEF AfterActive
<1> QED
  BY <1>1, <1>2, <1>3, <1>4, <1>5, <1>6, <1>7, <1>8, <1>9, <1>10, <1>11 DEF Offsets

LEMMA ThingsOf ==
  ASSUME NEW v \in VM
  PROVE  /\ v.errors \in Things /\ v.statics \in Things /\ v.root \in Things
         /\ v.strings \in [Slots -> Things] /\ v.contexts \in [Slots -> Things]
         /\ v.globals \in Things /\ v.types \in Things
         /\ v.natives \in Seq(Things) /\ v.functions \in Seq(Things)
         /\ v.subsystems \in Seq(Things)
<1>v. /\ v.errors \in Things /\ v.statics \in Things /\ v.root \in Things
      /\ v.strings \in [Slots -> Things] /\ v.contexts \in [Slots -> Things]
      /\ v.globals \in Things /\ v.types \in Things
  BY DEF VM, Things
<1>s. /\ v.natives \in Seq(Things) /\ v.functions \in Seq(Things)
      /\ v.subsystems \in Seq(Things)
  <2>1. \A S, T : S \subseteq T => Seq(S) \subseteq Seq(T)
    OBVIOUS
  <2>2. /\ v.natives \in Seq(Native) /\ v.functions \in Seq(Nat \cup {None})
        /\ v.subsystems \in Seq([name : Names, data : Values])
    BY DEF VM
  <2>3. /\ Native \subseteq Things /\ (Nat \cup {None}) \subseteq Things
        /\ [name : Names, data : Values] \subseteq Things
    BY DEF Things
  <2> HIDE DEF Things
  <2> QED BY <2>1, <2>2, <2>3
<1> QED BY <1>v, <1>s

LEMMA Sections ==
  ASSUME NEW v \in VM
  PROVE  LET w == Written(v) IN
         /\ w \in Seq(Items) /\ Len(w) = AfterActive(v) + 1
         /\ Follows(One("errors", v.errors), 0, w)
         /\ Follows(One("statics", v.statics), 1, w)
         /\ Follows(One("root", v.root), 2, w)
         /\ Follows(BySlot("string", v.strings), 3, w)
         /\ Follows(Each("native", v.natives), AfterStrings(v), w)
         /\ Follows(Each("function", v.functions), AfterNatives(v), w)
         /\ Follows(Objects(v), AfterFunctions(v), w)
         /\ Follows(One("globals", v.globals), AfterObjects(v), w)
         /\ Follows(One("types", v.types), AfterObjects(v) + 1, w)
         /\ Follows(Each("subsystem", v.subsystems), AfterTypes(v), w)
         /\ Follows(BySlot("context", v.contexts), AfterSubsystems(v), w)
         /\ Follows(Active(v), AfterContexts(v), w)
<1> DEFINE p1 == One("errors", v.errors)
           p2 == One("statics", v.statics)
           p3 == One("root", v.root)
           p4 == BySlot("string", v.strings)
           p5 == Each("native", v.natives)
           p6 == Each("function", v.functions)
           p7 == Objects(v)
           p8 == One("globals", v.globals)
           p9 == One("types", v.types)
           p10 == Each("subsystem", v.subsystems)
           p11 == BySlot("context", v.contexts)
           p12 == Active(v)
<1> DEFINE h1 == p1
           h2 == h1 \o p2
           h3 == h2 \o p3
           h4 == h3 \o p4
           h5 == h4 \o p5
           h6 == h5 \o p6
           h7 == h6 \o p7
           h8 == h7 \o p8
           h9 == h8 \o p9
           h10 == h9 \o p10
           h11 == h10 \o p11
           h12 == h11 \o p12
<1>w. Written(v) = h12
  BY DEF Written
<1>v. /\ v.errors \in Things /\ v.statics \in Things /\ v.root \in Things
      /\ v.strings \in [Slots -> Things] /\ v.contexts \in [Slots -> Things]
      /\ v.globals \in Things /\ v.types \in Things
      /\ v.natives \in Seq(Things) /\ v.functions \in Seq(Things)
      /\ v.subsystems \in Seq(Things)
  BY ThingsOf
<1>p. Parts = {"errors", "statics", "root", "string", "native", "function",
               "object", "globals", "types", "subsystem", "context", "active"}
  BY DEF Parts
<1>c. /\ Cardinality(Used(v.strings)) \in Nat /\ Cardinality(Used(v.objects)) \in Nat
      /\ Cardinality(Used(v.contexts)) \in Nat
      /\ Len(v.natives) \in Nat /\ Len(v.functions) \in Nat
      /\ Len(v.subsystems) \in Nat /\ Len(v.active) \in Nat
  BY CountsAre
<1>n. /\ AfterStrings(v) \in Nat /\ AfterNatives(v) \in Nat
      /\ AfterFunctions(v) \in Nat /\ AfterObjects(v) \in Nat
      /\ AfterTypes(v) \in Nat /\ AfterSubsystems(v) \in Nat
      /\ AfterContexts(v) \in Nat /\ AfterActive(v) \in Nat
      /\ AfterTypes(v) = AfterObjects(v) + 2
  BY CountsAre DEF Offsets
<1>a1. p1 \in Seq(Items) /\ Len(p1) = 1
  <2>1. "errors" \in Parts
    BY <1>p
  <2> QED BY <1>v, <2>1, OneIs
<1>a2. p2 \in Seq(Items) /\ Len(p2) = 1
  <2>1. "statics" \in Parts
    BY <1>p
  <2> QED BY <1>v, <2>1, OneIs
<1>a3. p3 \in Seq(Items) /\ Len(p3) = 1
  <2>1. "root" \in Parts
    BY <1>p
  <2> QED BY <1>v, <2>1, OneIs
<1>a4. p4 \in Seq(Items) /\ Len(p4) = Cardinality(Used(v.strings))
  <2>1. "string" \in Parts
    BY <1>p
  <2> QED BY <1>v, <2>1, BySlotIs
<1>a5. p5 \in Seq(Items) /\ Len(p5) = Len(v.natives)
  <2>1. "native" \in Parts
    BY <1>p
  <2> QED BY <1>v, <2>1, EachIs
<1>a6. p6 \in Seq(Items) /\ Len(p6) = Len(v.functions)
  <2>1. "function" \in Parts
    BY <1>p
  <2> QED BY <1>v, <2>1, EachIs
<1>a7. p7 \in Seq(Items) /\ Len(p7) = Cardinality(Used(v.objects))
  BY ObjectsAre
<1>a8. p8 \in Seq(Items) /\ Len(p8) = 1
  <2>1. "globals" \in Parts
    BY <1>p
  <2> QED BY <1>v, <2>1, OneIs
<1>a9. p9 \in Seq(Items) /\ Len(p9) = 1
  <2>1. "types" \in Parts
    BY <1>p
  <2> QED BY <1>v, <2>1, OneIs
<1>a10. p10 \in Seq(Items) /\ Len(p10) = Len(v.subsystems)
  <2>1. "subsystem" \in Parts
    BY <1>p
  <2> QED BY <1>v, <2>1, EachIs
<1>a11. p11 \in Seq(Items) /\ Len(p11) = Cardinality(Used(v.contexts))
  <2>1. "context" \in Parts
    BY <1>p
  <2> QED BY <1>v, <2>1, BySlotIs
<1>a12. p12 \in Seq(Items) /\ Len(p12) = Len(v.active) + 1
  BY ActiveIs
<1> HIDE DEF p1, p2, p3, p4, p5, p6, p7, p8, p9, p10, p11, p12
<1> HIDE DEF Items
<1>b1. h1 \in Seq(Items) /\ Len(h1) = 1
  BY <1>a1
<1> HIDE DEF h1
<1>b2. /\ h2 \in Seq(Items) /\ Len(h2) = 2
       /\ Begins(h1, h2) /\ Follows(p2, 1, h2)
  <2>1. /\ h2 \in Seq(Items) /\ Len(h2) = Len(h1) + Len(p2)
        /\ Begins(h1, h2) /\ Follows(p2, Len(h1), h2)
    BY <1>a2, <1>b1, Joining
  <2>2. Len(h2) = 2
    BY <1>c, <1>a2, <1>b1, <2>1, CountsAre DEF Offsets
  <2> QED BY <1>b1, <2>1, <2>2
<1> HIDE DEF h2
<1>b3. /\ h3 \in Seq(Items) /\ Len(h3) = 3
       /\ Begins(h2, h3) /\ Follows(p3, 2, h3)
  <2>1. /\ h3 \in Seq(Items) /\ Len(h3) = Len(h2) + Len(p3)
        /\ Begins(h2, h3) /\ Follows(p3, Len(h2), h3)
    BY <1>a3, <1>b2, Joining
  <2>2. Len(h3) = 3
    BY <1>c, <1>a3, <1>b2, <2>1, CountsAre DEF Offsets
  <2> QED BY <1>b2, <2>1, <2>2
<1> HIDE DEF h3
<1>b4. /\ h4 \in Seq(Items) /\ Len(h4) = AfterStrings(v)
       /\ Begins(h3, h4) /\ Follows(p4, 3, h4)
  <2>1. /\ h4 \in Seq(Items) /\ Len(h4) = Len(h3) + Len(p4)
        /\ Begins(h3, h4) /\ Follows(p4, Len(h3), h4)
    BY <1>a4, <1>b3, Joining
  <2>2. Len(h4) = AfterStrings(v)
    BY <1>c, <1>a4, <1>b3, <1>n, <2>1 DEF AfterStrings
  <2> QED BY <1>b3, <2>1, <2>2
<1> HIDE DEF h4
<1>b5. /\ h5 \in Seq(Items) /\ Len(h5) = AfterNatives(v)
       /\ Begins(h4, h5) /\ Follows(p5, AfterStrings(v), h5)
  <2>1. /\ h5 \in Seq(Items) /\ Len(h5) = Len(h4) + Len(p5)
        /\ Begins(h4, h5) /\ Follows(p5, Len(h4), h5)
    BY <1>a5, <1>b4, Joining
  <2>2. Len(h5) = AfterNatives(v)
    BY <1>c, <1>a5, <1>b4, <1>n, <2>1 DEF AfterNatives
  <2> QED BY <1>b4, <2>1, <2>2
<1> HIDE DEF h5
<1>b6. /\ h6 \in Seq(Items) /\ Len(h6) = AfterFunctions(v)
       /\ Begins(h5, h6) /\ Follows(p6, AfterNatives(v), h6)
  <2>1. /\ h6 \in Seq(Items) /\ Len(h6) = Len(h5) + Len(p6)
        /\ Begins(h5, h6) /\ Follows(p6, Len(h5), h6)
    BY <1>a6, <1>b5, Joining
  <2>2. Len(h6) = AfterFunctions(v)
    BY <1>c, <1>a6, <1>b5, <1>n, <2>1 DEF AfterFunctions
  <2> QED BY <1>b5, <2>1, <2>2
<1> HIDE DEF h6
<1>b7. /\ h7 \in Seq(Items) /\ Len(h7) = AfterObjects(v)
       /\ Begins(h6, h7) /\ Follows(p7, AfterFunctions(v), h7)
  <2>1. /\ h7 \in Seq(Items) /\ Len(h7) = Len(h6) + Len(p7)
        /\ Begins(h6, h7) /\ Follows(p7, Len(h6), h7)
    BY <1>a7, <1>b6, Joining
  <2>2. Len(h7) = AfterObjects(v)
    BY <1>c, <1>a7, <1>b6, <1>n, <2>1 DEF AfterObjects
  <2> QED BY <1>b6, <2>1, <2>2
<1> HIDE DEF h7
<1>b8. /\ h8 \in Seq(Items) /\ Len(h8) = AfterObjects(v) + 1
       /\ Begins(h7, h8) /\ Follows(p8, AfterObjects(v), h8)
  <2>1. /\ h8 \in Seq(Items) /\ Len(h8) = Len(h7) + Len(p8)
        /\ Begins(h7, h8) /\ Follows(p8, Len(h7), h8)
    BY <1>a8, <1>b7, Joining
  <2>2. Len(h8) = AfterObjects(v) + 1
    BY <1>c, <1>a8, <1>b7, <1>n, <2>1 DEF AfterObjects
  <2> QED BY <1>b7, <2>1, <2>2
<1> HIDE DEF h8
<1>b9. /\ h9 \in Seq(Items) /\ Len(h9) = AfterTypes(v)
       /\ Begins(h8, h9) /\ Follows(p9, AfterObjects(v) + 1, h9)
  <2>1. /\ h9 \in Seq(Items) /\ Len(h9) = Len(h8) + Len(p9)
        /\ Begins(h8, h9) /\ Follows(p9, Len(h8), h9)
    BY <1>a9, <1>b8, Joining
  <2>2. Len(h9) = AfterTypes(v)
    BY SMTT(20), ZenonT(30), <1>c, <1>a9, <1>b8, <1>n, <2>1
  <2> QED BY <1>b8, <2>1, <2>2
<1> HIDE DEF h9
<1>b10. /\ h10 \in Seq(Items) /\ Len(h10) = AfterSubsystems(v)
       /\ Begins(h9, h10) /\ Follows(p10, AfterTypes(v), h10)
  <2>1. /\ h10 \in Seq(Items) /\ Len(h10) = Len(h9) + Len(p10)
        /\ Begins(h9, h10) /\ Follows(p10, Len(h9), h10)
    BY <1>a10, <1>b9, Joining
  <2>2. Len(h10) = AfterSubsystems(v)
    BY <1>c, <1>a10, <1>b9, <1>n, <2>1 DEF AfterSubsystems
  <2> QED BY <1>b9, <2>1, <2>2
<1> HIDE DEF h10
<1>b11. /\ h11 \in Seq(Items) /\ Len(h11) = AfterContexts(v)
       /\ Begins(h10, h11) /\ Follows(p11, AfterSubsystems(v), h11)
  <2>1. /\ h11 \in Seq(Items) /\ Len(h11) = Len(h10) + Len(p11)
        /\ Begins(h10, h11) /\ Follows(p11, Len(h10), h11)
    BY <1>a11, <1>b10, Joining
  <2>2. Len(h11) = AfterContexts(v)
    BY <1>c, <1>a11, <1>b10, <1>n, <2>1 DEF AfterContexts
  <2> QED BY <1>b10, <2>1, <2>2
<1> HIDE DEF h11
<1>b12. /\ h12 \in Seq(Items) /\ Len(h12) = AfterActive(v) + 1
       /\ Begins(h11, h12) /\ Follows(p12, AfterContexts(v), h12)
  <2>1. /\ h12 \in Seq(Items) /\ Len(h12) = Len(h11) + Len(p12)
        /\ Begins(h11, h12) /\ Follows(p12, Len(h11), h12)
    BY <1>a12, <1>b11, Joining
  <2>2. Len(h12) = AfterActive(v) + 1
    <3>1. \A a, n \in Nat : a + (n + 1) = (a + n) + 1
      OBVIOUS
    <3>2. Len(h12) = AfterContexts(v) + (Len(v.active) + 1)
      BY <1>a12, <1>b11, <2>1
    <3>3. AfterActive(v) = AfterContexts(v) + Len(v.active)
      BY DEF AfterActive
    <3>4. AfterContexts(v) \in Nat /\ Len(v.active) \in Nat
      BY <1>c, <1>n
    <3> QED BY <3>1, <3>2, <3>3, <3>4
  <2> QED BY <1>b11, <2>1, <2>2
<1> HIDE DEF h12
<1>d12. Begins(h12, h12)
  BY DEF Begins
<1>d11. Begins(h11, h12)
  BY <1>b11, <1>b12, <1>b12, <1>d12, BeginsOn
<1>d10. Begins(h10, h12)
  BY <1>b10, <1>b11, <1>b12, <1>d11, BeginsOn
<1>d9. Begins(h9, h12)
  BY <1>b9, <1>b10, <1>b12, <1>d10, BeginsOn
<1>d8. Begins(h8, h12)
  BY <1>b8, <1>b9, <1>b12, <1>d9, BeginsOn
<1>d7. Begins(h7, h12)
  BY <1>b7, <1>b8, <1>b12, <1>d8, BeginsOn
<1>d6. Begins(h6, h12)
  BY <1>b6, <1>b7, <1>b12, <1>d7, BeginsOn
<1>d5. Begins(h5, h12)
  BY <1>b5, <1>b6, <1>b12, <1>d6, BeginsOn
<1>d4. Begins(h4, h12)
  BY <1>b4, <1>b5, <1>b12, <1>d5, BeginsOn
<1>d3. Begins(h3, h12)
  BY <1>b3, <1>b4, <1>b12, <1>d4, BeginsOn
<1>d2. Begins(h2, h12)
  BY <1>b2, <1>b3, <1>b12, <1>d3, BeginsOn
<1>d1. Begins(h1, h12)
  BY <1>b1, <1>b2, <1>b12, <1>d2, BeginsOn
<1>e1. Follows(p1, 0, h12)
  <2>1. Follows(p1, 0, h1)
    BY <1>a1, <1>b1 DEF Follows, h1
  <2> QED BY <1>a1, <1>b1, <1>b12, <1>d1, <2>1, BeginsOn DEF Begins
<1>e2. Follows(p2, 1, h12)
  BY <1>a2, <1>b1, <1>b2, <1>b12, <1>d2, <1>n, BeginsOn
<1>e3. Follows(p3, 2, h12)
  BY <1>a3, <1>b2, <1>b3, <1>b12, <1>d3, <1>n, BeginsOn
<1>e4. Follows(p4, 3, h12)
  BY <1>a4, <1>b3, <1>b4, <1>b12, <1>d4, <1>n, BeginsOn
<1>e5. Follows(p5, AfterStrings(v), h12)
  BY <1>a5, <1>b4, <1>b5, <1>b12, <1>d5, <1>n, BeginsOn
<1>e6. Follows(p6, AfterNatives(v), h12)
  BY <1>a6, <1>b5, <1>b6, <1>b12, <1>d6, <1>n, BeginsOn
<1>e7. Follows(p7, AfterFunctions(v), h12)
  BY <1>a7, <1>b6, <1>b7, <1>b12, <1>d7, <1>n, BeginsOn
<1>e8. Follows(p8, AfterObjects(v), h12)
  BY <1>a8, <1>b7, <1>b8, <1>b12, <1>d8, <1>n, BeginsOn
<1>e9. Follows(p9, AfterObjects(v) + 1, h12)
  BY SMTT(20), ZenonT(30), <1>a9, <1>b8, <1>b9, <1>b12, <1>d9, <1>n, BeginsOn
<1>e10. Follows(p10, AfterTypes(v), h12)
  BY <1>a10, <1>b9, <1>b10, <1>b12, <1>d10, <1>n, BeginsOn
<1>e11. Follows(p11, AfterSubsystems(v), h12)
  BY <1>a11, <1>b10, <1>b11, <1>b12, <1>d11, <1>n, BeginsOn
<1>e12. Follows(p12, AfterContexts(v), h12)
  BY <1>a12, <1>b11, <1>b12, <1>b12, <1>d12, <1>n, BeginsOn
<1> QED BY <1>w, <1>b12, <1>e1, <1>e2, <1>e3, <1>e4, <1>e5, <1>e6, <1>e7, <1>e8, <1>e9, <1>e10, <1>e11, <1>e12
       DEF p1, p2, p3, p4, p5, p6, p7, p8, p9, p10, p11, p12


-----------------------------------------------------------------------------
(* How much of a part is read when p items of the stream are.                *)

Done(p, a, n) == IF p <= a THEN 0 ELSE IF p <= a + n THEN p - a ELSE n

StringsBy(v, p) == Done(p, 3, Cardinality(Used(v.strings)))
NativesBy(v, p) == Done(p, AfterStrings(v), Len(v.natives))
FunctionsBy(v, p) == Done(p, AfterNatives(v), Len(v.functions))
ObjectsBy(v, p) == Done(p, AfterFunctions(v), Cardinality(Used(v.objects)))
ContextsBy(v, p) == Done(p, AfterSubsystems(v), Cardinality(Used(v.contexts)))
ActiveBy(v, p) == Done(p, AfterContexts(v), Len(v.active))

(* A counter of n items from position a + 1 to b, as item i is read.          *)
Progress(a, b, n, i, now, before) ==
  /\ now \in 0 .. n /\ before \in 0 .. n
  /\ i <= a => now = 0 /\ before = 0
  /\ b < i => now = n /\ before = n
  /\ \A k \in 1 .. n : i = a + k => now = k /\ before = k - 1

LEMMA DoneIs ==
  ASSUME NEW a \in Nat, NEW n \in Nat, NEW i \in Nat \ {0}
  PROVE  Progress(a, a + n, n, i, Done(i, a, n), Done(i - 1, a, n))
BY DEF Done, Progress

LEMMA WithinOrAfter ==
  ASSUME NEW a \in Nat, NEW n \in Nat, NEW i \in Nat, a < i
  PROVE  (\E k \in 1 .. n : i = a + k) \/ a + n < i
<1>1. CASE i <= a + n
  <2>1. i - a \in 1 .. n /\ i = a + (i - a)
    BY <1>1
  <2> QED BY <2>1
<1>2. CASE ~ (i <= a + n)
  BY <1>2
<1> QED BY <1>1, <1>2

(* The items of the first n slots of a table.                                *)
First(S, n) == {Nth(S, i) : i \in 1 .. n}

LEMMA FirstIs ==
  ASSUME NEW S \in SUBSET Slots
  PROVE  /\ First(S, 0) = {} /\ First(S, Cardinality(S)) = S
         /\ \A n \in 0 .. Cardinality(S) : First(S, n) \in SUBSET S
         /\ \A n \in 1 .. Cardinality(S) :
              /\ First(S, n) = First(S, n - 1) \cup {Nth(S, n)}
              /\ Nth(S, n) \notin First(S, n - 1) /\ Nth(S, n) \in S
              /\ \A s \in S \ First(S, n - 1) : Nth(S, n) <= s
<1> DEFINE m == Cardinality(S)
<1>1. /\ m \in Nat
      /\ \A i \in 1 .. m : Nth(S, i) \in S
      /\ \A s \in S : \E i \in 1 .. m : Nth(S, i) = s
      /\ \A i, j \in 1 .. m : i < j <=> Nth(S, i) < Nth(S, j)
      /\ \A i, j \in 1 .. m : Nth(S, i) = Nth(S, j) => i = j
  BY NthIs
<1> HIDE DEF m
<1>2. First(S, 0) = {}
  BY DEF First
<1>3. First(S, m) = S
  BY <1>1 DEF First
<1>4. \A n \in 0 .. m : First(S, n) \in SUBSET S
  BY <1>1 DEF First
<1>5. ASSUME NEW n \in 1 .. m
      PROVE  /\ First(S, n) = First(S, n - 1) \cup {Nth(S, n)}
             /\ Nth(S, n) \notin First(S, n - 1) /\ Nth(S, n) \in S
             /\ \A s \in S \ First(S, n - 1) : Nth(S, n) <= s
  <2>1. /\ \A i \in 1 .. n : i \in 1 .. n - 1 \/ i = n
        /\ \A i \in 1 .. n - 1 : i \in 1 .. n /\ i \in 1 .. m /\ i # n
        /\ n \in 1 .. n
    BY <1>1
  <2>2. First(S, n) = First(S, n - 1) \cup {Nth(S, n)}
    BY <2>1 DEF First
  <2>3. Nth(S, n) \notin First(S, n - 1)
    BY <1>1, <2>1 DEF First
  <2>4. ASSUME NEW s \in S \ First(S, n - 1) PROVE Nth(S, n) <= s
    <3>1. PICK i \in 1 .. m : Nth(S, i) = s
      BY <1>1
    <3>2. i \notin 1 .. n - 1
      BY <2>4, <3>1 DEF First
    <3>3. i = n \/ n < i
      BY <1>1, <3>2
    <3>4. Nth(S, n) = s \/ Nth(S, n) < s
      BY <1>1, <3>1, <3>3
    <3>5. Nth(S, n) \in Nat /\ s \in Nat
      <4>1. \A x \in S : x \in Nat
        BY Constants
      <4> QED BY <1>1, <4>1
    <3> QED BY <3>4, <3>5
  <2> QED BY <1>1, <2>2, <2>3, <2>4
<1> QED BY <1>2, <1>3, <1>4, <1>5 DEF m

(* What is at a position of a stream that is not damaged.                    *)
ItemCases(v, i, item) ==
  \/ i = 1 /\ item = <<"errors", 0, v.errors>>
  \/ i = 2 /\ item = <<"statics", 0, v.statics>>
  \/ i = 3 /\ item = <<"root", 0, v.root>>
  \/ i = AfterObjects(v) + 1 /\ item = <<"globals", 0, v.globals>>
  \/ i = AfterObjects(v) + 2 /\ item = <<"types", 0, v.types>>
  \/ \E k \in 1 .. Cardinality(Used(v.strings)) :
        /\ i = 3 + k
        /\ item = <<"string", Nth(Used(v.strings), k), v.strings[Nth(Used(v.strings), k)]>>
  \/ \E k \in 1 .. Len(v.natives) :
        /\ i = AfterStrings(v) + k
        /\ item = <<"native", k, v.natives[k]>>
  \/ \E k \in 1 .. Len(v.functions) :
        /\ i = AfterNatives(v) + k
        /\ item = <<"function", k, v.functions[k]>>
  \/ \E k \in 1 .. Cardinality(Used(v.objects)) :
        /\ i = AfterFunctions(v) + k
        /\ item = <<"object", Nth(Used(v.objects), k), Listed(v.objects[Nth(Used(v.objects), k)])>>
  \/ \E k \in 1 .. Cardinality(Used(v.contexts)) :
        /\ i = AfterSubsystems(v) + k
        /\ item = <<"context", Nth(Used(v.contexts), k), v.contexts[Nth(Used(v.contexts), k)]>>
  \/ \E k \in 1 .. Len(v.subsystems) :
        /\ i = AfterTypes(v) + k
        /\ item = <<"subsystem", k, v.subsystems[k]>>
  \/ \E k \in 1 .. Len(v.active) :
        /\ i = AfterContexts(v) + k
        /\ item = <<"active", v.active[k], "coroutine">>
  \/ i = AfterActive(v) + 1 /\ item = <<"active", 0, "root">>

(* A part of one item.                                                       *)
LEMMA FollowsOne ==
  ASSUME NEW part \in Parts, NEW x \in Things, NEW base \in Nat, NEW w,
         Follows(One(part, x), base, w)
  PROVE  w[base + 1] = <<part, 0, x>>
<1>1. Len(One(part, x)) = 1 /\ One(part, x)[1] = <<part, 0, x>>
  BY OneIs
<1>2. 1 \in 1 .. 1
  OBVIOUS
<1> QED BY <1>1, <1>2 DEF Follows

LEMMA ItemIs ==
  ASSUME NEW v \in VM
  PROVE  /\ Written(v) \in Seq(Items) /\ Len(Written(v)) = AfterActive(v) + 1
         /\ \A i \in 1 .. AfterActive(v) + 1 : ItemCases(v, i, Written(v)[i])
<1> DEFINE w == Written(v)
<1>s. /\ w \in Seq(Items) /\ Len(w) = AfterActive(v) + 1
      /\ Follows(One("errors", v.errors), 0, w)
      /\ Follows(One("statics", v.statics), 1, w)
      /\ Follows(One("root", v.root), 2, w)
      /\ Follows(BySlot("string", v.strings), 3, w)
      /\ Follows(Each("native", v.natives), AfterStrings(v), w)
      /\ Follows(Each("function", v.functions), AfterNatives(v), w)
      /\ Follows(Objects(v), AfterFunctions(v), w)
      /\ Follows(One("globals", v.globals), AfterObjects(v), w)
      /\ Follows(One("types", v.types), AfterObjects(v) + 1, w)
      /\ Follows(Each("subsystem", v.subsystems), AfterTypes(v), w)
      /\ Follows(BySlot("context", v.contexts), AfterSubsystems(v), w)
      /\ Follows(Active(v), AfterContexts(v), w)
  BY Sections
<1>t. /\ v.errors \in Things /\ v.statics \in Things /\ v.root \in Things
      /\ v.strings \in [Slots -> Things] /\ v.contexts \in [Slots -> Things]
      /\ v.globals \in Things /\ v.types \in Things
      /\ v.natives \in Seq(Things) /\ v.functions \in Seq(Things)
      /\ v.subsystems \in Seq(Things)
  BY ThingsOf
<1>p. /\ "errors" \in Parts /\ "statics" \in Parts /\ "root" \in Parts
      /\ "string" \in Parts /\ "native" \in Parts /\ "function" \in Parts
      /\ "globals" \in Parts /\ "types" \in Parts
      /\ "subsystem" \in Parts /\ "context" \in Parts
  BY DEF Parts
<1>c. /\ Cardinality(Used(v.strings)) \in Nat /\ Cardinality(Used(v.objects)) \in Nat
      /\ Cardinality(Used(v.contexts)) \in Nat
      /\ Len(v.natives) \in Nat /\ Len(v.functions) \in Nat
      /\ Len(v.subsystems) \in Nat /\ Len(v.active) \in Nat
      /\ Offsets(v)
  BY CountsAre
<1>n. /\ AfterStrings(v) \in Nat /\ AfterNatives(v) \in Nat
      /\ AfterFunctions(v) \in Nat /\ AfterObjects(v) \in Nat
      /\ AfterTypes(v) \in Nat /\ AfterTypes(v) = AfterObjects(v) + 2
      /\ AfterSubsystems(v) \in Nat
      /\ AfterContexts(v) \in Nat /\ AfterActive(v) \in Nat
  BY <1>c DEF Offsets
<1> HIDE DEF w, Things, Items, Parts
<1>1. w[1] = <<"errors", 0, v.errors>>
  <2>1. w[0 + 1] = <<"errors", 0, v.errors>>
    BY <1>p, <1>s, <1>t, FollowsOne
  <2> QED BY <2>1
<1>2. w[2] = <<"statics", 0, v.statics>>
  <2>1. w[1 + 1] = <<"statics", 0, v.statics>>
    BY <1>p, <1>s, <1>t, FollowsOne
  <2> QED BY <2>1
<1>3. w[3] = <<"root", 0, v.root>>
  <2>1. w[2 + 1] = <<"root", 0, v.root>>
    BY <1>p, <1>s, <1>t, FollowsOne
  <2> QED BY <2>1
<1>4. w[AfterObjects(v) + 1] = <<"globals", 0, v.globals>>
  <2>1. /\ AfterObjects(v) \in Nat /\ "globals" \in Parts /\ v.globals \in Things
        /\ Follows(One("globals", v.globals), AfterObjects(v), w)
    BY <1>n, <1>p, <1>s, <1>t
  <2> QED BY <2>1, FollowsOne
<1>5. w[AfterObjects(v) + 2] = <<"types", 0, v.types>>
  <2> DEFINE base == AfterObjects(v) + 1
  <2>1. /\ base \in Nat /\ "types" \in Parts /\ v.types \in Things
        /\ Follows(One("types", v.types), base, w)
    BY <1>n, <1>p, <1>s, <1>t
  <2>2. base + 1 = AfterObjects(v) + 2
    BY <1>n
  <2> HIDE DEF base
  <2>3. w[base + 1] = <<"types", 0, v.types>>
    BY <2>1, FollowsOne
  <2> QED BY <2>2, <2>3
<1>6. \A k \in 1 .. Cardinality(Used(v.strings)) :
        w[3 + k] = <<"string", Nth(Used(v.strings), k), v.strings[Nth(Used(v.strings), k)]>>
  <2>1. /\ Len(BySlot("string", v.strings)) = Cardinality(Used(v.strings))
        /\ \A k \in 1 .. Cardinality(Used(v.strings)) :
             BySlot("string", v.strings)[k] = <<"string", Nth(Used(v.strings), k), v.strings[Nth(Used(v.strings), k)]>>
    BY <1>t, <1>p, BySlotIs
  <2>2. \A k \in 1 .. Cardinality(Used(v.strings)) : w[3 + k] = BySlot("string", v.strings)[k]
    BY <1>s, <2>1 DEF Follows
  <2> QED BY <2>1, <2>2
<1>7. \A k \in 1 .. Len(v.natives) :
        w[AfterStrings(v) + k] = <<"native", k, v.natives[k]>>
  <2>1. /\ Len(Each("native", v.natives)) = Len(v.natives)
        /\ \A k \in 1 .. Len(v.natives) :
             Each("native", v.natives)[k] = <<"native", k, v.natives[k]>>
    BY <1>t, <1>p, EachIs
  <2>2. \A k \in 1 .. Len(v.natives) : w[AfterStrings(v) + k] = Each("native", v.natives)[k]
    BY <1>s, <2>1 DEF Follows
  <2> QED BY <2>1, <2>2
<1>8. \A k \in 1 .. Len(v.functions) :
        w[AfterNatives(v) + k] = <<"function", k, v.functions[k]>>
  <2>1. /\ Len(Each("function", v.functions)) = Len(v.functions)
        /\ \A k \in 1 .. Len(v.functions) :
             Each("function", v.functions)[k] = <<"function", k, v.functions[k]>>
    BY <1>t, <1>p, EachIs
  <2>2. \A k \in 1 .. Len(v.functions) : w[AfterNatives(v) + k] = Each("function", v.functions)[k]
    BY <1>s, <2>1 DEF Follows
  <2> QED BY <2>1, <2>2
<1>9. \A k \in 1 .. Len(v.subsystems) :
        w[AfterTypes(v) + k] = <<"subsystem", k, v.subsystems[k]>>
  <2>1. /\ Len(Each("subsystem", v.subsystems)) = Len(v.subsystems)
        /\ \A k \in 1 .. Len(v.subsystems) :
             Each("subsystem", v.subsystems)[k] = <<"subsystem", k, v.subsystems[k]>>
    BY <1>t, <1>p, EachIs
  <2>2. \A k \in 1 .. Len(v.subsystems) : w[AfterTypes(v) + k] = Each("subsystem", v.subsystems)[k]
    BY <1>s, <2>1 DEF Follows
  <2> QED BY <2>1, <2>2
<1>10. \A k \in 1 .. Cardinality(Used(v.objects)) :
        w[AfterFunctions(v) + k] = <<"object", Nth(Used(v.objects), k), Listed(v.objects[Nth(Used(v.objects), k)])>>
  <2>1. /\ Len(Objects(v)) = Cardinality(Used(v.objects))
        /\ \A k \in 1 .. Cardinality(Used(v.objects)) :
             Objects(v)[k] = <<"object", Nth(Used(v.objects), k), Listed(v.objects[Nth(Used(v.objects), k)])>>
    BY <1>t, <1>p, ObjectsAre
  <2>2. \A k \in 1 .. Cardinality(Used(v.objects)) : w[AfterFunctions(v) + k] = Objects(v)[k]
    BY <1>s, <2>1 DEF Follows
  <2> QED BY <2>1, <2>2
<1>11. \A k \in 1 .. Cardinality(Used(v.contexts)) :
        w[AfterSubsystems(v) + k] = <<"context", Nth(Used(v.contexts), k), v.contexts[Nth(Used(v.contexts), k)]>>
  <2>1. /\ Len(BySlot("context", v.contexts)) = Cardinality(Used(v.contexts))
        /\ \A k \in 1 .. Cardinality(Used(v.contexts)) :
             BySlot("context", v.contexts)[k] = <<"context", Nth(Used(v.contexts), k), v.contexts[Nth(Used(v.contexts), k)]>>
    BY <1>t, <1>p, BySlotIs
  <2>2. \A k \in 1 .. Cardinality(Used(v.contexts)) : w[AfterSubsystems(v) + k] = BySlot("context", v.contexts)[k]
    BY <1>s, <2>1 DEF Follows
  <2> QED BY <2>1, <2>2
<1>12. /\ \A k \in 1 .. Len(v.active) :
            w[AfterContexts(v) + k] = <<"active", v.active[k], "coroutine">>
       /\ w[AfterActive(v) + 1] = <<"active", 0, "root">>
  <2>1. /\ Len(Active(v)) = Len(v.active) + 1
        /\ \A k \in 1 .. Len(v.active) :
             Active(v)[k] = <<"active", v.active[k], "coroutine">>
        /\ Active(v)[Len(v.active) + 1] = <<"active", 0, "root">>
    BY ActiveIs
  <2>2. \A k \in 1 .. Len(v.active) + 1 : w[AfterContexts(v) + k] = Active(v)[k]
    BY <1>s, <2>1 DEF Follows
  <2>3. /\ \A k \in 1 .. Len(v.active) : k \in 1 .. Len(v.active) + 1
        /\ Len(v.active) + 1 \in 1 .. Len(v.active) + 1
        /\ AfterContexts(v) + (Len(v.active) + 1) = AfterActive(v) + 1
    <3>1. \A m, a \in Nat :
            /\ \A k \in 1 .. m : k \in 1 .. m + 1
            /\ m + 1 \in 1 .. m + 1 /\ a + (m + 1) = (a + m) + 1
      OBVIOUS
    <3> QED BY <1>c, <1>n, <3>1 DEF AfterActive
  <2> QED BY <2>1, <2>2, <2>3
<1>20. ASSUME NEW i \in 1 .. AfterActive(v) + 1
       PROVE  \/ i = 1 \/ i = 2 \/ i = 3
              \/ i = AfterObjects(v) + 1 \/ i = AfterObjects(v) + 2
              \/ \E k \in 1 .. Cardinality(Used(v.strings)) : i = 3 + k
              \/ \E k \in 1 .. Len(v.natives) : i = AfterStrings(v) + k
              \/ \E k \in 1 .. Len(v.functions) : i = AfterNatives(v) + k
              \/ \E k \in 1 .. Cardinality(Used(v.objects)) : i = AfterFunctions(v) + k
              \/ \E k \in 1 .. Cardinality(Used(v.contexts)) : i = AfterSubsystems(v) + k
              \/ \E k \in 1 .. Len(v.subsystems) : i = AfterTypes(v) + k
              \/ \E k \in 1 .. Len(v.active) : i = AfterContexts(v) + k
              \/ i = AfterActive(v) + 1
  <2>1. i \in Nat /\ (i = 1 \/ i = 2 \/ i = 3 \/ 3 < i)
    <3>1. \A m \in Nat : \A x \in 1 .. m + 1 :
            x \in Nat /\ (x = 1 \/ x = 2 \/ x = 3 \/ 3 < x)
      OBVIOUS
    <3> QED BY <1>n, <3>1
  <2>2. 3 < i =>
          (\E k \in 1 .. Cardinality(Used(v.strings)) : i = 3 + k) \/ AfterStrings(v) < i
    BY <1>c, <1>n, <2>1, WithinOrAfter DEF AfterStrings
  <2>3. AfterStrings(v) < i =>
          (\E k \in 1 .. Len(v.natives) : i = AfterStrings(v) + k) \/ AfterNatives(v) < i
    BY <1>c, <1>n, <2>1, WithinOrAfter DEF AfterNatives
  <2>4. AfterNatives(v) < i =>
          (\E k \in 1 .. Len(v.functions) : i = AfterNatives(v) + k) \/ AfterFunctions(v) < i
    BY <1>c, <1>n, <2>1, WithinOrAfter DEF AfterFunctions
  <2>5. AfterFunctions(v) < i =>
          (\E k \in 1 .. Cardinality(Used(v.objects)) : i = AfterFunctions(v) + k) \/ AfterObjects(v) < i
    BY <1>c, <1>n, <2>1, WithinOrAfter DEF AfterObjects
  <2>6. AfterObjects(v) < i =>
          \/ i = AfterObjects(v) + 1 \/ i = AfterObjects(v) + 2 \/ AfterTypes(v) < i
    <3>1. \A m, x \in Nat : m < x => x = m + 1 \/ x = m + 2 \/ m + 2 < x
      OBVIOUS
    <3> QED BY <1>n, <2>1, <3>1
  <2>7. AfterTypes(v) < i =>
          (\E k \in 1 .. Len(v.subsystems) : i = AfterTypes(v) + k) \/ AfterSubsystems(v) < i
    BY <1>c, <1>n, <2>1, WithinOrAfter DEF AfterSubsystems
  <2>8. AfterSubsystems(v) < i =>
          (\E k \in 1 .. Cardinality(Used(v.contexts)) : i = AfterSubsystems(v) + k) \/ AfterContexts(v) < i
    BY <1>c, <1>n, <2>1, WithinOrAfter DEF AfterContexts
  <2>9. AfterContexts(v) < i =>
          (\E k \in 1 .. Len(v.active) : i = AfterContexts(v) + k) \/ AfterActive(v) < i
    BY <1>c, <1>n, <2>1, WithinOrAfter DEF AfterActive
  <2>10. AfterActive(v) < i => i = AfterActive(v) + 1
    BY <1>n, <2>1
  <2> QED BY <2>1, <2>2, <2>3, <2>4, <2>5, <2>6, <2>7, <2>8, <2>9, <2>10
<1>21. ASSUME NEW i \in 1 .. AfterActive(v) + 1 PROVE ItemCases(v, i, w[i])
  BY SMTT(20), ZenonT(30), <1>1, <1>2, <1>3, <1>4, <1>5, <1>6, <1>7, <1>8, <1>9, <1>10, <1>11, <1>12, <1>20 DEF ItemCases
<1> QED BY <1>s, <1>21 DEF w

LEMMA Bounds ==
  ASSUME NEW v \in VM, NEW i \in Nat
  PROVE  /\ i <= 3 => i <= AfterStrings(v)
         /\ i <= AfterStrings(v) => i <= AfterNatives(v)
         /\ i <= AfterNatives(v) => i <= AfterFunctions(v)
         /\ i <= AfterFunctions(v) => i <= AfterObjects(v)
         /\ i <= AfterObjects(v) => i <= AfterTypes(v)
         /\ i <= AfterTypes(v) => i <= AfterSubsystems(v)
         /\ i <= AfterSubsystems(v) => i <= AfterContexts(v)
         /\ i <= AfterContexts(v) => i <= AfterActive(v)
         /\ i <= 3 \/ 3 < i
         /\ AfterStrings(v) \in Nat /\ (i <= AfterStrings(v) \/ AfterStrings(v) < i) /\ ~ (i <= AfterStrings(v) /\ AfterStrings(v) < i)
         /\ AfterNatives(v) \in Nat /\ (i <= AfterNatives(v) \/ AfterNatives(v) < i) /\ ~ (i <= AfterNatives(v) /\ AfterNatives(v) < i)
         /\ AfterFunctions(v) \in Nat /\ (i <= AfterFunctions(v) \/ AfterFunctions(v) < i) /\ ~ (i <= AfterFunctions(v) /\ AfterFunctions(v) < i)
         /\ AfterObjects(v) \in Nat /\ (i <= AfterObjects(v) \/ AfterObjects(v) < i) /\ ~ (i <= AfterObjects(v) /\ AfterObjects(v) < i)
         /\ AfterTypes(v) \in Nat /\ (i <= AfterTypes(v) \/ AfterTypes(v) < i) /\ ~ (i <= AfterTypes(v) /\ AfterTypes(v) < i)
         /\ AfterSubsystems(v) \in Nat /\ (i <= AfterSubsystems(v) \/ AfterSubsystems(v) < i) /\ ~ (i <= AfterSubsystems(v) /\ AfterSubsystems(v) < i)
         /\ AfterContexts(v) \in Nat /\ (i <= AfterContexts(v) \/ AfterContexts(v) < i) /\ ~ (i <= AfterContexts(v) /\ AfterContexts(v) < i)
         /\ AfterActive(v) \in Nat /\ (i <= AfterActive(v) \/ AfterActive(v) < i) /\ ~ (i <= AfterActive(v) /\ AfterActive(v) < i)
<1>1. Offsets(v)
  BY CountsAre
<1>2. \A x, y \in Nat : x <= y => (i <= x => i <= y)
  OBVIOUS
<1>3. \A x \in Nat : (i <= x \/ x < i) /\ ~ (i <= x /\ x < i)
  OBVIOUS
<1>4. AfterObjects(v) <= AfterTypes(v)
  BY <1>1 DEF Offsets
<1> QED BY <1>1, <1>2, <1>3, <1>4 DEF Offsets

LEMMA ByIs ==
  ASSUME NEW v \in VM, NEW i \in Nat \ {0}
  PROVE  /\ Progress(3, AfterStrings(v), Cardinality(Used(v.strings)), i, StringsBy(v, i), StringsBy(v, i - 1))
         /\ Progress(AfterStrings(v), AfterNatives(v), Len(v.natives), i, NativesBy(v, i), NativesBy(v, i - 1))
         /\ Progress(AfterNatives(v), AfterFunctions(v), Len(v.functions), i, FunctionsBy(v, i), FunctionsBy(v, i - 1))
         /\ Progress(AfterFunctions(v), AfterObjects(v), Cardinality(Used(v.objects)), i, ObjectsBy(v, i), ObjectsBy(v, i - 1))
         /\ Progress(AfterSubsystems(v), AfterContexts(v), Cardinality(Used(v.contexts)), i, ContextsBy(v, i), ContextsBy(v, i - 1))
         /\ Progress(AfterContexts(v), AfterActive(v), Len(v.active), i, ActiveBy(v, i), ActiveBy(v, i - 1))
<1>1. /\ Cardinality(Used(v.strings)) \in Nat /\ Cardinality(Used(v.objects)) \in Nat
      /\ Cardinality(Used(v.contexts)) \in Nat /\ Len(v.natives) \in Nat
      /\ Len(v.functions) \in Nat /\ Len(v.active) \in Nat
  BY CountsAre
<1>2. /\ 3 \in Nat
      /\ AfterStrings(v) \in Nat
      /\ AfterNatives(v) \in Nat
      /\ AfterFunctions(v) \in Nat
      /\ AfterObjects(v) \in Nat
      /\ AfterTypes(v) \in Nat
      /\ AfterSubsystems(v) \in Nat
      /\ AfterContexts(v) \in Nat
      /\ AfterActive(v) \in Nat
  BY Bounds
<1>3. Progress(3, AfterStrings(v), Cardinality(Used(v.strings)), i, StringsBy(v, i), StringsBy(v, i - 1))
  BY <1>1, <1>2, DoneIs DEF StringsBy, AfterStrings
<1>4. Progress(AfterStrings(v), AfterNatives(v), Len(v.natives), i, NativesBy(v, i), NativesBy(v, i - 1))
  BY <1>1, <1>2, DoneIs DEF NativesBy, AfterNatives
<1>5. Progress(AfterNatives(v), AfterFunctions(v), Len(v.functions), i, FunctionsBy(v, i), FunctionsBy(v, i - 1))
  BY <1>1, <1>2, DoneIs DEF FunctionsBy, AfterFunctions
<1>6. Progress(AfterFunctions(v), AfterObjects(v), Cardinality(Used(v.objects)), i, ObjectsBy(v, i), ObjectsBy(v, i - 1))
  BY <1>1, <1>2, DoneIs DEF ObjectsBy, AfterObjects
<1>7. Progress(AfterSubsystems(v), AfterContexts(v), Cardinality(Used(v.contexts)), i, ContextsBy(v, i), ContextsBy(v, i - 1))
  BY <1>1, <1>2, DoneIs DEF ContextsBy, AfterContexts
<1>8. Progress(AfterContexts(v), AfterActive(v), Len(v.active), i, ActiveBy(v, i), ActiveBy(v, i - 1))
  BY <1>1, <1>2, DoneIs DEF ActiveBy, AfterActive
<1> QED BY <1>3, <1>4, <1>5, <1>6, <1>7, <1>8

LEMMA StringAt ==
  ASSUME NEW v \in VM, NEW i \in 1 .. AfterActive(v) + 1,
         Written(v)[i][1] = "string"
  PROVE  \E k \in 1 .. Cardinality(Used(v.strings)) :
         /\ Written(v)[i] = <<"string", Nth(Used(v.strings), k), v.strings[Nth(Used(v.strings), k)]>>
         /\ StringsBy(v, i) = k /\ StringsBy(v, i - 1) = k - 1 /\ 1 < i
         /\ NativesBy(v, i) = 0 /\ NativesBy(v, i - 1) = 0
         /\ FunctionsBy(v, i) = 0 /\ FunctionsBy(v, i - 1) = 0
         /\ ObjectsBy(v, i) = 0 /\ ObjectsBy(v, i - 1) = 0
         /\ ContextsBy(v, i) = 0 /\ ContextsBy(v, i - 1) = 0
         /\ ActiveBy(v, i) = 0 /\ ActiveBy(v, i - 1) = 0
<1>1. PICK k \in 1 .. Cardinality(Used(v.strings)) : /\ i = 3 + k
                /\ Written(v)[i] = <<"string", Nth(Used(v.strings), k), v.strings[Nth(Used(v.strings), k)]>>
  <2>1. ItemCases(v, i, Written(v)[i])
    BY ItemIs
  <2> QED BY <2>1 DEF ItemCases
<1>2. i \in Nat \ {0} /\ Cardinality(Used(v.strings)) \in Nat /\ 3 \in Nat /\ 3 \in Nat
  BY CountsAre, Bounds
<1>3. 3 < i /\ i <= AfterStrings(v)
  BY <1>1, <1>2 DEF AfterStrings
<1>4. /\ 3 < i
      /\ i <= AfterStrings(v)
      /\ i <= AfterNatives(v)
      /\ i <= AfterFunctions(v)
      /\ i <= AfterObjects(v)
      /\ i <= AfterTypes(v)
      /\ i <= AfterSubsystems(v)
      /\ i <= AfterContexts(v)
      /\ i <= AfterActive(v)
  BY <1>2, <1>3, Bounds
<1>5. StringsBy(v, i) = k /\ StringsBy(v, i - 1) = k - 1
  <2>1. Progress(3, AfterStrings(v), Cardinality(Used(v.strings)), i, StringsBy(v, i), StringsBy(v, i - 1))
    BY <1>2, ByIs
  <2> QED BY <1>1, <2>1 DEF Progress
<1>6. /\ NativesBy(v, i) = 0 /\ NativesBy(v, i - 1) = 0
      /\ FunctionsBy(v, i) = 0 /\ FunctionsBy(v, i - 1) = 0
      /\ ObjectsBy(v, i) = 0 /\ ObjectsBy(v, i - 1) = 0
      /\ ContextsBy(v, i) = 0 /\ ContextsBy(v, i - 1) = 0
      /\ ActiveBy(v, i) = 0 /\ ActiveBy(v, i - 1) = 0
  BY <1>2, <1>4, ByIs DEF Progress
<1>7. 1 < i
  BY <1>2, <1>4
<1> QED BY <1>1, <1>5, <1>6, <1>7

LEMMA NativeAt ==
  ASSUME NEW v \in VM, NEW i \in 1 .. AfterActive(v) + 1,
         Written(v)[i][1] = "native"
  PROVE  \E k \in 1 .. Len(v.natives) :
         /\ Written(v)[i] = <<"native", k, v.natives[k]>>
         /\ NativesBy(v, i) = k /\ NativesBy(v, i - 1) = k - 1 /\ 1 < i
         /\ StringsBy(v, i) = Cardinality(Used(v.strings)) /\ StringsBy(v, i - 1) = Cardinality(Used(v.strings))
         /\ FunctionsBy(v, i) = 0 /\ FunctionsBy(v, i - 1) = 0
         /\ ObjectsBy(v, i) = 0 /\ ObjectsBy(v, i - 1) = 0
         /\ ContextsBy(v, i) = 0 /\ ContextsBy(v, i - 1) = 0
         /\ ActiveBy(v, i) = 0 /\ ActiveBy(v, i - 1) = 0
<1>1. PICK k \in 1 .. Len(v.natives) : /\ i = AfterStrings(v) + k
                /\ Written(v)[i] = <<"native", k, v.natives[k]>>
  <2>1. ItemCases(v, i, Written(v)[i])
    BY ItemIs
  <2> QED BY <2>1 DEF ItemCases
<1>2. i \in Nat \ {0} /\ Len(v.natives) \in Nat /\ AfterStrings(v) \in Nat /\ 3 \in Nat
  BY CountsAre, Bounds
<1>3. AfterStrings(v) < i /\ i <= AfterNatives(v)
  BY <1>1, <1>2 DEF AfterNatives
<1>4. /\ 3 < i
      /\ AfterStrings(v) < i
      /\ i <= AfterNatives(v)
      /\ i <= AfterFunctions(v)
      /\ i <= AfterObjects(v)
      /\ i <= AfterTypes(v)
      /\ i <= AfterSubsystems(v)
      /\ i <= AfterContexts(v)
      /\ i <= AfterActive(v)
  BY <1>2, <1>3, Bounds
<1>5. NativesBy(v, i) = k /\ NativesBy(v, i - 1) = k - 1
  <2>1. Progress(AfterStrings(v), AfterNatives(v), Len(v.natives), i, NativesBy(v, i), NativesBy(v, i - 1))
    BY <1>2, ByIs
  <2> QED BY <1>1, <2>1 DEF Progress
<1>6. /\ StringsBy(v, i) = Cardinality(Used(v.strings)) /\ StringsBy(v, i - 1) = Cardinality(Used(v.strings))
      /\ FunctionsBy(v, i) = 0 /\ FunctionsBy(v, i - 1) = 0
      /\ ObjectsBy(v, i) = 0 /\ ObjectsBy(v, i - 1) = 0
      /\ ContextsBy(v, i) = 0 /\ ContextsBy(v, i - 1) = 0
      /\ ActiveBy(v, i) = 0 /\ ActiveBy(v, i - 1) = 0
  BY <1>2, <1>4, ByIs DEF Progress
<1>7. 1 < i
  BY <1>2, <1>4
<1> QED BY <1>1, <1>5, <1>6, <1>7

LEMMA FunctionAt ==
  ASSUME NEW v \in VM, NEW i \in 1 .. AfterActive(v) + 1,
         Written(v)[i][1] = "function"
  PROVE  \E k \in 1 .. Len(v.functions) :
         /\ Written(v)[i] = <<"function", k, v.functions[k]>>
         /\ FunctionsBy(v, i) = k /\ FunctionsBy(v, i - 1) = k - 1 /\ 1 < i
         /\ StringsBy(v, i) = Cardinality(Used(v.strings)) /\ StringsBy(v, i - 1) = Cardinality(Used(v.strings))
         /\ NativesBy(v, i) = Len(v.natives) /\ NativesBy(v, i - 1) = Len(v.natives)
         /\ ObjectsBy(v, i) = 0 /\ ObjectsBy(v, i - 1) = 0
         /\ ContextsBy(v, i) = 0 /\ ContextsBy(v, i - 1) = 0
         /\ ActiveBy(v, i) = 0 /\ ActiveBy(v, i - 1) = 0
<1>1. PICK k \in 1 .. Len(v.functions) : /\ i = AfterNatives(v) + k
                /\ Written(v)[i] = <<"function", k, v.functions[k]>>
  <2>1. ItemCases(v, i, Written(v)[i])
    BY ItemIs
  <2> QED BY <2>1 DEF ItemCases
<1>2. i \in Nat \ {0} /\ Len(v.functions) \in Nat /\ AfterNatives(v) \in Nat /\ 3 \in Nat
  BY CountsAre, Bounds
<1>3. AfterNatives(v) < i /\ i <= AfterFunctions(v)
  BY <1>1, <1>2 DEF AfterFunctions
<1>4. /\ 3 < i
      /\ AfterStrings(v) < i
      /\ AfterNatives(v) < i
      /\ i <= AfterFunctions(v)
      /\ i <= AfterObjects(v)
      /\ i <= AfterTypes(v)
      /\ i <= AfterSubsystems(v)
      /\ i <= AfterContexts(v)
      /\ i <= AfterActive(v)
  BY <1>2, <1>3, Bounds
<1>5. FunctionsBy(v, i) = k /\ FunctionsBy(v, i - 1) = k - 1
  <2>1. Progress(AfterNatives(v), AfterFunctions(v), Len(v.functions), i, FunctionsBy(v, i), FunctionsBy(v, i - 1))
    BY <1>2, ByIs
  <2> QED BY <1>1, <2>1 DEF Progress
<1>6. /\ StringsBy(v, i) = Cardinality(Used(v.strings)) /\ StringsBy(v, i - 1) = Cardinality(Used(v.strings))
      /\ NativesBy(v, i) = Len(v.natives) /\ NativesBy(v, i - 1) = Len(v.natives)
      /\ ObjectsBy(v, i) = 0 /\ ObjectsBy(v, i - 1) = 0
      /\ ContextsBy(v, i) = 0 /\ ContextsBy(v, i - 1) = 0
      /\ ActiveBy(v, i) = 0 /\ ActiveBy(v, i - 1) = 0
  BY <1>2, <1>4, ByIs DEF Progress
<1>7. 1 < i
  BY <1>2, <1>4
<1> QED BY <1>1, <1>5, <1>6, <1>7

LEMMA ObjectAt ==
  ASSUME NEW v \in VM, NEW i \in 1 .. AfterActive(v) + 1,
         Written(v)[i][1] = "object"
  PROVE  \E k \in 1 .. Cardinality(Used(v.objects)) :
         /\ Written(v)[i] = <<"object", Nth(Used(v.objects), k), Listed(v.objects[Nth(Used(v.objects), k)])>>
         /\ ObjectsBy(v, i) = k /\ ObjectsBy(v, i - 1) = k - 1 /\ 1 < i
         /\ StringsBy(v, i) = Cardinality(Used(v.strings)) /\ StringsBy(v, i - 1) = Cardinality(Used(v.strings))
         /\ NativesBy(v, i) = Len(v.natives) /\ NativesBy(v, i - 1) = Len(v.natives)
         /\ FunctionsBy(v, i) = Len(v.functions) /\ FunctionsBy(v, i - 1) = Len(v.functions)
         /\ ContextsBy(v, i) = 0 /\ ContextsBy(v, i - 1) = 0
         /\ ActiveBy(v, i) = 0 /\ ActiveBy(v, i - 1) = 0
<1>1. PICK k \in 1 .. Cardinality(Used(v.objects)) : /\ i = AfterFunctions(v) + k
                /\ Written(v)[i] = <<"object", Nth(Used(v.objects), k), Listed(v.objects[Nth(Used(v.objects), k)])>>
  <2>1. ItemCases(v, i, Written(v)[i])
    BY ItemIs
  <2> QED BY <2>1 DEF ItemCases
<1>2. i \in Nat \ {0} /\ Cardinality(Used(v.objects)) \in Nat /\ AfterFunctions(v) \in Nat /\ 3 \in Nat
  BY CountsAre, Bounds
<1>3. AfterFunctions(v) < i /\ i <= AfterObjects(v)
  BY <1>1, <1>2 DEF AfterObjects
<1>4. /\ 3 < i
      /\ AfterStrings(v) < i
      /\ AfterNatives(v) < i
      /\ AfterFunctions(v) < i
      /\ i <= AfterObjects(v)
      /\ i <= AfterTypes(v)
      /\ i <= AfterSubsystems(v)
      /\ i <= AfterContexts(v)
      /\ i <= AfterActive(v)
  BY <1>2, <1>3, Bounds
<1>5. ObjectsBy(v, i) = k /\ ObjectsBy(v, i - 1) = k - 1
  <2>1. Progress(AfterFunctions(v), AfterObjects(v), Cardinality(Used(v.objects)), i, ObjectsBy(v, i), ObjectsBy(v, i - 1))
    BY <1>2, ByIs
  <2> QED BY <1>1, <2>1 DEF Progress
<1>6. /\ StringsBy(v, i) = Cardinality(Used(v.strings)) /\ StringsBy(v, i - 1) = Cardinality(Used(v.strings))
      /\ NativesBy(v, i) = Len(v.natives) /\ NativesBy(v, i - 1) = Len(v.natives)
      /\ FunctionsBy(v, i) = Len(v.functions) /\ FunctionsBy(v, i - 1) = Len(v.functions)
      /\ ContextsBy(v, i) = 0 /\ ContextsBy(v, i - 1) = 0
      /\ ActiveBy(v, i) = 0 /\ ActiveBy(v, i - 1) = 0
  BY <1>2, <1>4, ByIs DEF Progress
<1>7. 1 < i
  BY <1>2, <1>4
<1> QED BY <1>1, <1>5, <1>6, <1>7

LEMMA ContextAt ==
  ASSUME NEW v \in VM, NEW i \in 1 .. AfterActive(v) + 1,
         Written(v)[i][1] = "context"
  PROVE  \E k \in 1 .. Cardinality(Used(v.contexts)) :
         /\ Written(v)[i] = <<"context", Nth(Used(v.contexts), k), v.contexts[Nth(Used(v.contexts), k)]>>
         /\ ContextsBy(v, i) = k /\ ContextsBy(v, i - 1) = k - 1 /\ 1 < i
         /\ StringsBy(v, i) = Cardinality(Used(v.strings)) /\ StringsBy(v, i - 1) = Cardinality(Used(v.strings))
         /\ NativesBy(v, i) = Len(v.natives) /\ NativesBy(v, i - 1) = Len(v.natives)
         /\ FunctionsBy(v, i) = Len(v.functions) /\ FunctionsBy(v, i - 1) = Len(v.functions)
         /\ ObjectsBy(v, i) = Cardinality(Used(v.objects)) /\ ObjectsBy(v, i - 1) = Cardinality(Used(v.objects))
         /\ ActiveBy(v, i) = 0 /\ ActiveBy(v, i - 1) = 0
<1>1. PICK k \in 1 .. Cardinality(Used(v.contexts)) : /\ i = AfterSubsystems(v) + k
                /\ Written(v)[i] = <<"context", Nth(Used(v.contexts), k), v.contexts[Nth(Used(v.contexts), k)]>>
  <2>1. ItemCases(v, i, Written(v)[i])
    BY ItemIs
  <2> QED BY <2>1 DEF ItemCases
<1>2. i \in Nat \ {0} /\ Cardinality(Used(v.contexts)) \in Nat /\ AfterSubsystems(v) \in Nat /\ 3 \in Nat
  BY CountsAre, Bounds
<1>3. AfterSubsystems(v) < i /\ i <= AfterContexts(v)
  BY <1>1, <1>2 DEF AfterContexts
<1>4. /\ 3 < i
      /\ AfterStrings(v) < i
      /\ AfterNatives(v) < i
      /\ AfterFunctions(v) < i
      /\ AfterObjects(v) < i
      /\ AfterTypes(v) < i
      /\ AfterSubsystems(v) < i
      /\ i <= AfterContexts(v)
      /\ i <= AfterActive(v)
  BY <1>2, <1>3, Bounds
<1>5. ContextsBy(v, i) = k /\ ContextsBy(v, i - 1) = k - 1
  <2>1. Progress(AfterSubsystems(v), AfterContexts(v), Cardinality(Used(v.contexts)), i, ContextsBy(v, i), ContextsBy(v, i - 1))
    BY <1>2, ByIs
  <2> QED BY <1>1, <2>1 DEF Progress
<1>6. /\ StringsBy(v, i) = Cardinality(Used(v.strings)) /\ StringsBy(v, i - 1) = Cardinality(Used(v.strings))
      /\ NativesBy(v, i) = Len(v.natives) /\ NativesBy(v, i - 1) = Len(v.natives)
      /\ FunctionsBy(v, i) = Len(v.functions) /\ FunctionsBy(v, i - 1) = Len(v.functions)
      /\ ObjectsBy(v, i) = Cardinality(Used(v.objects)) /\ ObjectsBy(v, i - 1) = Cardinality(Used(v.objects))
      /\ ActiveBy(v, i) = 0 /\ ActiveBy(v, i - 1) = 0
  BY <1>2, <1>4, ByIs DEF Progress
<1>7. 1 < i
  BY <1>2, <1>4
<1> QED BY <1>1, <1>5, <1>6, <1>7

LEMMA ActiveAt ==
  ASSUME NEW v \in VM, NEW i \in 1 .. AfterActive(v) + 1,
         Written(v)[i][1] = "active", Written(v)[i][3] = "coroutine"
  PROVE  \E k \in 1 .. Len(v.active) :
         /\ Written(v)[i] = <<"active", v.active[k], "coroutine">>
         /\ ActiveBy(v, i) = k /\ ActiveBy(v, i - 1) = k - 1 /\ 1 < i
         /\ StringsBy(v, i) = Cardinality(Used(v.strings)) /\ StringsBy(v, i - 1) = Cardinality(Used(v.strings))
         /\ NativesBy(v, i) = Len(v.natives) /\ NativesBy(v, i - 1) = Len(v.natives)
         /\ FunctionsBy(v, i) = Len(v.functions) /\ FunctionsBy(v, i - 1) = Len(v.functions)
         /\ ObjectsBy(v, i) = Cardinality(Used(v.objects)) /\ ObjectsBy(v, i - 1) = Cardinality(Used(v.objects))
         /\ ContextsBy(v, i) = Cardinality(Used(v.contexts)) /\ ContextsBy(v, i - 1) = Cardinality(Used(v.contexts))
<1>1. PICK k \in 1 .. Len(v.active) : /\ i = AfterContexts(v) + k
                /\ Written(v)[i] = <<"active", v.active[k], "coroutine">>
  <2>1. ItemCases(v, i, Written(v)[i])
    BY ItemIs
  <2> QED BY <2>1 DEF ItemCases
<1>2. i \in Nat \ {0} /\ Len(v.active) \in Nat /\ AfterContexts(v) \in Nat /\ 3 \in Nat
  BY CountsAre, Bounds
<1>3. AfterContexts(v) < i /\ i <= AfterActive(v)
  BY <1>1, <1>2 DEF AfterActive
<1>4. /\ 3 < i
      /\ AfterStrings(v) < i
      /\ AfterNatives(v) < i
      /\ AfterFunctions(v) < i
      /\ AfterObjects(v) < i
      /\ AfterTypes(v) < i
      /\ AfterSubsystems(v) < i
      /\ AfterContexts(v) < i
      /\ i <= AfterActive(v)
  BY <1>2, <1>3, Bounds
<1>5. ActiveBy(v, i) = k /\ ActiveBy(v, i - 1) = k - 1
  <2>1. Progress(AfterContexts(v), AfterActive(v), Len(v.active), i, ActiveBy(v, i), ActiveBy(v, i - 1))
    BY <1>2, ByIs
  <2> QED BY <1>1, <2>1 DEF Progress
<1>6. /\ StringsBy(v, i) = Cardinality(Used(v.strings)) /\ StringsBy(v, i - 1) = Cardinality(Used(v.strings))
      /\ NativesBy(v, i) = Len(v.natives) /\ NativesBy(v, i - 1) = Len(v.natives)
      /\ FunctionsBy(v, i) = Len(v.functions) /\ FunctionsBy(v, i - 1) = Len(v.functions)
      /\ ObjectsBy(v, i) = Cardinality(Used(v.objects)) /\ ObjectsBy(v, i - 1) = Cardinality(Used(v.objects))
      /\ ContextsBy(v, i) = Cardinality(Used(v.contexts)) /\ ContextsBy(v, i - 1) = Cardinality(Used(v.contexts))
  BY <1>2, <1>4, ByIs DEF Progress
<1>7. 1 < i
  BY <1>2, <1>4
<1> QED BY <1>1, <1>5, <1>6, <1>7

LEMMA Steady ==
  ASSUME NEW v \in VM, NEW i \in Nat \ {0}
  PROVE  /\ (i <= 3 \/ AfterStrings(v) < i) => StringsBy(v, i) = StringsBy(v, i - 1)
         /\ (i <= AfterStrings(v) \/ AfterNatives(v) < i) => NativesBy(v, i) = NativesBy(v, i - 1)
         /\ (i <= AfterNatives(v) \/ AfterFunctions(v) < i) => FunctionsBy(v, i) = FunctionsBy(v, i - 1)
         /\ (i <= AfterFunctions(v) \/ AfterObjects(v) < i) => ObjectsBy(v, i) = ObjectsBy(v, i - 1)
         /\ (i <= AfterSubsystems(v) \/ AfterContexts(v) < i) => ContextsBy(v, i) = ContextsBy(v, i - 1)
         /\ (i <= AfterContexts(v) \/ AfterActive(v) < i) => ActiveBy(v, i) = ActiveBy(v, i - 1)
<1>1. (i <= 3 \/ AfterStrings(v) < i) => StringsBy(v, i) = StringsBy(v, i - 1)
  <2>1. Progress(3, AfterStrings(v), Cardinality(Used(v.strings)), i, StringsBy(v, i), StringsBy(v, i - 1))
    BY ByIs
  <2> QED BY <2>1 DEF Progress
<1>2. (i <= AfterStrings(v) \/ AfterNatives(v) < i) => NativesBy(v, i) = NativesBy(v, i - 1)
  <2>1. Progress(AfterStrings(v), AfterNatives(v), Len(v.natives), i, NativesBy(v, i), NativesBy(v, i - 1))
    BY ByIs
  <2> QED BY <2>1 DEF Progress
<1>3. (i <= AfterNatives(v) \/ AfterFunctions(v) < i) => FunctionsBy(v, i) = FunctionsBy(v, i - 1)
  <2>1. Progress(AfterNatives(v), AfterFunctions(v), Len(v.functions), i, FunctionsBy(v, i), FunctionsBy(v, i - 1))
    BY ByIs
  <2> QED BY <2>1 DEF Progress
<1>4. (i <= AfterFunctions(v) \/ AfterObjects(v) < i) => ObjectsBy(v, i) = ObjectsBy(v, i - 1)
  <2>1. Progress(AfterFunctions(v), AfterObjects(v), Cardinality(Used(v.objects)), i, ObjectsBy(v, i), ObjectsBy(v, i - 1))
    BY ByIs
  <2> QED BY <2>1 DEF Progress
<1>5. (i <= AfterSubsystems(v) \/ AfterContexts(v) < i) => ContextsBy(v, i) = ContextsBy(v, i - 1)
  <2>1. Progress(AfterSubsystems(v), AfterContexts(v), Cardinality(Used(v.contexts)), i, ContextsBy(v, i), ContextsBy(v, i - 1))
    BY ByIs
  <2> QED BY <2>1 DEF Progress
<1>6. (i <= AfterContexts(v) \/ AfterActive(v) < i) => ActiveBy(v, i) = ActiveBy(v, i - 1)
  <2>1. Progress(AfterContexts(v), AfterActive(v), Len(v.active), i, ActiveBy(v, i), ActiveBy(v, i - 1))
    BY ByIs
  <2> QED BY <2>1 DEF Progress
<1> QED BY <1>1, <1>2, <1>3, <1>4, <1>5, <1>6

Rest == {"errors", "statics", "root", "globals", "types", "subsystem"}

LEMMA RestAt ==
  ASSUME NEW v \in VM, NEW i \in 1 .. AfterActive(v) + 1, Written(v)[i][1] \in Rest
  PROVE  /\ ItemCases(v, i, Written(v)[i])
         /\ Written(v)[i][1] = "errors" <=> i = 1
         /\ StringsBy(v, i) = StringsBy(v, i - 1)
         /\ NativesBy(v, i) = NativesBy(v, i - 1)
         /\ FunctionsBy(v, i) = FunctionsBy(v, i - 1)
         /\ ObjectsBy(v, i) = ObjectsBy(v, i - 1)
         /\ ContextsBy(v, i) = ContextsBy(v, i - 1)
         /\ ActiveBy(v, i) = ActiveBy(v, i - 1)
<1>1. ItemCases(v, i, Written(v)[i])
  BY ItemIs
<1>2. \/ i = 1 /\ Written(v)[i][1] = "errors"
      \/ i = 2 /\ Written(v)[i][1] = "statics"
      \/ i = 3 /\ Written(v)[i][1] = "root"
      \/ i = AfterObjects(v) + 1 /\ Written(v)[i][1] = "globals"
      \/ i = AfterObjects(v) + 2 /\ Written(v)[i][1] = "types"
      \/ /\ \E k \in 1 .. Len(v.subsystems) : i = AfterTypes(v) + k
         /\ Written(v)[i][1] = "subsystem"
  BY <1>1 DEF ItemCases, Rest
<1>3. /\ i \in Nat \ {0} /\ Len(v.subsystems) \in Nat
      /\ AfterTypes(v) = AfterObjects(v) + 2 /\ 3 <= AfterObjects(v)
      /\ AfterTypes(v) \in Nat /\ AfterObjects(v) \in Nat
      /\ AfterSubsystems(v) = AfterTypes(v) + Len(v.subsystems)
  <2>1. i \in Nat \ {0} /\ Len(v.subsystems) \in Nat /\ 3 \in Nat /\ 3 <= 3
    BY CountsAre, Bounds
  <2>2. 3 <= AfterObjects(v)
    BY <2>1, Bounds
  <2> QED BY <2>1, <2>2, Bounds DEF AfterTypes, AfterSubsystems
<1>i. i \in Nat \ {0}
  BY <1>3
<1>4. \/ i <= 3 /\ i = 1 /\ Written(v)[i][1] = "errors"
      \/ i <= 3 /\ i # 1 /\ Written(v)[i][1] # "errors"
      \/ AfterObjects(v) < i /\ i <= AfterTypes(v) /\ i # 1 /\ Written(v)[i][1] # "errors"
      \/ AfterTypes(v) < i /\ i <= AfterSubsystems(v) /\ i # 1 /\ Written(v)[i][1] # "errors"
  <2>1. CASE \/ i = 1 /\ Written(v)[i][1] = "errors"
             \/ i = 2 /\ Written(v)[i][1] = "statics"
             \/ i = 3 /\ Written(v)[i][1] = "root"
    BY <2>1
  <2>2. CASE /\ i = AfterObjects(v) + 1 \/ i = AfterObjects(v) + 2
             /\ Written(v)[i][1] \in {"globals", "types"}
    <3>1. Written(v)[i][1] # "errors"
      BY <2>2
    <3>2. AfterObjects(v) < i /\ i <= AfterTypes(v) /\ i # 1
      BY <1>3, <2>2
    <3> QED BY <3>1, <3>2
  <2>3. CASE /\ \E k \in 1 .. Len(v.subsystems) : i = AfterTypes(v) + k
             /\ Written(v)[i][1] = "subsystem"
    <3>1. PICK k \in 1 .. Len(v.subsystems) : i = AfterTypes(v) + k
      BY <2>3
    <3>2. AfterTypes(v) < i /\ i <= AfterSubsystems(v) /\ i # 1
      BY <1>3, <3>1
    <3> QED BY <2>3, <3>2
  <2> QED BY <1>2, <2>1, <2>2, <2>3
<1>5. ASSUME i <= 3
      PROVE  /\ StringsBy(v, i) = StringsBy(v, i - 1)
             /\ NativesBy(v, i) = NativesBy(v, i - 1)
             /\ FunctionsBy(v, i) = FunctionsBy(v, i - 1)
             /\ ObjectsBy(v, i) = ObjectsBy(v, i - 1)
             /\ ContextsBy(v, i) = ContextsBy(v, i - 1)
             /\ ActiveBy(v, i) = ActiveBy(v, i - 1)
  <2>1. /\ i <= 3
        /\ i <= AfterStrings(v)
        /\ i <= AfterNatives(v)
        /\ i <= AfterFunctions(v)
        /\ i <= AfterObjects(v)
        /\ i <= AfterTypes(v)
        /\ i <= AfterSubsystems(v)
        /\ i <= AfterContexts(v)
        /\ i <= AfterActive(v)
    BY <1>i, <1>5, Bounds
  <2> QED BY <1>i, <2>1, Steady
<1>6. ASSUME AfterObjects(v) < i /\ i <= AfterTypes(v)
      PROVE  /\ StringsBy(v, i) = StringsBy(v, i - 1)
             /\ NativesBy(v, i) = NativesBy(v, i - 1)
             /\ FunctionsBy(v, i) = FunctionsBy(v, i - 1)
             /\ ObjectsBy(v, i) = ObjectsBy(v, i - 1)
             /\ ContextsBy(v, i) = ContextsBy(v, i - 1)
             /\ ActiveBy(v, i) = ActiveBy(v, i - 1)
  <2>1. /\ 3 < i
        /\ AfterStrings(v) < i
        /\ AfterNatives(v) < i
        /\ AfterFunctions(v) < i
        /\ AfterObjects(v) < i
        /\ i <= AfterTypes(v)
        /\ i <= AfterSubsystems(v)
        /\ i <= AfterContexts(v)
        /\ i <= AfterActive(v)
    BY <1>i, <1>6, Bounds
  <2> QED BY <1>i, <2>1, Steady
<1>7. ASSUME AfterTypes(v) < i /\ i <= AfterSubsystems(v)
      PROVE  /\ StringsBy(v, i) = StringsBy(v, i - 1)
             /\ NativesBy(v, i) = NativesBy(v, i - 1)
             /\ FunctionsBy(v, i) = FunctionsBy(v, i - 1)
             /\ ObjectsBy(v, i) = ObjectsBy(v, i - 1)
             /\ ContextsBy(v, i) = ContextsBy(v, i - 1)
             /\ ActiveBy(v, i) = ActiveBy(v, i - 1)
  <2>1. /\ 3 < i
        /\ AfterStrings(v) < i
        /\ AfterNatives(v) < i
        /\ AfterFunctions(v) < i
        /\ AfterObjects(v) < i
        /\ AfterTypes(v) < i
        /\ i <= AfterSubsystems(v)
        /\ i <= AfterContexts(v)
        /\ i <= AfterActive(v)
    BY <1>i, <1>7, Bounds
  <2> QED BY <1>i, <2>1, Steady
<1> QED BY <1>1, <1>4, <1>5, <1>6, <1>7

-----------------------------------------------------------------------------
(* A VM with one field changed.                                              *)

LEMMA SetErrors ==
  ASSUME NEW v \in VM, NEW x \in Nat
  PROVE  LET n == [v EXCEPT !.errors = x] IN
         /\ n \in VM /\ n.errors = x
         /\ n.statics = v.statics /\ n.root = v.root /\ n.strings = v.strings
         /\ n.natives = v.natives /\ n.functions = v.functions /\ n.objects = v.objects
         /\ n.globals = v.globals /\ n.types = v.types /\ n.subsystems = v.subsystems
         /\ n.contexts = v.contexts /\ n.active = v.active
BY DEF VM

LEMMA SetStatics ==
  ASSUME NEW v \in VM, NEW x \in Seq(Values)
  PROVE  LET n == [v EXCEPT !.statics = x] IN
         /\ n \in VM /\ n.statics = x
         /\ n.errors = v.errors /\ n.root = v.root /\ n.strings = v.strings
         /\ n.natives = v.natives /\ n.functions = v.functions /\ n.objects = v.objects
         /\ n.globals = v.globals /\ n.types = v.types /\ n.subsystems = v.subsystems
         /\ n.contexts = v.contexts /\ n.active = v.active
BY DEF VM

LEMMA SetRoot ==
  ASSUME NEW v \in VM, NEW x \in Seq(Values)
  PROVE  LET n == [v EXCEPT !.root = x] IN
         /\ n \in VM /\ n.root = x
         /\ n.errors = v.errors /\ n.statics = v.statics /\ n.strings = v.strings
         /\ n.natives = v.natives /\ n.functions = v.functions /\ n.objects = v.objects
         /\ n.globals = v.globals /\ n.types = v.types /\ n.subsystems = v.subsystems
         /\ n.contexts = v.contexts /\ n.active = v.active
BY DEF VM

LEMMA SetStrings ==
  ASSUME NEW v \in VM, NEW x \in [Slots -> Contents \cup {None}]
  PROVE  LET n == [v EXCEPT !.strings = x] IN
         /\ n \in VM /\ n.strings = x
         /\ n.errors = v.errors /\ n.statics = v.statics /\ n.root = v.root
         /\ n.natives = v.natives /\ n.functions = v.functions /\ n.objects = v.objects
         /\ n.globals = v.globals /\ n.types = v.types /\ n.subsystems = v.subsystems
         /\ n.contexts = v.contexts /\ n.active = v.active
BY DEF VM

LEMMA SetNatives ==
  ASSUME NEW v \in VM, NEW x \in Seq(Native)
  PROVE  LET n == [v EXCEPT !.natives = x] IN
         /\ n \in VM /\ n.natives = x
         /\ n.errors = v.errors /\ n.statics = v.statics /\ n.root = v.root
         /\ n.strings = v.strings /\ n.functions = v.functions /\ n.objects = v.objects
         /\ n.globals = v.globals /\ n.types = v.types /\ n.subsystems = v.subsystems
         /\ n.contexts = v.contexts /\ n.active = v.active
BY DEF VM

LEMMA SetFunctions ==
  ASSUME NEW v \in VM, NEW x \in Seq(Nat \cup {None})
  PROVE  LET n == [v EXCEPT !.functions = x] IN
         /\ n \in VM /\ n.functions = x
         /\ n.errors = v.errors /\ n.statics = v.statics /\ n.root = v.root
         /\ n.strings = v.strings /\ n.natives = v.natives /\ n.objects = v.objects
         /\ n.globals = v.globals /\ n.types = v.types /\ n.subsystems = v.subsystems
         /\ n.contexts = v.contexts /\ n.active = v.active
BY DEF VM

LEMMA SetObjects ==
  ASSUME NEW v \in VM, NEW x \in [Slots -> Object \cup {None}]
  PROVE  LET n == [v EXCEPT !.objects = x] IN
         /\ n \in VM /\ n.objects = x
         /\ n.errors = v.errors /\ n.statics = v.statics /\ n.root = v.root
         /\ n.strings = v.strings /\ n.natives = v.natives /\ n.functions = v.functions
         /\ n.globals = v.globals /\ n.types = v.types /\ n.subsystems = v.subsystems
         /\ n.contexts = v.contexts /\ n.active = v.active
BY DEF VM

LEMMA SetGlobals ==
  ASSUME NEW v \in VM, NEW x \in Seq(Names)
  PROVE  LET n == [v EXCEPT !.globals = x] IN
         /\ n \in VM /\ n.globals = x
         /\ n.errors = v.errors /\ n.statics = v.statics /\ n.root = v.root
         /\ n.strings = v.strings /\ n.natives = v.natives /\ n.functions = v.functions
         /\ n.objects = v.objects /\ n.types = v.types /\ n.subsystems = v.subsystems
         /\ n.contexts = v.contexts /\ n.active = v.active
BY DEF VM

LEMMA SetSubsystems ==
  ASSUME NEW v \in VM, NEW x \in Seq([name : Names, data : Values])
  PROVE  LET n == [v EXCEPT !.subsystems = x] IN
         /\ n \in VM /\ n.subsystems = x
         /\ n.errors = v.errors /\ n.statics = v.statics /\ n.root = v.root
         /\ n.strings = v.strings /\ n.natives = v.natives /\ n.functions = v.functions
         /\ n.objects = v.objects /\ n.globals = v.globals /\ n.types = v.types
         /\ n.contexts = v.contexts /\ n.active = v.active
BY DEF VM

LEMMA SetContexts ==
  ASSUME NEW v \in VM, NEW x \in [Slots -> Context \cup {None}]
  PROVE  LET n == [v EXCEPT !.contexts = x] IN
         /\ n \in VM /\ n.contexts = x
         /\ n.errors = v.errors /\ n.statics = v.statics /\ n.root = v.root
         /\ n.strings = v.strings /\ n.natives = v.natives /\ n.functions = v.functions
         /\ n.objects = v.objects /\ n.globals = v.globals /\ n.types = v.types
         /\ n.subsystems = v.subsystems /\ n.active = v.active
BY DEF VM

LEMMA SetActive ==
  ASSUME NEW v \in VM, NEW x \in Seq(Slots)
  PROVE  LET n == [v EXCEPT !.active = x] IN
         /\ n \in VM /\ n.active = x
         /\ n.errors = v.errors /\ n.statics = v.statics /\ n.root = v.root
         /\ n.strings = v.strings /\ n.natives = v.natives /\ n.functions = v.functions
         /\ n.objects = v.objects /\ n.globals = v.globals /\ n.types = v.types
         /\ n.subsystems = v.subsystems /\ n.contexts = v.contexts
BY DEF VM

-----------------------------------------------------------------------------
(* The first element of a sequence that is looked for.                       *)

LEMMA LeastOf ==
  ASSUME NEW n \in Nat, NEW I \in SUBSET (1 .. n)
  PROVE  LET m == IF I # {} THEN Min(I) ELSE 0 IN
         /\ m \in 0 .. n /\ (m = 0 <=> I = {})
         /\ m # 0 => m \in I /\ \A x \in I : m <= x
<1>1. CASE I = {}
  BY <1>1
<1>2. CASE I # {}
  <2>1. I \in SUBSET Nat /\ \A x \in I : x \in 1 .. n
    OBVIOUS
  <2>2. \E m \in I : \A x \in I : m <= x
    BY <1>2, <2>1, SmallestNat
  <2>3. Min(I) \in I /\ \A x \in I : Min(I) <= x
    BY <2>2 DEF Min
  <2>4. Min(I) \in 0 .. n /\ Min(I) # 0
    <3>1. Min(I) \in 1 .. n
      BY <2>1, <2>3
    <3>2. \A k \in 1 .. n : k \in 0 .. n /\ k # 0
      OBVIOUS
    <3> QED BY <3>1, <3>2
  <2> QED BY <1>2, <2>3, <2>4
<1> QED BY <1>1, <1>2

LEMMA PositionIs ==
  ASSUME NEW chain \in Seq(Element), NEW key
  PROVE  /\ Position(chain, key) \in 0 .. Len(chain)
         /\ Position(chain, key) # 0 => chain[Position(chain, key)].key = key
         /\ Position(chain, key) = 0 <=>
              \A i \in 1 .. Len(chain) : chain[i].key # key
<1> DEFINE I == {i \in 1 .. Len(chain) : chain[i].key = key}
<1>1. Position(chain, key) = IF I # {} THEN Min(I) ELSE 0
  BY DEF Position, SelectInSeq
<1>2. Len(chain) \in Nat /\ I \in SUBSET (1 .. Len(chain))
  OBVIOUS
<1>3. /\ Position(chain, key) \in 0 .. Len(chain)
      /\ Position(chain, key) = 0 <=> I = {}
      /\ Position(chain, key) # 0 => Position(chain, key) \in I
  <2> HIDE DEF I
  <2> QED BY <1>1, <1>2, LeastOf
<1> QED BY <1>3

LEMMA NativeFound ==
  ASSUME NEW v \in VM, NEW name
  PROVE  LET found == SelectInSeq(v.natives, LAMBDA n : n.name = name) IN
         /\ found \in 0 .. Len(v.natives)
         /\ found # 0 => v.natives[found].name = name
         /\ found = 0 <=> \A i \in DOMAIN v.natives : v.natives[i].name # name
<1> DEFINE I == {i \in 1 .. Len(v.natives) : v.natives[i].name = name}
           found == SelectInSeq(v.natives, LAMBDA n : n.name = name)
<1>1. found = IF I # {} THEN Min(I) ELSE 0
  BY DEF SelectInSeq
<1>2. /\ Len(v.natives) \in Nat /\ I \in SUBSET (1 .. Len(v.natives))
      /\ DOMAIN v.natives = 1 .. Len(v.natives)
  BY DEF VM
<1>3. /\ found \in 0 .. Len(v.natives)
      /\ found = 0 <=> I = {}
      /\ found # 0 => found \in I
  <2> HIDE DEF I, found
  <2> QED BY <1>1, <1>2, LeastOf
<1> HIDE DEF found
<1>4. /\ found # 0 => v.natives[found].name = name
      /\ found = 0 <=> \A i \in DOMAIN v.natives : v.natives[i].name # name
  BY <1>2, <1>3
<1> QED BY <1>3, <1>4 DEF found

LEMMA SubsystemFound ==
  ASSUME NEW v \in VM, NEW name
  PROVE  LET found == SelectInSeq(v.subsystems, LAMBDA s : s.name = name) IN
         /\ found \in 0 .. Len(v.subsystems)
         /\ found = 0 <=> \A i \in DOMAIN v.subsystems : v.subsystems[i].name # name
<1> DEFINE I == {i \in 1 .. Len(v.subsystems) : v.subsystems[i].name = name}
           found == SelectInSeq(v.subsystems, LAMBDA s : s.name = name)
<1>1. found = IF I # {} THEN Min(I) ELSE 0
  BY DEF SelectInSeq
<1>2. /\ Len(v.subsystems) \in Nat /\ I \in SUBSET (1 .. Len(v.subsystems))
      /\ DOMAIN v.subsystems = 1 .. Len(v.subsystems)
  BY DEF VM
<1>3. found \in 0 .. Len(v.subsystems) /\ (found = 0 <=> I = {})
  <2> HIDE DEF I, found
  <2> QED BY <1>1, <1>2, LeastOf
<1> HIDE DEF found
<1>4. found = 0 <=> \A i \in DOMAIN v.subsystems : v.subsystems[i].name # name
  BY <1>2, <1>3
<1> QED BY <1>3, <1>4 DEF found

-----------------------------------------------------------------------------
(* An object that is built again from its elements.                          *)

LEMMA BucketIs ==
  ASSUME NEW v \in VM, NEW key \in Values
  PROVE  Bucket(v, key) \in Buckets
<1>1. Hash(v, key) \in Nat
  <2>1. HashOf \in [Atoms \cup Contents -> Nat] /\ Slots \subseteq Nat
    BY SaveAssumption, Constants
  <2>2. CASE key \in Atoms
    BY <2>1, <2>2 DEF Hash
  <2>3. CASE key \notin Atoms /\ key \in {"function"} \X (Nat \ {0})
    <3>1. key[1] = "function" /\ key[2] \in Nat
      BY <2>3
    <3> QED BY <2>3, <3>1 DEF Hash
  <2>4. CASE key \notin Atoms /\ key \in {"string", "object"} \X Slots
    <3>1. key[2] \in Slots /\ key[2] \in Nat
      BY <2>1, <2>4
    <3>2. v.strings[key[2]] \in Contents \cup {None}
      BY <3>1 DEF VM
    <3> QED BY <2>1, <2>4, <3>1, <3>2 DEF Hash
  <2> QED BY <2>2, <2>3, <2>4 DEF Values
<1>2. BucketCount \in Nat \ {0}
  BY Constants
<1>3. \A a \in Nat, b \in Nat \ {0} : a % b \in 0 .. b - 1
  OBVIOUS
<1> QED BY <1>1, <1>2, <1>3 DEF Bucket, Buckets

LEMMA AddedIs ==
  ASSUME NEW v \in VM, NEW buckets \in [Buckets -> Seq(Element)],
         NEW e \in Element
  PROVE  Added(v, buckets, e) \in [Buckets -> Seq(Element)]
<1> DEFINE b == Bucket(v, e.key)
           i == Position(buckets[b], e.key)
<1>1. e.key \in Values /\ e.value \in Values
  BY DEF Element
<1>2. b \in Buckets
  BY <1>1, BucketIs
<1>3. buckets[b] \in Seq(Element)
  BY <1>2
<1>4. i \in 0 .. Len(buckets[b])
  BY <1>3, PositionIs
<1>5. Added(v, buckets, e) = IF i = 0 THEN [buckets EXCEPT ![b] = Cons(e, @)]
                             ELSE [buckets EXCEPT ![b][i].value = e.value]
  BY DEF Added
<1> HIDE DEF b, i
<1>6. CASE i = 0
  <2>1. Cons(e, buckets[b]) \in Seq(Element)
    BY <1>3 DEF Cons
  <2> QED BY <1>2, <1>5, <1>6, <2>1
<1>7. CASE i # 0
  <2>1. i \in 1 .. Len(buckets[b])
    BY <1>3, <1>4, <1>7
  <2>2. buckets[b][i] \in Element
    BY <1>3, <2>1
  <2>3. [buckets[b][i] EXCEPT !.value = e.value] \in Element
    BY <1>1, <2>2 DEF Element
  <2>4. [buckets[b] EXCEPT ![i] = [buckets[b][i] EXCEPT !.value = e.value]]
          \in Seq(Element)
    <3> DEFINE x == [buckets[b][i] EXCEPT !.value = e.value]
    <3>1. x \in Element
      BY <2>3
    <3> HIDE DEF x
    <3>2. ASSUME NEW c \in Seq(Element)
          PROVE  [c EXCEPT ![i] = x] \in Seq(Element)
      <4>1. [c EXCEPT ![i] = x] = [j \in 1 .. Len(c) |-> IF j = i THEN x ELSE c[j]]
        OBVIOUS
      <4>2. /\ Len(c) \in Nat
            /\ \A j \in 1 .. Len(c) : (IF j = i THEN x ELSE c[j]) \in Element
        BY <3>1
      <4> DEFINE d == [j \in 1 .. Len(c) |-> IF j = i THEN x ELSE c[j]]
      <4>3. d \in [1 .. Len(c) -> Element]
        BY <4>2
      <4> HIDE DEF d
      <4>4. d \in Seq(Element)
        BY <4>2, <4>3, SeqDef
      <4> QED BY <4>1, <4>4 DEF d
    <3> QED BY <1>3, <3>2 DEF x
  <2>5. Added(v, buckets, e) =
          [buckets EXCEPT ![b] =
             [buckets[b] EXCEPT ![i] = [buckets[b][i] EXCEPT !.value = e.value]]]
    BY <1>5, <1>7
  <2> QED BY <1>2, <2>4, <2>5
<1> QED BY <1>6, <1>7

(* The fold that adds the elements, as the community modules define it.      *)
Folding(v, elements, base, S, g) ==
  g = [s \in SUBSET S |->
         IF s = {} THEN base
         ELSE LET x == Max(s) IN Added(v, g[s \ {x}], elements[x])]

Folded(v, elements, base, S, g) ==
  \A s \in SUBSET S :
    g[s] = IF s = {} THEN base
           ELSE Added(v, g[s \ {Max(s)}], elements[Max(s)])

Empty == [b \in Buckets |-> <<>>]

LEMMA RebuiltUnfolds ==
  ASSUME NEW v, NEW image, NEW S, S = DOMAIN image.elements
  PROVE  /\ Rebuilt(v, image).buckets =
              (CHOOSE g : Folding(v, image.elements, Empty, S, g))[S]
         /\ Rebuilt(v, image) = [buckets |-> Rebuilt(v, image).buckets,
                                 handles |-> image.handles, type |-> image.type]
BY DEF Rebuilt, FoldLeft, MapThenFoldSet, Folding, Empty

LEMMA FoldingHas ==
  ASSUME NEW v, NEW elements, NEW base, NEW S, NEW g,
         Folding(v, elements, base, S, g)
  PROVE  g = [s \in SUBSET S |-> g[s]] /\ Folded(v, elements, base, S, g)
<1> DEFINE h == [s \in SUBSET S |->
                   IF s = {} THEN base
                   ELSE LET x == Max(s) IN Added(v, g[s \ {x}], elements[x])]
<1>1. g = h
  BY DEF Folding
<1>2. /\ h = [s \in SUBSET S |-> h[s]]
      /\ \A s \in SUBSET S :
           h[s] = IF s = {} THEN base
                  ELSE Added(v, g[s \ {Max(s)}], elements[Max(s)])
  OBVIOUS
<1> HIDE DEF h
<1> QED BY <1>1, <1>2 DEF Folded

LEMMA MaxIs ==
  ASSUME NEW n \in Nat, NEW S \in SUBSET (1 .. n), n \in S
  PROVE  Max(S) = n
<1>1. \A y \in S : n >= y /\ y \in Nat
  OBVIOUS
<1>2. Max(S) \in S /\ \A y \in S : Max(S) >= y
  BY <1>1 DEF Max
<1>3. Max(S) \in Nat /\ Max(S) >= n /\ n >= Max(S)
  BY <1>1, <1>2
<1> QED BY <1>3

LEMMA FoldingExists ==
  ASSUME NEW v, NEW elements, NEW base, NEW n \in Nat
  PROVE  \E g : Folding(v, elements, base, 1 .. n, g)
<1> DEFINE wrong == {m \in Nat : ~ \E g : Folding(v, elements, base, 1 .. m, g)}
<1>1. SUFFICES wrong = {}
  OBVIOUS
<1>2. SUFFICES ASSUME wrong # {} PROVE FALSE
  OBVIOUS
<1>3. PICK m \in wrong : \A k \in wrong : m <= k
  BY <1>2, SmallestNat
<1>4. m # 0
  <2> DEFINE h == [s \in SUBSET (1 .. 0) |-> base]
  <2>1. \A s \in SUBSET (1 .. 0) : s = {}
    OBVIOUS
  <2>2. h = [s \in SUBSET (1 .. 0) |->
               IF s = {} THEN base
               ELSE LET x == Max(s) IN Added(v, h[s \ {x}], elements[x])]
    BY <2>1
  <2> HIDE DEF h
  <2>3. Folding(v, elements, base, 1 .. 0, h)
    BY <2>2 DEF Folding
  <2> QED BY <2>3
<1>5. m \in Nat \ {0} /\ m - 1 \in Nat /\ ~ (m <= m - 1)
  BY <1>4
<1>6. PICK g : Folding(v, elements, base, 1 .. m - 1, g)
  BY <1>3, <1>5
<1>7. \A s \in SUBSET (1 .. m - 1) :
        g[s] = IF s = {} THEN base
               ELSE Added(v, g[s \ {Max(s)}], elements[Max(s)])
  <2>1. Folded(v, elements, base, 1 .. m - 1, g)
    BY <1>6, FoldingHas
  <2> QED BY <2>1 DEF Folded
<1> DEFINE h == [s \in SUBSET (1 .. m) |->
                   IF m \in s THEN Added(v, g[s \ {m}], elements[m]) ELSE g[s]]
<1>8. \A s \in SUBSET (1 .. m) :
        /\ m \notin s => s \in SUBSET (1 .. m - 1)
        /\ \A x \in s : s \ {x} \in SUBSET (1 .. m)
        /\ s \ {m} \in SUBSET (1 .. m - 1)
  <2>1. \A x \in 1 .. m : x # m => x \in 1 .. m - 1
    BY <1>5
  <2> QED BY <2>1
<1>9. \A s \in SUBSET (1 .. m) :
        h[s] = IF m \in s THEN Added(v, g[s \ {m}], elements[m]) ELSE g[s]
  OBVIOUS
<1>10. h = [s \in SUBSET (1 .. m) |-> h[s]]
  OBVIOUS
<1> HIDE DEF h
<1>11. \A s \in SUBSET (1 .. m) : m \notin s => h[s] = g[s]
  BY <1>9
<1>12. ASSUME NEW s \in SUBSET (1 .. m)
       PROVE  h[s] = IF s = {} THEN base
                     ELSE Added(v, h[s \ {Max(s)}], elements[Max(s)])
  <2>1. CASE m \in s
    <3>1. Max(s) = m
      BY <1>5, <2>1, MaxIs
    <3>2. s \ {m} \in SUBSET (1 .. m) /\ m \notin s \ {m}
      BY <2>1
    <3>3. h[s \ {m}] = g[s \ {m}]
      BY <1>11, <3>2
    <3> QED BY <1>9, <2>1, <3>1, <3>3
  <2>2. CASE m \notin s
    <3>1. s \in SUBSET (1 .. m - 1)
      BY <1>8, <2>2
    <3>2. s \ {Max(s)} \in SUBSET (1 .. m) /\ m \notin s \ {Max(s)}
      BY <2>2
    <3>3. h[s \ {Max(s)}] = g[s \ {Max(s)}]
      BY <1>11, <3>2
    <3> QED BY <1>7, <1>11, <2>2, <3>1, <3>3
  <2> QED BY <2>1, <2>2
<1>13. h = [s \in SUBSET (1 .. m) |->
              IF s = {} THEN base
              ELSE LET x == Max(s) IN Added(v, h[s \ {x}], elements[x])]
  BY <1>10, <1>12
<1>14. Folding(v, elements, base, 1 .. m, h)
  BY <1>13 DEF Folding
<1> QED BY <1>14

(* The buckets as they are after each element.                               *)
LEMMA RebuiltBySteps ==
  ASSUME NEW v \in VM, NEW image \in Image
  PROVE  LET n == Len(image.elements) IN
         \E g : /\ g \in [0 .. n -> [Buckets -> Seq(Element)]]
                /\ g[0] = Empty
                /\ \A k \in 1 .. n : g[k] = Added(v, g[k - 1], image.elements[k])
                /\ Rebuilt(v, image).buckets = g[n]
<1> DEFINE n == Len(image.elements)
           h == CHOOSE x : Folding(v, image.elements, Empty, 1 .. n, x)
           g == [k \in 0 .. n |-> h[1 .. k]]
<1>1. /\ n \in Nat /\ DOMAIN image.elements = 1 .. n
      /\ \A k \in 1 .. n : image.elements[k] \in Element
  BY DEF Image
<1>2. Folding(v, image.elements, Empty, 1 .. n, h)
  BY <1>1, FoldingExists
<1>3. Rebuilt(v, image).buckets = h[1 .. n]
  BY <1>1, RebuiltUnfolds
<1> HIDE DEF h, n
<1>4. \A s \in SUBSET (1 .. n) :
        h[s] = IF s = {} THEN Empty
               ELSE Added(v, h[s \ {Max(s)}], image.elements[Max(s)])
  <2>1. Folded(v, image.elements, Empty, 1 .. n, h)
    BY <1>2, FoldingHas
  <2> QED BY <2>1 DEF Folded
<1>5. \A k \in 0 .. n : g[k] = h[1 .. k] /\ (1 .. k) \in SUBSET (1 .. n)
  BY <1>1
<1>6. g[0] = Empty
  <2>1. 0 \in 0 .. n /\ 1 .. 0 = {}
    BY <1>1
  <2> QED BY <1>4, <1>5, <2>1
<1>7. ASSUME NEW k \in 1 .. n
      PROVE  g[k] = Added(v, g[k - 1], image.elements[k])
  <2>1. /\ k \in Nat /\ k \in 0 .. n /\ k - 1 \in 0 .. n /\ k \in 1 .. k
        /\ (1 .. k) \ {k} = 1 .. k - 1
    BY <1>1
  <2>2. Max(1 .. k) = k
    BY <2>1, MaxIs
  <2>3. (1 .. k) \in SUBSET (1 .. n) /\ 1 .. k # {}
    BY <1>5, <2>1
  <2>4. h[1 .. k] = Added(v, h[1 .. k - 1], image.elements[k])
    BY <1>4, <2>1, <2>2, <2>3
  <2> QED BY <1>5, <2>1, <2>4
<1>8. n \in 0 .. n /\ g = [k \in 0 .. n |-> g[k]]
  BY <1>1
<1> HIDE DEF g
<1> DEFINE wrong == {k \in 0 .. n : g[k] \notin [Buckets -> Seq(Element)]}
<1>9. wrong = {}
  <2>1. SUFFICES ASSUME wrong # {} PROVE FALSE
    OBVIOUS
  <2>2. wrong \in SUBSET Nat
    BY <1>1
  <2>3. PICK k \in wrong : \A j \in wrong : k <= j
    BY <2>1, <2>2, SmallestNat
  <2>4. k # 0
    <3>1. Empty \in [Buckets -> Seq(Element)]
      BY DEF Empty
    <3> QED BY <1>6, <2>3, <3>1
  <2>5. k \in 1 .. n /\ k - 1 \in 0 .. n /\ ~ (k <= k - 1)
    BY <1>1, <2>3, <2>4
  <2>6. g[k - 1] \in [Buckets -> Seq(Element)]
    BY <2>3, <2>5
  <2>7. g[k] \in [Buckets -> Seq(Element)]
    <3>1. g[k] = Added(v, g[k - 1], image.elements[k])
      BY <1>7, <2>5
    <3>2. image.elements[k] \in Element
      BY <1>1, <2>5
    <3>3. Added(v, g[k - 1], image.elements[k]) \in [Buckets -> Seq(Element)]
      BY <2>6, <3>2, AddedIs
    <3> QED BY <3>1, <3>3
  <2> QED BY <2>3, <2>7
<1>10. g \in [0 .. n -> [Buckets -> Seq(Element)]]
  BY <1>8, <1>9
<1>11. Rebuilt(v, image).buckets = g[n]
  BY <1>3, <1>5, <1>8
<1> QED BY <1>6, <1>7, <1>10, <1>11 DEF n

LEMMA RebuiltIs ==
  ASSUME NEW v \in VM, NEW image \in Image
  PROVE  /\ Rebuilt(v, image) \in Object
         /\ Rebuilt(v, image).handles = image.handles
         /\ Rebuilt(v, image).type = image.type
<1>1. Len(image.elements) \in 0 .. Len(image.elements)
  BY DEF Image
<1>2. Rebuilt(v, image).buckets \in [Buckets -> Seq(Element)]
  BY <1>1, RebuiltBySteps
<1> DEFINE x == Rebuilt(v, image)
<1>3. x = [buckets |-> x.buckets, handles |-> image.handles, type |-> image.type]
  BY RebuiltUnfolds
<1>4. image.handles \in Nat /\ image.type \in Nat
  BY DEF Image
<1> HIDE DEF x
<1>5. /\ x.handles = image.handles /\ x.type = image.type
  BY <1>3
<1>6. x.buckets \in [Buckets -> Seq(Element)]
  BY <1>2 DEF x
<1>7. x \in Object
  BY <1>3, <1>4, <1>6 DEF Object
<1> QED BY <1>5, <1>7 DEF x

-----------------------------------------------------------------------------
(* The inductive invariant. In what follows v is the VM that is loaded when  *)
(* p items are read of what u was saved as.                                  *)

FunctionsTyped(v) == v.functions \in Seq((DOMAIN v.natives) \cup {None})

Coroutines(v) == {slot \in Slots : IsCoroutine(v, slot)}

(* As many coroutines are read as their objects are, and as many contexts    *)
(* as their items are: at the end each coroutine has one.                    *)
ContextsAdd(u, v, p) ==
  /\ Cardinality(Coroutines(v)) =
       Cardinality(Coroutines(u) \cap First(Used(u.objects), ObjectsBy(u, p)))
  /\ Cardinality(Used(v.contexts)) = ContextsBy(u, p)
  /\ Used(v.contexts) \subseteq Coroutines(v)

(* Only the context that was linked last can be in the chain twice.          *)
ChainGrows(u, v, p) ==
  /\ p <= AfterContexts(u) => v.active = <<>>
  /\ \A i, j \in 1 .. Len(v.active) - 1 : v.active[i] = v.active[j] => i = j
  /\ \A i \in 1 .. Len(v.active) :
       /\ IsCoroutine(v, v.active[i])
       /\ v.contexts[v.active[i]].state = "running"

MappedByName(u, v, m, p) ==
  /\ Len(m) = NativesBy(u, p)
  /\ \A n \in 1 .. Len(m) :
       /\ m[n] # None => v.natives[m[n]].name = u.natives[n].name
       /\ m[n] = None =>
            \A i \in DOMAIN v.natives : v.natives[i].name # u.natives[n].name

Sane(u, v, m, p) ==
  ContextsAdd(u, v, p) /\ ChainGrows(u, v, p) /\ MappedByName(u, v, m, p)

(* What is read of a stream that is not damaged.                             *)
FunctionsRead(u, v, p) ==
  /\ Len(v.functions) = FunctionsBy(u, p)
  /\ \A k \in 1 .. Len(v.functions) :
       NativeName(v, v.functions[k]) = NativeName(u, u.functions[k])

StringsRead(u, v, p) ==
  \A slot \in Slots : v.strings[slot] =
    IF slot \in First(Used(u.strings), StringsBy(u, p)) THEN u.strings[slot]
                                                        ELSE None

ObjectsRead(u, v, p) ==
  \A slot \in Slots :
    LET got == slot \in First(Used(u.objects), ObjectsBy(u, p)) IN
    /\ v.objects[slot] # None <=> got
    /\ got => v.objects[slot].type = u.objects[slot].type

ContextsRead(u, v, p) ==
  \A slot \in Slots : v.contexts[slot] =
    IF slot \in First(Used(u.contexts), ContextsBy(u, p)) THEN u.contexts[slot]
                                                          ELSE None

ActiveRead(u, v, p) ==
  /\ Len(v.active) = ActiveBy(u, p)
  /\ \A k \in 1 .. Len(v.active) : v.active[k] = u.active[k]

ErrorsRead(u, v, p) == v.errors = IF p = 0 THEN 0 ELSE u.errors

Faithful(u, v, p) ==
  /\ FunctionsRead(u, v, p) /\ StringsRead(u, v, p) /\ ObjectsRead(u, v, p)
  /\ ContextsRead(u, v, p) /\ ActiveRead(u, v, p) /\ ErrorsRead(u, v, p)

Typed ==
  /\ vm \in VM /\ FunctionsTyped(vm)
  /\ position \in 1 .. Len(stream) + 1
  /\ mapping \in Seq((1 .. Len(vm.natives)) \cup {None})
  /\ damaged \in BOOLEAN
  /\ phase \in Outside \cup {"saved", "loading", "rejected"}

(* Damage leaves alone the part of an item, and what it holds unless that is *)
(* a reference to a C function or to the context that is next.               *)
Kept(u, s, d) ==
  /\ Len(s) = AfterActive(u) + 1 /\ DOMAIN s = 1 .. AfterActive(u) + 1
  /\ \A i \in 1 .. AfterActive(u) + 1 :
       /\ DOMAIN s[i] = 1 .. 3
       /\ s[i][1] = Written(u)[i][1]
       /\ s[i][1] \notin {"function", "active"} => s[i][3] = Written(u)[i][3]
       /\ s[i][1] = "function" => s[i][3] \in (Nat \ {0}) \cup {None}
       /\ s[i][1] = "active" => s[i][3] \in {"coroutine", "root"}
  /\ ~d => s = Written(u)

IInv ==
  /\ Typed /\ Proper(saved)
  /\ phase = "running" => stream = <<>>
  /\ phase # "running" => Kept(saved, stream, damaged)
  /\ phase \in Outside \cup {"saved"} => Proper(vm)
  /\ phase = "loading" =>
       /\ Sane(saved, vm, mapping, position - 1)
       /\ ~damaged => Faithful(saved, vm, position - 1)
  /\ FunctionsByName /\ SavedIsLoadable

-----------------------------------------------------------------------------
(* What an item leaves alone.                                                *)

NamesSame(v, n) ==
  /\ DOMAIN n.natives = DOMAIN v.natives
  /\ \A i \in DOMAIN v.natives : n.natives[i].name = v.natives[i].name

LEMMA DomainIs ==
  ASSUME NEW v \in VM
  PROVE  /\ DOMAIN v.natives = 1 .. Len(v.natives) /\ Len(v.natives) \in Nat
         /\ \A i \in DOMAIN v.natives : v.natives[i] \in Native
BY DEF VM

LEMMA FieldsAre ==
  ASSUME NEW v \in VM
  PROVE  /\ v.errors \in Nat /\ v.strings \in [Slots -> Contents \cup {None}]
         /\ v.natives \in Seq(Native) /\ v.functions \in Seq(Nat \cup {None})
         /\ v.objects \in [Slots -> Object \cup {None}]
         /\ v.contexts \in [Slots -> Context \cup {None}]
         /\ v.active \in Seq(Slots) /\ Len(v.active) \in Nat
         /\ DOMAIN v.active = 1 .. Len(v.active)
         /\ \A k \in 1 .. Len(v.active) : v.active[k] \in Slots
         /\ v.subsystems \in Seq([name : Names, data : Values])
<1>1. v.active \in Seq(Slots)
  BY DEF VM
<1>2. /\ Len(v.active) \in Nat /\ DOMAIN v.active = 1 .. Len(v.active)
      /\ \A k \in 1 .. Len(v.active) : v.active[k] \in Slots
  BY <1>1
<1> QED BY <1>1, <1>2 DEF VM

LEMMA ContextsCarry ==
  ASSUME NEW u, NEW v, NEW n, NEW i,
         n.objects = v.objects, n.contexts = v.contexts,
         ObjectsBy(u, i) = ObjectsBy(u, i - 1),
         ContextsBy(u, i) = ContextsBy(u, i - 1), ContextsAdd(u, v, i - 1)
  PROVE  ContextsAdd(u, n, i)
<1>1. Coroutines(n) = Coroutines(v) /\ Used(n.contexts) = Used(v.contexts)
  BY DEF Coroutines, IsCoroutine, Used
<1> QED BY <1>1 DEF ContextsAdd

LEMMA ChainCarry ==
  ASSUME NEW u \in VM, NEW v \in VM, NEW n \in VM, NEW i \in Nat \ {0},
         \A s \in Slots : IsCoroutine(v, s) => IsCoroutine(n, s),
         \A s \in Slots : v.contexts[s] # None => n.contexts[s] = v.contexts[s],
         \A k \in 1 .. Len(v.active) : v.contexts[v.active[k]] # None,
         n.active = v.active, ChainGrows(u, v, i - 1)
  PROVE  ChainGrows(u, n, i)
<1>1. AfterContexts(u) \in Nat
  BY Bounds
<1>2. i <= AfterContexts(u) => i - 1 <= AfterContexts(u)
  BY <1>1
<1>3. \A k \in 1 .. Len(v.active) : v.active[k] \in Slots
  BY FieldsAre
<1> QED BY <1>2, <1>3 DEF ChainGrows

LEMMA MappedCarry ==
  ASSUME NEW u \in VM, NEW v \in VM, NEW n \in VM, NEW i,
         NEW m \in Seq((1 .. Len(v.natives)) \cup {None}),
         NamesSame(v, n), NativesBy(u, i) = NativesBy(u, i - 1),
         MappedByName(u, v, m, i - 1)
  PROVE  MappedByName(u, n, m, i)
<1>1. \A k \in 1 .. Len(m) : m[k] # None => m[k] \in DOMAIN v.natives
  BY DomainIs
<1> QED BY <1>1 DEF MappedByName, NamesSame

LEMMA FunctionsCarry ==
  ASSUME NEW u \in VM, NEW v \in VM, NEW n \in VM, NEW i,
         NamesSame(v, n), n.functions = v.functions, FunctionsTyped(v),
         FunctionsBy(u, i) = FunctionsBy(u, i - 1), FunctionsRead(u, v, i - 1)
  PROVE  FunctionsRead(u, n, i) /\ FunctionsTyped(n)
<1>1. \A k \in 1 .. Len(v.functions) :
        v.functions[k] # None => v.functions[k] \in DOMAIN v.natives
  BY DEF FunctionsTyped
<1>2. FunctionsRead(u, n, i)
  BY <1>1 DEF FunctionsRead, NamesSame, NativeName
<1>3. FunctionsTyped(n)
  BY DEF FunctionsTyped, NamesSame
<1> QED BY <1>2, <1>3

LEMMA SaneCarry ==
  ASSUME NEW u \in VM, NEW v \in VM, NEW n \in VM, NEW i \in Nat \ {0},
         NEW m \in Seq((1 .. Len(v.natives)) \cup {None}),
         NamesSame(v, n), n.objects = v.objects, n.contexts = v.contexts,
         n.active = v.active, NativesBy(u, i) = NativesBy(u, i - 1),
         ObjectsBy(u, i) = ObjectsBy(u, i - 1),
         ContextsBy(u, i) = ContextsBy(u, i - 1), Sane(u, v, m, i - 1)
  PROVE  Sane(u, n, m, i)
<1>1. ContextsAdd(u, n, i)
  BY ContextsCarry DEF Sane
<1>2. ChainGrows(u, n, i)
  <2>1. AfterContexts(u) \in Nat
    BY Bounds
  <2>2. i <= AfterContexts(u) => i - 1 <= AfterContexts(u)
    BY <2>1
  <2> QED BY <2>2 DEF Sane, ChainGrows, IsCoroutine
<1>3. MappedByName(u, n, m, i)
  BY MappedCarry DEF Sane
<1> QED BY <1>1, <1>2, <1>3 DEF Sane

LEMMA FaithfulCarry ==
  ASSUME NEW u \in VM, NEW v \in VM, NEW n \in VM, NEW i \in Nat \ {0}
  PROVE  /\ /\ n.strings = v.strings /\ StringsBy(u, i) = StringsBy(u, i - 1)
            /\ StringsRead(u, v, i - 1)
            => StringsRead(u, n, i)
         /\ /\ n.objects = v.objects /\ ObjectsBy(u, i) = ObjectsBy(u, i - 1)
            /\ ObjectsRead(u, v, i - 1)
            => ObjectsRead(u, n, i)
         /\ /\ n.contexts = v.contexts /\ ContextsBy(u, i) = ContextsBy(u, i - 1)
            /\ ContextsRead(u, v, i - 1)
            => ContextsRead(u, n, i)
         /\ /\ n.active = v.active /\ ActiveBy(u, i) = ActiveBy(u, i - 1)
            /\ ActiveRead(u, v, i - 1)
            => ActiveRead(u, n, i)
         /\ 1 < i /\ n.errors = v.errors /\ ErrorsRead(u, v, i - 1)
            => ErrorsRead(u, n, i)
<1>1. 1 < i => i - 1 # 0 /\ i # 0
  OBVIOUS
<1>2. ASSUME n.strings = v.strings, StringsBy(u, i) = StringsBy(u, i - 1),
             StringsRead(u, v, i - 1)
      PROVE  StringsRead(u, n, i)
  BY <1>2 DEF StringsRead
<1>3. ASSUME n.objects = v.objects, ObjectsBy(u, i) = ObjectsBy(u, i - 1),
             ObjectsRead(u, v, i - 1)
      PROVE  ObjectsRead(u, n, i)
  BY <1>3 DEF ObjectsRead
<1>4. ASSUME n.contexts = v.contexts, ContextsBy(u, i) = ContextsBy(u, i - 1),
             ContextsRead(u, v, i - 1)
      PROVE  ContextsRead(u, n, i)
  BY <1>4 DEF ContextsRead
<1>5. ASSUME n.active = v.active, ActiveBy(u, i) = ActiveBy(u, i - 1),
             ActiveRead(u, v, i - 1)
      PROVE  ActiveRead(u, n, i)
  BY <1>5 DEF ActiveRead
<1>6. ASSUME 1 < i, n.errors = v.errors, ErrorsRead(u, v, i - 1)
      PROVE  ErrorsRead(u, n, i)
  BY <1>1, <1>6 DEF ErrorsRead
<1> QED BY <1>2, <1>3, <1>4, <1>5, <1>6

-----------------------------------------------------------------------------
(* What each item does.                                                      *)

(* A VM that is loaded up to an item, and what is loaded with it.            *)
Loads(u, v, n, m, k, i) ==
  /\ n \in VM /\ FunctionsTyped(n)
  /\ k \in Seq((1 .. Len(n.natives)) \cup {None})
  /\ Sane(u, v, m, i - 1) => Sane(u, n, k, i)

LEMMA StringItem ==
  ASSUME NEW u \in VM, NEW v \in VM, FunctionsTyped(v),
         NEW m \in Seq((1 .. Len(v.natives)) \cup {None}),
         NEW i \in 1 .. AfterActive(u) + 1, Written(u)[i][1] = "string",
         NEW slot \in Slots
  PROVE  LET n == [v EXCEPT !.strings[slot] = Written(u)[i][3]] IN
         /\ Loads(u, v, n, m, m, i)
         /\ slot = Written(u)[i][2] /\ Faithful(u, v, i - 1) => Faithful(u, n, i)
<1> DEFINE used == Used(u.strings)
           x == Written(u)[i][3]
           t == [v.strings EXCEPT ![slot] = x]
           n == [v EXCEPT !.strings = t]
<1>1. PICK k \in 1 .. Cardinality(used) :
        /\ Written(u)[i] = <<"string", Nth(used, k), u.strings[Nth(used, k)]>>
        /\ StringsBy(u, i) = k /\ StringsBy(u, i - 1) = k - 1 /\ 1 < i
        /\ NativesBy(u, i) = NativesBy(u, i - 1)
        /\ FunctionsBy(u, i) = FunctionsBy(u, i - 1)
        /\ ObjectsBy(u, i) = ObjectsBy(u, i - 1)
        /\ ContextsBy(u, i) = ContextsBy(u, i - 1)
        /\ ActiveBy(u, i) = ActiveBy(u, i - 1)
  BY StringAt
<1>2. used \in SUBSET Slots /\ i \in Nat \ {0}
  BY <1>1, Bounds DEF Used
<1>3. /\ First(used, k) = First(used, k - 1) \cup {Nth(used, k)}
      /\ Nth(used, k) \in Slots
  BY <1>2, FirstIs
<1>4. x = u.strings[Nth(used, k)] /\ Written(u)[i][2] = Nth(used, k)
  BY <1>1
<1>5. /\ v.strings \in [Slots -> Contents \cup {None}]
      /\ u.strings \in [Slots -> Contents \cup {None}]
  BY FieldsAre
<1>6. t \in [Slots -> Contents \cup {None}]
  <2> HIDE DEF x
  <2> QED BY <1>3, <1>4, <1>5
<1>7. [v EXCEPT !.strings[slot] = x] = n
  BY DEF VM
<1> HIDE DEF n, t, x, used
<1>8. /\ n \in VM /\ n.strings = t
      /\ n.errors = v.errors /\ n.natives = v.natives
      /\ n.functions = v.functions /\ n.objects = v.objects
      /\ n.contexts = v.contexts /\ n.active = v.active
  BY <1>6, SetStrings DEF n
<1>9. NamesSame(v, n) /\ FunctionsTyped(n)
  BY <1>8 DEF NamesSame, FunctionsTyped
<1>10. ASSUME Sane(u, v, m, i - 1) PROVE Sane(u, n, m, i)
  BY <1>1, <1>2, <1>8, <1>9, <1>10, SaneCarry
<1>11. ASSUME slot = Written(u)[i][2], Faithful(u, v, i - 1)
       PROVE  Faithful(u, n, i)
  <2>1. StringsRead(u, n, i)
    <3>1. \A s \in Slots : t[s] = IF s = slot THEN x ELSE v.strings[s]
      BY <1>5 DEF t
    <3>2. \A s \in Slots :
            v.strings[s] = IF s \in First(used, k - 1) THEN u.strings[s] ELSE None
      BY <1>1, <1>11 DEF Faithful, StringsRead, used
    <3>3. \A s \in Slots :
            t[s] = IF s \in First(used, k) THEN u.strings[s] ELSE None
      BY <1>3, <1>4, <1>11, <3>1, <3>2
    <3> QED BY <1>1, <1>8, <3>3 DEF StringsRead, used
  <2>2. FunctionsRead(u, n, i)
    BY <1>1, <1>8, <1>9, <1>11, FunctionsCarry DEF Faithful
  <2>3. /\ ObjectsRead(u, n, i) /\ ContextsRead(u, n, i) /\ ActiveRead(u, n, i)
        /\ ErrorsRead(u, n, i)
    BY <1>1, <1>2, <1>8, <1>11, FaithfulCarry DEF Faithful
  <2> QED BY <2>1, <2>2, <2>3 DEF Faithful
<1>12. m \in Seq((1 .. Len(n.natives)) \cup {None})
  BY <1>8
<1> QED BY <1>7, <1>8, <1>9, <1>10, <1>11, <1>12 DEF x, Loads

LEMMA RestItem ==
  ASSUME NEW u \in VM, NEW v \in VM, NEW n \in VM, FunctionsTyped(v),
         NEW m \in Seq((1 .. Len(v.natives)) \cup {None}),
         NEW i \in 1 .. AfterActive(u) + 1, Written(u)[i][1] \in Rest,
         n.errors = IF Written(u)[i][1] = "errors" THEN u.errors ELSE v.errors,
         n.strings = v.strings, n.natives = v.natives, n.functions = v.functions,
         n.objects = v.objects, n.contexts = v.contexts, n.active = v.active
  PROVE  /\ Loads(u, v, n, m, m, i)
         /\ Faithful(u, v, i - 1) => Faithful(u, n, i)
<1>1. /\ Written(u)[i][1] = "errors" <=> i = 1
      /\ StringsBy(u, i) = StringsBy(u, i - 1)
      /\ NativesBy(u, i) = NativesBy(u, i - 1)
      /\ FunctionsBy(u, i) = FunctionsBy(u, i - 1)
      /\ ObjectsBy(u, i) = ObjectsBy(u, i - 1)
      /\ ContextsBy(u, i) = ContextsBy(u, i - 1)
      /\ ActiveBy(u, i) = ActiveBy(u, i - 1)
  BY RestAt
<1>2. i \in Nat \ {0}
  BY Bounds
<1>3. NamesSame(v, n) /\ FunctionsTyped(n)
  BY DEF NamesSame, FunctionsTyped
<1>4. ASSUME Sane(u, v, m, i - 1) PROVE Sane(u, n, m, i)
  BY <1>1, <1>2, <1>3, <1>4, SaneCarry
<1>5. ASSUME Faithful(u, v, i - 1) PROVE Faithful(u, n, i)
  <2>1. FunctionsRead(u, n, i)
    BY <1>1, <1>3, <1>5, FunctionsCarry DEF Faithful
  <2>2. /\ StringsRead(u, n, i) /\ ObjectsRead(u, n, i) /\ ContextsRead(u, n, i)
        /\ ActiveRead(u, n, i)
    BY <1>1, <1>2, <1>5, FaithfulCarry DEF Faithful
  <2>3. ErrorsRead(u, n, i)
    <3>1. CASE i = 1
      BY <1>1, <3>1 DEF ErrorsRead
    <3>2. CASE i # 1
      <4>1. 1 < i
        BY <1>2, <3>2
      <4> QED BY <1>1, <1>2, <1>5, <3>2, <4>1, FaithfulCarry DEF Faithful
    <3> QED BY <3>1, <3>2
  <2> QED BY <2>1, <2>2, <2>3 DEF Faithful
<1>6. m \in Seq((1 .. Len(n.natives)) \cup {None})
  OBVIOUS
<1> QED BY <1>3, <1>4, <1>5, <1>6 DEF Loads

(* The C functions that are passed forget theirs, the one found gets one.    *)
Matched(natives, passed, found, function) ==
  [i \in DOMAIN natives |->
     IF i <= passed THEN [natives[i] EXCEPT !.function = None]
     ELSE IF i = found THEN [natives[i] EXCEPT !.function = function]
     ELSE natives[i]]

LikeNatives(t, natives) ==
  /\ t \in Seq(Native) /\ DOMAIN t = DOMAIN natives /\ Len(t) = Len(natives)
  /\ \A i \in DOMAIN natives : t[i].name = natives[i].name

LEMMA MatchedIs ==
  ASSUME NEW natives \in Seq(Native), NEW passed, NEW found,
         NEW function \in Nat \cup {None}
  PROVE  LikeNatives(Matched(natives, passed, found, function), natives)
<1>1. Len(natives) \in Nat /\ DOMAIN natives = 1 .. Len(natives)
  OBVIOUS
<1>2. \A i \in 1 .. Len(natives) : natives[i] \in Native
  OBVIOUS
<1>3. \A x \in Native, f \in Nat \cup {None} :
        [x EXCEPT !.function = f] \in Native /\ [x EXCEPT !.function = f].name = x.name
  BY DEF Native
<1> DEFINE t == Matched(natives, passed, found, function)
<1>4. \A i \in 1 .. Len(natives) :
        t[i] = IF i <= passed THEN [natives[i] EXCEPT !.function = None]
               ELSE IF i = found THEN [natives[i] EXCEPT !.function = function]
               ELSE natives[i]
  BY <1>1 DEF Matched
<1>5. DOMAIN t = 1 .. Len(natives) /\ t = [i \in 1 .. Len(natives) |-> t[i]]
  BY <1>1 DEF Matched
<1> HIDE DEF t
<1>6. \A i \in 1 .. Len(natives) : t[i] \in Native /\ t[i].name = natives[i].name
  <2> TAKE i \in 1 .. Len(natives)
  <2>1. natives[i] \in Native
    BY <1>2
  <2>2. \/ t[i] = [natives[i] EXCEPT !.function = None]
        \/ t[i] = [natives[i] EXCEPT !.function = function]
        \/ t[i] = natives[i]
    BY <1>4
  <2>3. \A f \in Nat \cup {None} :
          /\ [natives[i] EXCEPT !.function = f] \in Native
          /\ [natives[i] EXCEPT !.function = f].name = natives[i].name
    BY <1>3, <2>1
  <2>4. None \in Nat \cup {None}
    OBVIOUS
  <2> QED BY <2>1, <2>2, <2>3, <2>4
<1>7. t \in [1 .. Len(natives) -> Native]
  BY <1>5, <1>6
<1>8. t \in Seq(Native) /\ Len(t) = Len(natives)
  BY <1>1, <1>7, SeqDef
<1> QED BY <1>1, <1>5, <1>6, <1>8 DEF t, LikeNatives

LEMMA NativeItem ==
  ASSUME NEW u \in VM, NEW v \in VM, FunctionsTyped(v),
         NEW m \in Seq((1 .. Len(v.natives)) \cup {None}),
         NEW i \in 1 .. AfterActive(u) + 1, Written(u)[i][1] = "native",
         NEW found \in 0 .. Len(v.natives), NEW passed,
         found # 0 => v.natives[found].name = Written(u)[i][3].name,
         found = 0 <=> \A j \in DOMAIN v.natives :
                         v.natives[j].name # Written(u)[i][3].name
  PROVE  LET t == Matched(v.natives, passed, found, Written(u)[i][3].function)
             n == [v EXCEPT !.natives = t]
             q == Append(m, IF found = 0 THEN None ELSE found)
         IN  /\ Loads(u, v, n, m, q, i)
             /\ Faithful(u, v, i - 1) => Faithful(u, n, i)
<1> DEFINE x == Written(u)[i][3]
           t == Matched(v.natives, passed, found, x.function)
           n == [v EXCEPT !.natives = t]
           y == IF found = 0 THEN None ELSE found
           q == Append(m, y)
<1>1. PICK k \in 1 .. Len(u.natives) :
        /\ Written(u)[i] = <<"native", k, u.natives[k]>>
        /\ NativesBy(u, i) = k /\ NativesBy(u, i - 1) = k - 1 /\ 1 < i
        /\ StringsBy(u, i) = StringsBy(u, i - 1)
        /\ FunctionsBy(u, i) = FunctionsBy(u, i - 1)
        /\ ObjectsBy(u, i) = ObjectsBy(u, i - 1)
        /\ ContextsBy(u, i) = ContextsBy(u, i - 1)
        /\ ActiveBy(u, i) = ActiveBy(u, i - 1)
  BY NativeAt
<1>2. i \in Nat \ {0} /\ Len(u.natives) \in Nat /\ Len(v.natives) \in Nat
  BY CountsAre, Bounds
<1>3. x = u.natives[k] /\ x \in Native
  BY <1>1, DomainIs
<1>4. x.function \in Nat \cup {None}
  BY <1>3 DEF Native
<1>5. v.natives \in Seq(Native)
  BY FieldsAre
<1>6. /\ t \in Seq(Native) /\ DOMAIN t = DOMAIN v.natives
      /\ Len(t) = Len(v.natives)
      /\ \A j \in DOMAIN v.natives : t[j].name = v.natives[j].name
  <2> HIDE DEF x
  <2>1. LikeNatives(t, v.natives)
    BY <1>4, <1>5, MatchedIs
  <2> QED BY <2>1 DEF LikeNatives
<1>7. y \in (1 .. Len(v.natives)) \cup {None}
  BY <1>2
<1>8. \A S : \A s \in Seq(S), e \in S :
        /\ Append(s, e) \in Seq(S) /\ Len(s) \in Nat
        /\ Len(Append(s, e)) = Len(s) + 1
        /\ \A j \in 1 .. Len(s) + 1 :
             Append(s, e)[j] = IF j = Len(s) + 1 THEN e ELSE s[j]
  OBVIOUS
<1> HIDE DEF t
<1>9. /\ n \in VM /\ n.natives = t /\ n.strings = v.strings
      /\ n.errors = v.errors /\ n.functions = v.functions
      /\ n.objects = v.objects /\ n.contexts = v.contexts /\ n.active = v.active
  BY <1>6, SetNatives
<1> HIDE DEF n, x
<1>10. NamesSame(v, n) /\ FunctionsTyped(n)
  BY <1>6, <1>9 DEF NamesSame, FunctionsTyped
<1>q. /\ q \in Seq((1 .. Len(v.natives)) \cup {None}) /\ Len(m) \in Nat
      /\ Len(q) = Len(m) + 1
      /\ \A j \in 1 .. Len(m) + 1 : q[j] = IF j = Len(m) + 1 THEN y ELSE m[j]
  <2> HIDE DEF y
  <2> QED BY <1>7, <1>8
<1> HIDE DEF q
<1>11. ASSUME Sane(u, v, m, i - 1) PROVE Sane(u, n, q, i)
  <2>1. ContextsAdd(u, n, i)
    BY <1>1, <1>9, <1>11, ContextsCarry DEF Sane
  <2>2. ChainGrows(u, n, i)
    <3>1. AfterContexts(u) \in Nat
      BY Bounds
    <3>2. i <= AfterContexts(u) => i - 1 <= AfterContexts(u)
      BY <1>2, <3>1
    <3> QED BY <1>9, <1>11, <3>2 DEF Sane, ChainGrows, IsCoroutine
  <2>3. MappedByName(u, n, q, i)
    <3>1. MappedByName(u, v, m, i - 1)
      BY <1>11 DEF Sane
    <3>2. Len(m) = k - 1 /\ Len(q) = k
      <4>1. Len(m) = k - 1
        BY <1>1, <3>1 DEF MappedByName
      <4> QED BY <1>q, <4>1, <1>2
    <3>3. \A j \in 1 .. Len(v.natives) : n.natives[j].name = v.natives[j].name
      BY <1>10, DomainIs DEF NamesSame
    <3>4. DOMAIN n.natives = 1 .. Len(v.natives) /\ DOMAIN v.natives = 1 .. Len(v.natives)
      BY <1>10, DomainIs DEF NamesSame
    <3>5. ASSUME NEW j \in 1 .. Len(q)
          PROVE  /\ q[j] # None => n.natives[q[j]].name = u.natives[j].name
                 /\ q[j] = None =>
                      \A z \in DOMAIN n.natives : n.natives[z].name # u.natives[j].name
      <4>1. CASE j = Len(q)
        <5>1. j = k /\ q[j] = y
          BY <1>q, <3>2, <4>1
        <5>2. u.natives[j].name = x.name
          BY <1>3, <5>1
        <5>3. CASE found = 0
          BY <3>3, <3>4, <5>1, <5>2, <5>3 DEF x
        <5>4. CASE found # 0
          <6>1. q[j] = found /\ found \in 1 .. Len(v.natives) /\ q[j] # None
            <7>1. found \in 1 .. Len(v.natives) /\ found \in Nat
              BY <1>2, <5>4
            <7> QED BY <5>1, <5>4, <7>1, Constants
          <6> QED BY <3>3, <5>2, <5>4, <6>1 DEF x
        <5> QED BY <5>3, <5>4
      <4>2. CASE j # Len(q)
        <5>1. j \in 1 .. Len(m) /\ q[j] = m[j]
          BY <1>q, <4>2
        <5>2. m[j] # None => m[j] \in 1 .. Len(v.natives)
          BY <5>1
        <5>3. /\ m[j] # None => v.natives[m[j]].name = u.natives[j].name
              /\ m[j] = None =>
                   \A z \in DOMAIN v.natives : v.natives[z].name # u.natives[j].name
          BY <3>1, <5>1 DEF MappedByName
        <5>4. CASE m[j] # None
          BY <3>3, <5>1, <5>2, <5>3, <5>4
        <5>5. CASE m[j] = None
          BY <3>3, <3>4, <5>1, <5>3, <5>5
        <5> QED BY <5>4, <5>5
      <4> QED BY <4>1, <4>2
    <3> QED BY <1>1, <3>2, <3>5 DEF MappedByName
  <2> QED BY <2>1, <2>2, <2>3 DEF Sane
<1>12. ASSUME Faithful(u, v, i - 1) PROVE Faithful(u, n, i)
  <2>1. FunctionsRead(u, n, i)
    BY <1>1, <1>9, <1>10, <1>12, FunctionsCarry DEF Faithful
  <2>2. /\ StringsRead(u, n, i) /\ ObjectsRead(u, n, i) /\ ContextsRead(u, n, i)
        /\ ActiveRead(u, n, i) /\ ErrorsRead(u, n, i)
    BY <1>1, <1>2, <1>9, <1>12, FaithfulCarry DEF Faithful
  <2> QED BY <2>1, <2>2 DEF Faithful
<1>13. q \in Seq((1 .. Len(n.natives)) \cup {None})
  BY <1>6, <1>9, <1>q
<1> QED BY <1>9, <1>10, <1>11, <1>12, <1>13 DEF Loads, n, t, x, q

LEMMA FunctionItem ==
  ASSUME NEW u \in VM, NEW v \in VM, FunctionsTyped(v),
         NEW m \in Seq((1 .. Len(v.natives)) \cup {None}),
         NEW i \in 1 .. AfterActive(u) + 1, Written(u)[i][1] = "function",
         NEW y \in (DOMAIN v.natives) \cup {None}
  PROVE  LET n == [v EXCEPT !.functions = Append(v.functions, y)] IN
         /\ Loads(u, v, n, m, m, i)
         /\ /\ Faithful(u, v, i - 1)
            /\ NativeName(v, y) = NativeName(u, Written(u)[i][3])
            => Faithful(u, n, i)
<1> DEFINE t == Append(v.functions, y)
           n == [v EXCEPT !.functions = t]
<1>1. PICK k \in 1 .. Len(u.functions) :
        /\ Written(u)[i] = <<"function", k, u.functions[k]>>
        /\ FunctionsBy(u, i) = k /\ FunctionsBy(u, i - 1) = k - 1 /\ 1 < i
        /\ NativesBy(u, i) = NativesBy(u, i - 1)
        /\ StringsBy(u, i) = StringsBy(u, i - 1)
        /\ ObjectsBy(u, i) = ObjectsBy(u, i - 1)
        /\ ContextsBy(u, i) = ContextsBy(u, i - 1)
        /\ ActiveBy(u, i) = ActiveBy(u, i - 1)
  BY FunctionAt
<1>2. i \in Nat \ {0} /\ Len(u.functions) \in Nat
  BY CountsAre, Bounds
<1>3. /\ (DOMAIN v.natives) \subseteq Nat
  BY DomainIs
<1>4. \A S : \A s \in Seq(S), e \in S :
        /\ Append(s, e) \in Seq(S) /\ Len(s) \in Nat
        /\ Len(Append(s, e)) = Len(s) + 1
        /\ \A j \in 1 .. Len(s) + 1 :
             Append(s, e)[j] = IF j = Len(s) + 1 THEN e ELSE s[j]
  OBVIOUS
<1>5. /\ t \in Seq((DOMAIN v.natives) \cup {None}) /\ Len(v.functions) \in Nat
      /\ Len(t) = Len(v.functions) + 1
      /\ \A j \in 1 .. Len(v.functions) + 1 :
           t[j] = IF j = Len(v.functions) + 1 THEN y ELSE v.functions[j]
  BY <1>4 DEF FunctionsTyped
<1>6. t \in Seq(Nat \cup {None})
  <2>1. v.functions \in Seq(Nat \cup {None}) /\ y \in Nat \cup {None}
    BY <1>3, FieldsAre
  <2> QED BY <1>4, <2>1
<1> HIDE DEF t
<1>7. /\ n \in VM /\ n.functions = t /\ n.strings = v.strings
      /\ n.errors = v.errors /\ n.natives = v.natives
      /\ n.objects = v.objects /\ n.contexts = v.contexts /\ n.active = v.active
  BY <1>6, SetFunctions
<1> HIDE DEF n
<1>8. NamesSame(v, n) /\ FunctionsTyped(n)
  BY <1>5, <1>7 DEF NamesSame, FunctionsTyped
<1>9. ASSUME Sane(u, v, m, i - 1) PROVE Sane(u, n, m, i)
  BY <1>1, <1>2, <1>7, <1>8, <1>9, SaneCarry
<1>10. ASSUME Faithful(u, v, i - 1),
              NativeName(v, y) = NativeName(u, Written(u)[i][3])
       PROVE  Faithful(u, n, i)
  <2>1. FunctionsRead(u, n, i)
    <3>1. FunctionsRead(u, v, i - 1)
      BY <1>10 DEF Faithful
    <3>2. Len(v.functions) = k - 1 /\ Len(t) = k
      <4>1. Len(v.functions) = k - 1
        BY <1>1, <3>1 DEF FunctionsRead
      <4> QED BY <1>2, <1>5, <4>1
    <3>3. \A z : NativeName(n, z) = NativeName(v, z)
      BY <1>7 DEF NativeName
    <3>4. ASSUME NEW j \in 1 .. Len(t)
          PROVE  NativeName(n, t[j]) = NativeName(u, u.functions[j])
      <4>1. CASE j = k
        <5>1. t[j] = y /\ Written(u)[i][3] = u.functions[j]
          BY <1>1, <1>5, <3>2, <4>1
        <5> QED BY <1>10, <3>3, <5>1
      <4>2. CASE j # k
        <5>1. j \in 1 .. Len(v.functions) /\ t[j] = v.functions[j]
          BY <1>2, <1>5, <3>2, <4>2
        <5> QED BY <3>1, <3>3, <5>1 DEF FunctionsRead
      <4> QED BY <4>1, <4>2
    <3> QED BY <1>1, <1>7, <3>2, <3>4 DEF FunctionsRead
  <2>2. /\ StringsRead(u, n, i) /\ ObjectsRead(u, n, i) /\ ContextsRead(u, n, i)
        /\ ActiveRead(u, n, i) /\ ErrorsRead(u, n, i)
    BY <1>1, <1>2, <1>7, <1>10, FaithfulCarry DEF Faithful
  <2> QED BY <2>1, <2>2 DEF Faithful
<1>11. m \in Seq((1 .. Len(n.natives)) \cup {None})
  BY <1>7
<1> QED BY <1>7, <1>8, <1>9, <1>10, <1>11 DEF Loads, n, t

LEMMA BeforeActive ==
  ASSUME NEW u \in VM, NEW i \in 1 .. AfterActive(u) + 1
  PROVE  /\ Written(u)[i][1] \in {"object", "context"} => i <= AfterContexts(u)
         /\ Written(u)[i][1] = "active" => AfterContexts(u) < i
<1>1. ItemCases(u, i, Written(u)[i])
  BY ItemIs
<1>2. /\ i \in Nat /\ 3 \in Nat /\ Cardinality(Used(u.objects)) \in Nat
      /\ Cardinality(Used(u.contexts)) \in Nat /\ Len(u.active) \in Nat
      /\ AfterFunctions(u) \in Nat /\ AfterSubsystems(u) \in Nat
      /\ AfterContexts(u) \in Nat /\ AfterActive(u) \in Nat
  BY CountsAre, Bounds
<1>3. ASSUME Written(u)[i][1] = "object" PROVE i <= AfterContexts(u)
  <2>1. PICK k \in 1 .. Cardinality(Used(u.objects)) : i = AfterFunctions(u) + k
    BY <1>1, <1>3 DEF ItemCases
  <2>2. i <= AfterObjects(u)
    BY <1>2, <2>1 DEF AfterObjects
  <2> QED BY <1>2, <2>2, Bounds
<1>4. ASSUME Written(u)[i][1] = "context" PROVE i <= AfterContexts(u)
  <2>1. PICK k \in 1 .. Cardinality(Used(u.contexts)) : i = AfterSubsystems(u) + k
    BY <1>1, <1>4 DEF ItemCases
  <2> QED BY <1>2, <2>1 DEF AfterContexts
<1>5. ASSUME Written(u)[i][1] = "active" PROVE AfterContexts(u) < i
  <2>1. \/ \E k \in 1 .. Len(u.active) : i = AfterContexts(u) + k
        \/ i = AfterActive(u) + 1
    BY <1>1, <1>5 DEF ItemCases
  <2>2. CASE \E k \in 1 .. Len(u.active) : i = AfterContexts(u) + k
    <3>1. PICK k \in 1 .. Len(u.active) : i = AfterContexts(u) + k
      BY <2>2
    <3> QED BY <1>2, <3>1
  <2>3. CASE i = AfterActive(u) + 1
    BY <1>2, <2>3 DEF AfterActive
  <2> QED BY <2>1, <2>2, <2>3
<1> QED BY <1>3, <1>4, <1>5

(* One more of a finite set.                                                 *)
LEMMA OneMore ==
  ASSUME NEW S \in SUBSET Slots, NEW slot \in Slots, slot \notin S
  PROVE  /\ S \cup {slot} \in SUBSET Slots
         /\ IsFiniteSet(S) /\ Cardinality(S) \in Nat
         /\ Cardinality(S \cup {slot}) = Cardinality(S) + 1
<1>1. IsFiniteSet(S)
  BY Constants, FS_Subset
<1> QED BY <1>1, FS_CardinalityType, FS_AddElement

LEMMA ObjectItem ==
  ASSUME NEW u \in VM, NEW v \in VM, FunctionsTyped(v),
         NEW m \in Seq((1 .. Len(v.natives)) \cup {None}),
         NEW i \in 1 .. AfterActive(u) + 1, Written(u)[i][1] = "object",
         NEW slot \in Slots, v.objects[slot] = None
  PROVE  LET n == [v EXCEPT !.objects[slot] = Rebuilt(v, Written(u)[i][3])] IN
         /\ Loads(u, v, n, m, m, i)
         /\ slot = Written(u)[i][2] /\ Faithful(u, v, i - 1) => Faithful(u, n, i)
<1> DEFINE used == Used(u.objects)
           x == Rebuilt(v, Written(u)[i][3])
           t == [v.objects EXCEPT ![slot] = x]
           n == [v EXCEPT !.objects = t]
<1>1. PICK k \in 1 .. Cardinality(used) :
        /\ Written(u)[i] = <<"object", Nth(used, k), Listed(u.objects[Nth(used, k)])>>
        /\ ObjectsBy(u, i) = k /\ ObjectsBy(u, i - 1) = k - 1 /\ 1 < i
        /\ NativesBy(u, i) = NativesBy(u, i - 1)
        /\ FunctionsBy(u, i) = FunctionsBy(u, i - 1)
        /\ StringsBy(u, i) = StringsBy(u, i - 1)
        /\ ContextsBy(u, i) = ContextsBy(u, i - 1)
        /\ ActiveBy(u, i) = ActiveBy(u, i - 1)
  BY ObjectAt
<1> DEFINE at == Nth(used, k)
<1>2. used \in SUBSET Slots /\ i \in Nat \ {0}
  BY Bounds DEF Used
<1>3. /\ First(used, k) = First(used, k - 1) \cup {at}
      /\ at \notin First(used, k - 1) /\ at \in used
      /\ First(used, k - 1) \in SUBSET used
  <2>1. Cardinality(used) \in Nat
    BY <1>2, NthIs
  <2>2. k - 1 \in 0 .. Cardinality(used)
    BY <2>1
  <2> QED BY <1>2, <2>2, FirstIs
<1>4. u.objects[at] \in Object /\ at \in Slots /\ u.objects[at] # None
  <2>1. at \in Slots /\ u.objects[at] # None
    BY <1>3 DEF Used
  <2> QED BY <2>1, FieldsAre
<1>5. x \in Object /\ x.type = u.objects[at].type /\ x # None
  <2>1. /\ Written(u)[i][3] = Listed(u.objects[at])
    BY <1>1
  <2>2. Listed(u.objects[at]) \in Image /\ Listed(u.objects[at]).type = u.objects[at].type
    BY <1>4, ListedIs
  <2> HIDE DEF at
  <2>3. x \in Object /\ x.type = u.objects[at].type
    BY <2>1, <2>2, RebuiltIs
  <2> QED BY <2>3, Constants
<1>6. Written(u)[i][2] = at
  BY <1>1
<1>7. v.objects \in [Slots -> Object \cup {None}]
  BY FieldsAre
<1>8. [v EXCEPT !.objects[slot] = x] = n
  BY DEF VM
<1> HIDE DEF x
<1>9. t \in [Slots -> Object \cup {None}]
  BY <1>5, <1>7
<1>10. \A s \in Slots : t[s] = IF s = slot THEN x ELSE v.objects[s]
  BY <1>7
<1> HIDE DEF n, t, used, at
<1>11. /\ n \in VM /\ n.objects = t /\ n.strings = v.strings
       /\ n.errors = v.errors /\ n.natives = v.natives
       /\ n.functions = v.functions
       /\ n.contexts = v.contexts /\ n.active = v.active
  BY <1>9, SetObjects DEF n
<1>12. NamesSame(v, n) /\ FunctionsTyped(n)
  BY <1>11 DEF NamesSame, FunctionsTyped
<1>13. ASSUME Sane(u, v, m, i - 1) PROVE Sane(u, n, m, i)
  <2> DEFINE old == Coroutines(u) \cap First(used, k - 1)
             new == Coroutines(u) \cap First(used, k)
  <2>1. /\ Cardinality(Coroutines(v)) = Cardinality(old)
        /\ Cardinality(Used(v.contexts)) = ContextsBy(u, i - 1)
        /\ Used(v.contexts) \subseteq Coroutines(v)
    BY <1>1, <1>13 DEF Sane, ContextsAdd, used
  <2>2. /\ Coroutines(v) \in SUBSET Slots /\ slot \notin Coroutines(v)
        /\ old \in SUBSET Slots /\ at \notin old
    BY <1>3 DEF Coroutines, IsCoroutine
  <2>3. Cardinality(Coroutines(n)) = Cardinality(new)
    <3>1. CASE x.type = CoroutineType
      <4>1. Coroutines(n) = Coroutines(v) \cup {slot}
        BY <1>5, <1>10, <1>11, <3>1 DEF Coroutines, IsCoroutine
      <4>2. at \in Coroutines(u)
        BY <1>4, <1>5, <3>1 DEF Coroutines, IsCoroutine
      <4>3. new = old \cup {at}
        BY <1>3, <4>2
      <4> HIDE DEF old, new
      <4> QED BY <1>4, <2>1, <2>2, <4>1, <4>3, OneMore
    <3>2. CASE x.type # CoroutineType
      <4>1. Coroutines(n) = Coroutines(v)
        BY <1>5, <1>10, <1>11, <2>2, <3>2 DEF Coroutines, IsCoroutine
      <4>2. at \notin Coroutines(u)
        BY <1>5, <3>2 DEF Coroutines, IsCoroutine
      <4>3. new = old
        BY <1>3, <4>2
      <4> QED BY <2>1, <4>1, <4>3
    <3> QED BY <3>1, <3>2
  <2>4. Coroutines(v) \subseteq Coroutines(n)
    BY <1>10, <1>11, <2>2 DEF Coroutines, IsCoroutine
  <2>5. ContextsAdd(u, n, i)
    <3>1. Used(n.contexts) = Used(v.contexts)
      BY <1>11
    <3>2. ObjectsBy(u, i) = k
      BY <1>1
    <3>3. Cardinality(Coroutines(n)) =
            Cardinality(Coroutines(u) \cap First(Used(u.objects), ObjectsBy(u, i)))
      BY <2>3, <3>2 DEF used
    <3> QED BY <1>1, <2>1, <2>4, <3>1, <3>3 DEF ContextsAdd
  <2>6. ChainGrows(u, n, i)
    <3>1. i - 1 <= AfterContexts(u)
      <4>1. i <= AfterContexts(u) /\ AfterContexts(u) \in Nat
        BY <1>1, BeforeActive, Bounds
      <4> QED BY <1>2, <4>1
    <3>2. v.active = <<>>
      BY <1>13, <3>1 DEF Sane, ChainGrows
    <3>3. n.active = <<>> /\ 1 .. Len(n.active) = {} /\ 1 .. Len(n.active) - 1 = {}
      BY <1>11, <3>2
    <3> QED BY <3>3 DEF ChainGrows
  <2>7. MappedByName(u, n, m, i)
    BY <1>1, <1>11, <1>12, <1>13, MappedCarry DEF Sane
  <2> QED BY <2>5, <2>6, <2>7 DEF Sane
<1>14. ASSUME slot = Written(u)[i][2], Faithful(u, v, i - 1)
       PROVE  Faithful(u, n, i)
  <2>1. ObjectsRead(u, n, i)
    <3>1. \A s \in Slots :
            /\ v.objects[s] # None <=> s \in First(used, k - 1)
            /\ s \in First(used, k - 1) => v.objects[s].type = u.objects[s].type
      BY <1>1, <1>14 DEF Faithful, ObjectsRead, used
    <3>2. \A s \in Slots :
            /\ t[s] # None <=> s \in First(used, k)
            /\ s \in First(used, k) => t[s].type = u.objects[s].type
      BY <1>3, <1>5, <1>6, <1>10, <1>14, <3>1
    <3> QED BY <1>1, <1>11, <3>2 DEF ObjectsRead, used
  <2>2. FunctionsRead(u, n, i)
    BY <1>1, <1>11, <1>12, <1>14, FunctionsCarry DEF Faithful
  <2>3. /\ StringsRead(u, n, i) /\ ContextsRead(u, n, i) /\ ActiveRead(u, n, i)
        /\ ErrorsRead(u, n, i)
    BY <1>1, <1>2, <1>11, <1>14, FaithfulCarry DEF Faithful
  <2> QED BY <2>1, <2>2, <2>3 DEF Faithful
<1>15. m \in Seq((1 .. Len(n.natives)) \cup {None})
  BY <1>11
<1> QED BY <1>8, <1>11, <1>12, <1>13, <1>14, <1>15 DEF x, Loads

LEMMA ContextItem ==
  ASSUME NEW u \in VM, NEW v \in VM, FunctionsTyped(v),
         NEW m \in Seq((1 .. Len(v.natives)) \cup {None}),
         NEW i \in 1 .. AfterActive(u) + 1, Written(u)[i][1] = "context",
         NEW slot \in Slots, IsCoroutine(v, slot), v.contexts[slot] = None
  PROVE  LET n == [v EXCEPT !.contexts[slot] = Written(u)[i][3]] IN
         /\ Loads(u, v, n, m, m, i)
         /\ slot = Written(u)[i][2] /\ Faithful(u, v, i - 1) => Faithful(u, n, i)
<1> DEFINE used == Used(u.contexts)
           x == Written(u)[i][3]
           t == [v.contexts EXCEPT ![slot] = x]
           n == [v EXCEPT !.contexts = t]
<1>1. PICK k \in 1 .. Cardinality(used) :
        /\ Written(u)[i] = <<"context", Nth(used, k), u.contexts[Nth(used, k)]>>
        /\ ContextsBy(u, i) = k /\ ContextsBy(u, i - 1) = k - 1 /\ 1 < i
        /\ NativesBy(u, i) = NativesBy(u, i - 1)
        /\ FunctionsBy(u, i) = FunctionsBy(u, i - 1)
        /\ StringsBy(u, i) = StringsBy(u, i - 1)
        /\ ObjectsBy(u, i) = ObjectsBy(u, i - 1)
        /\ ActiveBy(u, i) = ActiveBy(u, i - 1)
  BY ContextAt
<1> DEFINE at == Nth(used, k)
<1>2. used \in SUBSET Slots /\ i \in Nat \ {0}
  BY Bounds DEF Used
<1>3. First(used, k) = First(used, k - 1) \cup {at} /\ at \in used
  BY <1>2, FirstIs
<1>4. x \in Context /\ x # None
  <2>1. at \in Slots /\ u.contexts[at] # None
    BY <1>3 DEF Used
  <2>2. u.contexts[at] \in Context
    BY <2>1, FieldsAre
  <2>3. x = u.contexts[at]
    BY <1>1
  <2> QED BY <2>1, <2>2, <2>3
<1>5. Written(u)[i][2] = at /\ x = u.contexts[at]
  BY <1>1
<1>6. v.contexts \in [Slots -> Context \cup {None}]
  BY FieldsAre
<1>7. [v EXCEPT !.contexts[slot] = x] = n
  BY DEF VM
<1> HIDE DEF x
<1>8. t \in [Slots -> Context \cup {None}]
  BY <1>4, <1>6
<1>9. \A s \in Slots : t[s] = IF s = slot THEN x ELSE v.contexts[s]
  BY <1>6
<1> HIDE DEF n, t, used, at
<1>10. /\ n \in VM /\ n.contexts = t /\ n.strings = v.strings
       /\ n.errors = v.errors /\ n.natives = v.natives
       /\ n.functions = v.functions
       /\ n.objects = v.objects /\ n.active = v.active
  BY <1>8, SetContexts DEF n
<1>11. NamesSame(v, n) /\ FunctionsTyped(n)
  BY <1>10 DEF NamesSame, FunctionsTyped
<1>12. ASSUME Sane(u, v, m, i - 1) PROVE Sane(u, n, m, i)
  <2>1. /\ Cardinality(Used(v.contexts)) = k - 1
        /\ Used(v.contexts) \subseteq Coroutines(v)
        /\ Cardinality(Coroutines(v)) =
             Cardinality(Coroutines(u) \cap First(Used(u.objects), ObjectsBy(u, i)))
    BY <1>1, <1>12 DEF Sane, ContextsAdd
  <2>2. Used(v.contexts) \in SUBSET Slots /\ slot \notin Used(v.contexts)
    BY DEF Used
  <2>3. Used(n.contexts) = Used(v.contexts) \cup {slot}
    BY <1>4, <1>9, <1>10 DEF Used
  <2>4. Cardinality(Used(n.contexts)) = ContextsBy(u, i)
    <3>1. Cardinality(Used(n.contexts)) = Cardinality(Used(v.contexts)) + 1
      BY <2>2, <2>3, OneMore
    <3>2. \A j \in 1 .. Cardinality(used) : (j - 1) + 1 = j
      OBVIOUS
    <3> QED BY <1>1, <2>1, <3>1, <3>2
  <2>5. Coroutines(n) = Coroutines(v) /\ slot \in Coroutines(v)
    BY <1>10 DEF Coroutines, IsCoroutine
  <2>6. ContextsAdd(u, n, i)
    BY <2>1, <2>3, <2>4, <2>5 DEF ContextsAdd
  <2>7. ChainGrows(u, n, i)
    <3>1. i - 1 <= AfterContexts(u)
      <4>1. i <= AfterContexts(u) /\ AfterContexts(u) \in Nat
        BY <1>1, BeforeActive, Bounds
      <4> QED BY <1>2, <4>1
    <3>2. v.active = <<>>
      BY <1>12, <3>1 DEF Sane, ChainGrows
    <3>3. n.active = <<>> /\ 1 .. Len(n.active) = {} /\ 1 .. Len(n.active) - 1 = {}
      BY <1>10, <3>2
    <3> QED BY <3>3 DEF ChainGrows
  <2>8. MappedByName(u, n, m, i)
    BY <1>1, <1>10, <1>11, <1>12, MappedCarry DEF Sane
  <2> QED BY <2>6, <2>7, <2>8 DEF Sane
<1>13. ASSUME slot = Written(u)[i][2], Faithful(u, v, i - 1)
       PROVE  Faithful(u, n, i)
  <2>1. ContextsRead(u, n, i)
    <3>1. \A s \in Slots :
            v.contexts[s] = IF s \in First(used, k - 1) THEN u.contexts[s] ELSE None
      BY <1>1, <1>13 DEF Faithful, ContextsRead, used
    <3>2. \A s \in Slots :
            t[s] = IF s \in First(used, k) THEN u.contexts[s] ELSE None
      BY <1>3, <1>5, <1>9, <1>13, <3>1
    <3> QED BY <1>1, <1>10, <3>2 DEF ContextsRead, used
  <2>2. FunctionsRead(u, n, i)
    BY <1>1, <1>10, <1>11, <1>13, FunctionsCarry DEF Faithful
  <2>3. /\ StringsRead(u, n, i) /\ ObjectsRead(u, n, i) /\ ActiveRead(u, n, i)
        /\ ErrorsRead(u, n, i)
    BY <1>1, <1>2, <1>10, <1>13, FaithfulCarry DEF Faithful
  <2> QED BY <2>1, <2>2, <2>3 DEF Faithful
<1>14. m \in Seq((1 .. Len(n.natives)) \cup {None})
  BY <1>10
<1> QED BY <1>7, <1>10, <1>11, <1>12, <1>13, <1>14 DEF x, Loads


-----------------------------------------------------------------------------
(* The chain of active contexts.                                             *)

LEMMA ChainAt ==
  ASSUME NEW u \in VM, NEW i \in 1 .. AfterActive(u) + 1,
         Written(u)[i][1] = "active"
  PROVE  /\ i \in Nat \ {0} /\ 1 < i
         /\ NativesBy(u, i) = Len(u.natives)
         /\ NativesBy(u, i - 1) = Len(u.natives)
         /\ FunctionsBy(u, i) = Len(u.functions)
         /\ FunctionsBy(u, i - 1) = Len(u.functions)
         /\ StringsBy(u, i) = StringsBy(u, i - 1)
         /\ ObjectsBy(u, i) = Cardinality(Used(u.objects))
         /\ ObjectsBy(u, i - 1) = Cardinality(Used(u.objects))
         /\ ContextsBy(u, i) = Cardinality(Used(u.contexts))
         /\ ContextsBy(u, i - 1) = Cardinality(Used(u.contexts))
<1>1. i \in Nat \ {0}
  BY Bounds
<1>2. AfterContexts(u) < i
  BY BeforeActive
<1>3. /\ 3 < i /\ AfterStrings(u) < i /\ AfterNatives(u) < i
      /\ AfterFunctions(u) < i /\ AfterObjects(u) < i
  BY <1>1, <1>2, Bounds
<1>4. 1 < i
  BY <1>1, <1>3
<1> QED BY <1>1, <1>2, <1>3, <1>4, ByIs DEF Progress

LEMMA EachHasContext ==
  ASSUME NEW u, Proper(u), NEW v \in VM, NEW m,
         NEW i \in 1 .. AfterActive(u) + 1, Written(u)[i][1] = "active",
         Sane(u, v, m, i - 1)
  PROVE  Used(v.contexts) = Coroutines(v)
<1>1. u \in VM
  BY DEF Proper
<1>2. /\ Cardinality(Coroutines(v)) =
           Cardinality(Coroutines(u) \cap First(Used(u.objects), ObjectsBy(u, i - 1)))
      /\ Cardinality(Used(v.contexts)) = ContextsBy(u, i - 1)
      /\ Used(v.contexts) \subseteq Coroutines(v)
  BY DEF Sane, ContextsAdd
<1>3. /\ ObjectsBy(u, i - 1) = Cardinality(Used(u.objects))
      /\ ContextsBy(u, i - 1) = Cardinality(Used(u.contexts))
  BY <1>1, ChainAt
<1>4. First(Used(u.objects), Cardinality(Used(u.objects))) = Used(u.objects)
  <2>1. Used(u.objects) \in SUBSET Slots
    BY DEF Used
  <2> QED BY <2>1, FirstIs
<1>5. Coroutines(u) \cap Used(u.objects) = Coroutines(u)
  BY DEF Coroutines, IsCoroutine, Used
<1>6. Coroutines(u) = Used(u.contexts)
  BY DEF Coroutines, Used, Proper
<1>7. Cardinality(Coroutines(v)) = Cardinality(Used(v.contexts))
  BY <1>2, <1>3, <1>4, <1>5, <1>6
<1>8. IsFiniteSet(Coroutines(v))
  <2>1. Coroutines(v) \in SUBSET Slots
    BY DEF Coroutines
  <2> QED BY <2>1, Constants, FS_Subset
<1> QED BY <1>2, <1>7, <1>8, FS_Subset

(* When the last is not one of those before it, no two are the same.         *)
LEMMA NoneTwice ==
  ASSUME NEW s \in Seq(Slots),
         \A i, j \in 1 .. Len(s) - 1 : s[i] = s[j] => i = j,
         s # <<>> => Last(s) \notin ToSet(Front(s))
  PROVE  /\ \A i, j \in 1 .. Len(s) : s[i] = s[j] => i = j
         /\ IsInjective(s)
<1>1. /\ Len(s) \in Nat /\ DOMAIN s = 1 .. Len(s) /\ (s # <<>> <=> Len(s) # 0)
  OBVIOUS
<1>2. ASSUME NEW i \in 1 .. Len(s), NEW j \in 1 .. Len(s), s[i] = s[j], i # j
      PROVE  FALSE
  <2>1. /\ i \in 1 .. Len(s) - 1 \/ i = Len(s)
        /\ j \in 1 .. Len(s) - 1 \/ j = Len(s)
        /\ Len(s) \in Nat \ {0}
    <3>1. \A n \in Nat : \A x \in 1 .. n : (x \in 1 .. n - 1 \/ x = n) /\ n # 0
      OBVIOUS
    <3> QED BY <1>1, <3>1
  <2>2. \A k \in 1 .. Len(s) - 1 : s[k] \in ToSet(Front(s))
    <3>1. /\ DOMAIN Front(s) = 1 .. Len(s) - 1
          /\ \A k \in 1 .. Len(s) - 1 : Front(s)[k] = s[k]
      BY <2>1 DEF Front
    <3> QED BY <3>1 DEF ToSet
  <2>3. \A k \in 1 .. Len(s) - 1 : s[k] # s[Len(s)]
    BY <1>1, <2>1, <2>2 DEF Last
  <2> QED BY <1>2, <2>1, <2>3
<1> QED BY <1>1, <1>2 DEF IsInjective

(* And when no two are the same, the last is not one of those before it.     *)
LEMMA LastIsNew ==
  ASSUME NEW s \in Seq(Slots), s # <<>>,
         \A i, j \in 1 .. Len(s) : s[i] = s[j] => i = j
  PROVE  Last(s) \notin ToSet(Front(s))
<1>1. /\ Len(s) \in Nat \ {0}
  OBVIOUS
<1>2. /\ DOMAIN Front(s) = 1 .. Len(s) - 1
      /\ \A k \in 1 .. Len(s) - 1 : Front(s)[k] = s[k]
  BY <1>1 DEF Front
<1>3. \A k \in 1 .. Len(s) - 1 : k \in 1 .. Len(s) /\ k # Len(s)
  BY <1>1
<1>4. Len(s) \in 1 .. Len(s)
  BY <1>1
<1>5. \A k \in 1 .. Len(s) - 1 : Front(s)[k] # s[Len(s)]
  BY <1>2, <1>3, <1>4
<1> QED BY <1>2, <1>5 DEF ToSet, Last

LEMMA ActiveItem ==
  ASSUME NEW u, Proper(u), NEW v \in VM, FunctionsTyped(v),
         NEW m \in Seq((1 .. Len(v.natives)) \cup {None}),
         NEW i \in 1 .. AfterActive(u) + 1, Written(u)[i][1] = "active",
         NEW slot \in Slots, IsCoroutine(v, slot),
         v.active # <<>> => Last(v.active) \notin ToSet(Front(v.active)),
         Sane(u, v, m, i - 1)
  PROVE  LET n == [v EXCEPT
                     !.active = Append(@, slot),
                     !.contexts[slot].state = "running",
                     !.errors = IF v.contexts[slot].state # "running"
                                THEN @ + 1 ELSE @]
         IN  /\ Loads(u, v, n, m, m, i)
             /\ /\ Written(u)[i] = <<"active", slot, "coroutine">>
                /\ Faithful(u, v, i - 1)
                => Faithful(u, n, i)
<1> DEFINE n == [v EXCEPT
                   !.active = Append(@, slot),
                   !.contexts[slot].state = "running",
                   !.errors = IF v.contexts[slot].state # "running"
                              THEN @ + 1 ELSE @]
           a == Append(v.active, slot)
           x == [v.contexts[slot] EXCEPT !.state = "running"]
           c == [v.contexts EXCEPT ![slot] = x]
           e == IF v.contexts[slot].state # "running" THEN v.errors + 1 ELSE v.errors
           v1 == [v EXCEPT !.active = a]
           v2 == [v1 EXCEPT !.contexts = c]
           v3 == [v2 EXCEPT !.errors = e]
<1>1. u \in VM
  BY DEF Proper
<1>2. /\ i \in Nat \ {0} /\ 1 < i
      /\ NativesBy(u, i) = NativesBy(u, i - 1)
      /\ FunctionsBy(u, i) = FunctionsBy(u, i - 1)
      /\ StringsBy(u, i) = StringsBy(u, i - 1)
      /\ ObjectsBy(u, i) = ObjectsBy(u, i - 1)
      /\ ContextsBy(u, i) = ContextsBy(u, i - 1)
      /\ ContextsBy(u, i - 1) = Cardinality(Used(u.contexts))
  BY <1>1, ChainAt
<1>3. Used(v.contexts) = Coroutines(v)
  BY EachHasContext
<1>4. /\ v.contexts \in [Slots -> Context \cup {None}] /\ v.errors \in Nat
      /\ v.active \in Seq(Slots)
  BY FieldsAre
<1>5. v.contexts[slot] # None /\ v.contexts[slot] \in Context
  <2>1. slot \in Coroutines(v)
    BY DEF Coroutines
  <2>2. v.contexts[slot] # None
    BY <1>3, <2>1 DEF Used
  <2> QED BY <1>4, <2>2
<1>6. /\ x \in Context /\ x.state = "running"
      /\ v.contexts[slot].state = "running" => x = v.contexts[slot]
  BY <1>5 DEF Context, States
<1>7. x # None
  BY <1>6, Constants
<1>8. e \in Nat
  BY <1>4
<1>9. n = v3
  BY <1>4 DEF VM
<1> HIDE DEF x, n
<1>10. /\ c \in [Slots -> Context \cup {None}]
       /\ \A s \in Slots : c[s] = IF s = slot THEN x ELSE v.contexts[s]
  BY <1>4, <1>6
<1>11. /\ a \in Seq(Slots) /\ Len(a) = Len(v.active) + 1 /\ Len(v.active) \in Nat
       /\ \A j \in 1 .. Len(v.active) + 1 :
            a[j] = IF j = Len(v.active) + 1 THEN slot ELSE v.active[j]
  BY <1>4
<1> HIDE DEF a, c, e
<1>12. /\ v1 \in VM /\ v1.active = a /\ v1.errors = v.errors
       /\ v1.strings = v.strings /\ v1.natives = v.natives
       /\ v1.functions = v.functions /\ v1.objects = v.objects
       /\ v1.contexts = v.contexts
  BY <1>11, SetActive
<1> HIDE DEF v1
<1>13. /\ v2 \in VM /\ v2.active = a /\ v2.errors = v.errors
       /\ v2.strings = v.strings /\ v2.natives = v.natives
       /\ v2.functions = v.functions /\ v2.objects = v.objects
       /\ v2.contexts = c
  BY <1>10, <1>12, SetContexts
<1> HIDE DEF v2
<1>14. /\ n \in VM /\ n.active = a /\ n.errors = e
       /\ n.strings = v.strings /\ n.natives = v.natives
       /\ n.functions = v.functions /\ n.objects = v.objects
       /\ n.contexts = c
  BY <1>8, <1>9, <1>13, SetErrors
<1> HIDE DEF v3
<1>15. NamesSame(v, n) /\ FunctionsTyped(n)
  BY <1>14 DEF NamesSame, FunctionsTyped
<1>16. Sane(u, n, m, i)
  <2>1. ContextsAdd(u, n, i)
    <3>1. Coroutines(n) = Coroutines(v)
      BY <1>14 DEF Coroutines, IsCoroutine
    <3>2. Used(n.contexts) = Used(v.contexts)
      BY <1>5, <1>7, <1>10, <1>14 DEF Used
    <3> QED BY <1>2, <3>1, <3>2 DEF Sane, ContextsAdd
  <2>2. ChainGrows(u, n, i)
    <3>1. ~ (i <= AfterContexts(u))
      <4>1. AfterContexts(u) < i
        BY <1>1, BeforeActive
      <4> QED BY <1>1, <1>2, <4>1, Bounds
    <3>2. /\ \A j, k \in 1 .. Len(v.active) - 1 : v.active[j] = v.active[k] => j = k
          /\ \A k \in 1 .. Len(v.active) :
               /\ IsCoroutine(v, v.active[k])
               /\ v.contexts[v.active[k]].state = "running"
      BY DEF Sane, ChainGrows
    <3>3. \A j, k \in 1 .. Len(v.active) : v.active[j] = v.active[k] => j = k
      BY <1>4, <3>2, NoneTwice
    <3>4. Len(n.active) - 1 = Len(v.active)
      BY <1>11, <1>14
    <3>5. \A j \in 1 .. Len(v.active) : j \in 1 .. Len(v.active) + 1 /\ j # Len(v.active) + 1
      BY <1>11
    <3>6. \A j, k \in 1 .. Len(n.active) - 1 : n.active[j] = n.active[k] => j = k
      BY SMTT(20), ZenonT(30), <1>11, <1>14, <3>3, <3>4, <3>5
    <3>7. \A k \in 1 .. Len(n.active) :
            /\ n.active[k] \in Slots /\ IsCoroutine(v, n.active[k])
            /\ n.active[k] # slot => v.contexts[n.active[k]].state = "running"
      <4> TAKE k \in 1 .. Len(n.active)
      <4>1. k \in 1 .. Len(v.active) + 1
        BY <1>11, <1>14
      <4>2. n.active[k] = IF k = Len(v.active) + 1 THEN slot ELSE v.active[k]
        BY <1>11, <1>14, <4>1
      <4>3. k # Len(v.active) + 1 => k \in 1 .. Len(v.active) /\ v.active[k] \in Slots
        BY <1>4, <1>11, <4>1
      <4> QED BY <3>2, <4>2, <4>3
    <3>8. \A k \in 1 .. Len(n.active) :
            /\ IsCoroutine(n, n.active[k])
            /\ n.contexts[n.active[k]].state = "running"
      BY <1>6, <1>10, <1>14, <3>7 DEF IsCoroutine
    <3> QED BY <3>1, <3>6, <3>8 DEF ChainGrows
  <2>3. MappedByName(u, n, m, i)
    BY <1>1, <1>2, <1>14, <1>15, MappedCarry DEF Sane
  <2> QED BY <2>1, <2>2, <2>3 DEF Sane
<1>17. ASSUME Written(u)[i] = <<"active", slot, "coroutine">>, Faithful(u, v, i - 1)
       PROVE  Faithful(u, n, i)
  <2>1. PICK k \in 1 .. Len(u.active) :
          /\ Written(u)[i] = <<"active", u.active[k], "coroutine">>
          /\ ActiveBy(u, i) = k /\ ActiveBy(u, i - 1) = k - 1
    <3>1. Written(u)[i][3] = "coroutine"
      BY <1>17
    <3> QED BY <1>1, <3>1, ActiveAt
  <2>2. slot = u.active[k]
    BY <1>17, <2>1
  <2>3. u.contexts[slot].state = "running"
    <3>1. k \in DOMAIN u.active
      BY <1>1, FieldsAre
    <3> QED BY <2>2, <3>1 DEF Proper
  <2>4. v.contexts[slot] = u.contexts[slot]
    <3>1. v.contexts[slot] =
            IF slot \in First(Used(u.contexts), ContextsBy(u, i - 1))
            THEN u.contexts[slot] ELSE None
      BY <1>17 DEF Faithful, ContextsRead
    <3> QED BY <1>5, <3>1
  <2>5. n.contexts = v.contexts
    <3>1. \A s \in Slots : c[s] = v.contexts[s]
      BY <1>6, <1>10, <2>3, <2>4
    <3> QED BY <1>4, <1>10, <1>14, <3>1
  <2>6. n.errors = v.errors
    BY <1>14, <2>3, <2>4 DEF e
  <2>7. /\ StringsRead(u, n, i) /\ ObjectsRead(u, n, i) /\ ContextsRead(u, n, i)
        /\ ErrorsRead(u, n, i)
    BY <1>1, <1>2, <1>14, <1>17, <2>5, <2>6, FaithfulCarry DEF Faithful
  <2>8. FunctionsRead(u, n, i)
    BY <1>1, <1>2, <1>14, <1>15, <1>17, FunctionsCarry DEF Faithful
  <2>9. ActiveRead(u, n, i)
    <3>1. /\ Len(v.active) = k - 1
          /\ \A j \in 1 .. Len(v.active) : v.active[j] = u.active[j]
      BY <1>17, <2>1 DEF Faithful, ActiveRead
    <3>2. Len(v.active) + 1 = k
      <4>1. k \in Nat
        BY <1>1, FieldsAre
      <4> QED BY <3>1, <4>1
    <3>3. Len(n.active) = k /\ \A j \in 1 .. k : n.active[j] = u.active[j]
      <4>1. Len(n.active) = k
        BY <1>11, <1>14, <3>2
      <4>2. ASSUME NEW j \in 1 .. k PROVE n.active[j] = u.active[j]
        <5>1. j \in 1 .. Len(v.active) + 1 /\ (j # k => j \in 1 .. Len(v.active))
          BY <1>11, <3>2
        <5> QED BY <1>11, <1>14, <2>2, <3>1, <3>2, <5>1
      <4> QED BY <4>1, <4>2
    <3> QED BY <2>1, <3>3 DEF ActiveRead
  <2> QED BY <2>7, <2>8, <2>9 DEF Faithful
<1>18. m \in Seq((1 .. Len(n.natives)) \cup {None})
  BY <1>14
<1> QED BY <1>14, <1>15, <1>16, <1>17, <1>18 DEF Loads, n

-----------------------------------------------------------------------------
(* The end of a load, and what a stream that is not damaged is refused for.  *)

LEMMA LoadedIsProper ==
  ASSUME NEW u, Proper(u), NEW v \in VM, FunctionsTyped(v), NEW m,
         NEW i \in 1 .. AfterActive(u) + 1, Written(u)[i][1] = "active",
         v.active # <<>> => Last(v.active) \notin ToSet(Front(v.active)),
         Sane(u, v, m, i - 1)
  PROVE  Proper(v)
<1>1. Used(v.contexts) = Coroutines(v)
  BY EachHasContext
<1>2. \A s \in Slots : v.contexts[s] # None <=> IsCoroutine(v, s)
  BY <1>1 DEF Used, Coroutines
<1>3. v.active \in Seq(Slots) /\ DOMAIN v.active = 1 .. Len(v.active)
  BY FieldsAre
<1>4. /\ \A j, k \in 1 .. Len(v.active) - 1 : v.active[j] = v.active[k] => j = k
      /\ \A k \in 1 .. Len(v.active) :
           /\ IsCoroutine(v, v.active[k])
           /\ v.contexts[v.active[k]].state = "running"
  BY DEF Sane, ChainGrows
<1>5. IsInjective(v.active)
  BY <1>3, <1>4, NoneTwice
<1> QED BY <1>2, <1>3, <1>4, <1>5 DEF Proper, FunctionsTyped

LEMMA LoadedByName ==
  ASSUME NEW u, NEW v \in VM, NEW p, Faithful(u, v, p)
  PROVE  \A f \in DOMAIN v.functions :
           NativeName(v, v.functions[f]) = NativeName(u, u.functions[f])
<1>1. DOMAIN v.functions = 1 .. Len(v.functions)
  BY DEF VM
<1> QED BY <1>1 DEF Faithful, FunctionsRead

LEMMA StringFits ==
  ASSUME NEW u \in VM, NEW v \in VM, NEW i \in 1 .. AfterActive(u) + 1,
         Written(u)[i][1] = "string", Faithful(u, v, i - 1)
  PROVE  Written(u)[i][2] \in Slots /\ v.strings[Written(u)[i][2]] = None
<1> DEFINE used == Used(u.strings)
<1>1. PICK k \in 1 .. Cardinality(used) :
        /\ Written(u)[i] = <<"string", Nth(used, k), u.strings[Nth(used, k)]>>
        /\ StringsBy(u, i - 1) = k - 1
  BY StringAt
<1>2. used \in SUBSET Slots
  BY DEF Used
<1>3. Nth(used, k) \notin First(used, k - 1) /\ Nth(used, k) \in Slots
  BY <1>2, FirstIs
<1>4. v.strings[Nth(used, k)] =
        IF Nth(used, k) \in First(Used(u.strings), StringsBy(u, i - 1))
        THEN u.strings[Nth(used, k)] ELSE None
  BY <1>3 DEF Faithful, StringsRead
<1> QED BY <1>1, <1>3, <1>4

LEMMA ObjectFits ==
  ASSUME NEW u \in VM, NEW v \in VM, NEW i \in 1 .. AfterActive(u) + 1,
         Written(u)[i][1] = "object", Faithful(u, v, i - 1)
  PROVE  Written(u)[i][2] \in Slots /\ v.objects[Written(u)[i][2]] = None
<1> DEFINE used == Used(u.objects)
<1>1. PICK k \in 1 .. Cardinality(used) :
        /\ Written(u)[i] =
             <<"object", Nth(used, k), Listed(u.objects[Nth(used, k)])>>
        /\ ObjectsBy(u, i - 1) = k - 1
  BY ObjectAt
<1>2. used \in SUBSET Slots
  BY DEF Used
<1>3. Nth(used, k) \notin First(used, k - 1) /\ Nth(used, k) \in Slots
  BY <1>2, FirstIs
<1>4. v.objects[Nth(used, k)] # None <=>
        Nth(used, k) \in First(Used(u.objects), ObjectsBy(u, i - 1))
  BY <1>3 DEF Faithful, ObjectsRead
<1> QED BY <1>1, <1>3, <1>4

(* All objects are read, so it is known which of them are coroutines.        *)
LEMMA CoroutinesSame ==
  ASSUME NEW u, NEW v, NEW p, Faithful(u, v, p),
         ObjectsBy(u, p) = Cardinality(Used(u.objects))
  PROVE  \A s \in Slots : IsCoroutine(v, s) <=> IsCoroutine(u, s)
<1>1. First(Used(u.objects), ObjectsBy(u, p)) = Used(u.objects)
  <2>1. Used(u.objects) \in SUBSET Slots
    BY DEF Used
  <2> QED BY <2>1, FirstIs
<1>2. \A s \in Slots :
        /\ v.objects[s] # None <=> s \in Used(u.objects)
        /\ s \in Used(u.objects) => v.objects[s].type = u.objects[s].type
  BY <1>1 DEF Faithful, ObjectsRead
<1>3. \A s \in Slots : s \in Used(u.objects) <=> u.objects[s] # None
  BY DEF Used
<1> QED BY <1>2, <1>3 DEF IsCoroutine

Pending(v) == {s \in Slots : IsCoroutine(v, s) /\ v.contexts[s] = None}

LEMMA PendingIs ==
  ASSUME NEW u, Proper(u), NEW v \in VM, NEW i \in 1 .. AfterActive(u) + 1,
         Written(u)[i][1] = "context", Faithful(u, v, i - 1)
  PROVE  /\ Pending(v) # {}
         /\ Written(u)[i][2] \in Pending(v)
         /\ \A s \in Pending(v) : Written(u)[i][2] <= s
<1> DEFINE used == Used(u.contexts)
<1>1. u \in VM
  BY DEF Proper
<1>2. PICK k \in 1 .. Cardinality(used) :
        /\ Written(u)[i] = <<"context", Nth(used, k), u.contexts[Nth(used, k)]>>
        /\ ContextsBy(u, i - 1) = k - 1
        /\ ObjectsBy(u, i - 1) = Cardinality(Used(u.objects))
  BY <1>1, ContextAt
<1>3. used \in SUBSET Slots
  BY DEF Used
<1>4. /\ Nth(used, k) \in used /\ Nth(used, k) \notin First(used, k - 1)
      /\ \A s \in used \ First(used, k - 1) : Nth(used, k) <= s
  BY <1>3, FirstIs
<1>5. \A s \in Slots : IsCoroutine(v, s) <=> s \in used
  <2>1. \A s \in Slots : IsCoroutine(v, s) <=> IsCoroutine(u, s)
    BY <1>2, CoroutinesSame
  <2> QED BY <2>1 DEF Proper, Used
<1>6. \A s \in Slots : v.contexts[s] =
        IF s \in First(used, k - 1) THEN u.contexts[s] ELSE None
  BY <1>2 DEF Faithful, ContextsRead
<1>7. Pending(v) = used \ First(used, k - 1)
  <2>1. \A s \in used : u.contexts[s] # None /\ s \in Slots
    BY DEF Used
  <2> QED BY <1>3, <1>5, <1>6, <2>1 DEF Pending
<1> QED BY <1>2, <1>4, <1>7

LEMMA LeastPending ==
  ASSUME NEW v, Pending(v) # {}
  PROVE  LET slot == CHOOSE s \in Pending(v) : \A t \in Pending(v) : s <= t IN
         /\ slot \in Slots /\ IsCoroutine(v, slot) /\ v.contexts[slot] = None
         /\ \A s \in Pending(v) : (\A t \in Pending(v) : s <= t) => s = slot
<1>1. Pending(v) \in SUBSET Nat
  BY Constants DEF Pending
<1>2. \E s \in Pending(v) : \A t \in Pending(v) : s <= t
  BY <1>1, SmallestNat
<1> DEFINE slot == CHOOSE s \in Pending(v) : \A t \in Pending(v) : s <= t
<1>3. slot \in Pending(v) /\ \A t \in Pending(v) : slot <= t
  BY <1>2
<1> HIDE DEF slot
<1>4. ASSUME NEW s \in Pending(v), \A t \in Pending(v) : s <= t PROVE s = slot
  <2>1. s <= slot /\ slot <= s
    BY <1>3, <1>4
  <2>2. s \in Nat /\ slot \in Nat
    BY <1>1, <1>3
  <2> QED BY <2>1, <2>2
<1> QED BY <1>3, <1>4 DEF Pending, slot

(* A chain that was one is one as far as it is read.                         *)
LEMMA ChainFits ==
  ASSUME NEW u, Proper(u), NEW v \in VM, NEW p, Faithful(u, v, p),
         ActiveBy(u, p) \in 0 .. Len(u.active)
  PROVE  v.active # <<>> => Last(v.active) \notin ToSet(Front(v.active))
<1>1. /\ u \in VM /\ IsInjective(u.active)
  BY DEF Proper
<1>2. /\ Len(v.active) \in 0 .. Len(u.active)
      /\ \A k \in 1 .. Len(v.active) : v.active[k] = u.active[k]
  BY DEF Faithful, ActiveRead
<1>3. \A j, k \in 1 .. Len(u.active) : u.active[j] = u.active[k] => j = k
  <2>1. DOMAIN u.active = 1 .. Len(u.active)
    BY <1>1, FieldsAre
  <2> QED BY <1>1, <2>1 DEF IsInjective
<1>4. \A k \in 1 .. Len(v.active) : k \in 1 .. Len(u.active)
  <2>1. Len(u.active) \in Nat
    BY <1>1, FieldsAre
  <2> QED BY <1>2, <2>1
<1>5. \A j, k \in 1 .. Len(v.active) : v.active[j] = v.active[k] => j = k
  BY <1>2, <1>3, <1>4
<1>6. v.active \in Seq(Slots)
  BY FieldsAre
<1> QED BY <1>5, <1>6, LastIsNew

LEMMA ActiveFits ==
  ASSUME NEW u, Proper(u), NEW v \in VM, NEW i \in 1 .. AfterActive(u) + 1,
         Written(u)[i][1] = "active", Faithful(u, v, i - 1)
  PROVE  /\ v.active # <<>> => Last(v.active) \notin ToSet(Front(v.active))
         /\ Written(u)[i][3] = "coroutine" =>
              /\ Written(u)[i][2] \in Slots
              /\ IsCoroutine(v, Written(u)[i][2])
              /\ Written(u)[i] = <<"active", Written(u)[i][2], "coroutine">>
<1>1. u \in VM
  BY DEF Proper
<1>2. i \in Nat \ {0} /\ ObjectsBy(u, i - 1) = Cardinality(Used(u.objects))
  BY <1>1, ChainAt
<1>3. ActiveBy(u, i - 1) \in 0 .. Len(u.active)
  BY <1>1, <1>2, ByIs DEF Progress
<1>4. v.active # <<>> => Last(v.active) \notin ToSet(Front(v.active))
  BY <1>3, ChainFits
<1>5. ASSUME Written(u)[i][3] = "coroutine"
      PROVE  /\ Written(u)[i][2] \in Slots
             /\ IsCoroutine(v, Written(u)[i][2])
             /\ Written(u)[i] = <<"active", Written(u)[i][2], "coroutine">>
  <2>1. PICK k \in 1 .. Len(u.active) :
          Written(u)[i] = <<"active", u.active[k], "coroutine">>
    BY <1>1, <1>5, ActiveAt
  <2>2. k \in DOMAIN u.active /\ u.active[k] \in Slots
    BY <1>1, FieldsAre
  <2>3. IsCoroutine(u, u.active[k])
    BY <2>2 DEF Proper
  <2>4. IsCoroutine(v, u.active[k])
    BY <1>2, <2>2, <2>3, CoroutinesSame
  <2> QED BY <2>1, <2>2, <2>4
<1> QED BY <1>4, <1>5

(* What a host lacks, of what a VM needs to be loaded.                       *)
Lacks(u, v) ==
  \/ v.types # u.types
  \/ \E s \in ToSet(u.subsystems) : \A t \in ToSet(v.subsystems) : s.name # t.name
  \/ \E f \in DOMAIN u.functions :
       /\ u.functions[f] # None
       /\ \A n \in DOMAIN v.natives :
            v.natives[n].name # NativeName(u, u.functions[f])

LEMMA FunctionFits ==
  ASSUME NEW u, Proper(u), NEW v \in VM,
         NEW m \in Seq((1 .. Len(v.natives)) \cup {None}),
         NEW i \in 1 .. AfterActive(u) + 1, Written(u)[i][1] = "function",
         Sane(u, v, m, i - 1), Written(u)[i][3] # None
  PROVE  /\ Written(u)[i][3] \in 1 .. Len(m)
         /\ m[Written(u)[i][3]] = None => Lacks(u, v)
         /\ m[Written(u)[i][3]] # None =>
              /\ m[Written(u)[i][3]] \in DOMAIN v.natives
              /\ NativeName(v, m[Written(u)[i][3]]) = NativeName(u, Written(u)[i][3])
<1>1. u \in VM
  BY DEF Proper
<1>2. PICK k \in 1 .. Len(u.functions) :
        /\ Written(u)[i] = <<"function", k, u.functions[k]>>
        /\ NativesBy(u, i - 1) = Len(u.natives)
  BY <1>1, FunctionAt
<1>3. /\ Len(m) = Len(u.natives)
      /\ \A n \in 1 .. Len(m) :
           /\ m[n] # None => v.natives[m[n]].name = u.natives[n].name
           /\ m[n] = None =>
                \A j \in DOMAIN v.natives : v.natives[j].name # u.natives[n].name
  BY <1>2 DEF Sane, MappedByName
<1>4. /\ k \in DOMAIN u.functions /\ u.functions[k] # None
      /\ u.functions[k] \in DOMAIN u.natives
  <2>1. u.functions \in Seq((DOMAIN u.natives) \cup {None})
    BY DEF Proper
  <2> QED BY <1>2, <2>1
<1>5. u.functions[k] \in 1 .. Len(m)
  BY <1>1, <1>3, <1>4, DomainIs
<1>6. NativeName(u, u.functions[k]) = u.natives[u.functions[k]].name
  BY <1>4 DEF NativeName
<1>7. m[u.functions[k]] = None => Lacks(u, v)
  BY <1>3, <1>4, <1>5, <1>6 DEF Lacks
<1>8. m[u.functions[k]] # None =>
        /\ m[u.functions[k]] \in DOMAIN v.natives
        /\ NativeName(v, m[u.functions[k]]) = NativeName(u, u.functions[k])
  BY SMTT(20), ZenonT(30), <1>3, <1>5, <1>6, DomainIs DEF NativeName
<1> QED BY <1>2, <1>5, <1>7, <1>8

(* What the other parts hold.                                                *)
LEMMA RestIs ==
  ASSUME NEW u, Proper(u), NEW i \in 1 .. AfterActive(u) + 1
  PROVE  /\ DOMAIN Written(u)[i] = 1 .. 3 /\ Written(u)[i][1] \in Parts
         /\ Written(u)[i][1] = "errors" => Written(u)[i][3] = u.errors
         /\ Written(u)[i][1] = "statics" => Written(u)[i][3] = u.statics
         /\ Written(u)[i][1] = "root" => Written(u)[i][3] = u.root
         /\ Written(u)[i][1] = "globals" => Written(u)[i][3] = u.globals
         /\ Written(u)[i][1] = "types" => Written(u)[i][3] = u.types
         /\ Written(u)[i][1] = "subsystem" =>
              /\ Written(u)[i][3] \in ToSet(u.subsystems)
              /\ Written(u)[i][3] \in [name : Names, data : Values]
         /\ Written(u)[i][1] = "function" =>
              Written(u)[i][3] \in (Nat \ {0}) \cup {None}
         /\ Written(u)[i][1] = "active" =>
              Written(u)[i][3] \in {"coroutine", "root"}
<1>0. u \in VM
  BY DEF Proper
<1>1. ItemCases(u, i, Written(u)[i])
  BY <1>0, ItemIs
<1>2. /\ DOMAIN u.subsystems = 1 .. Len(u.subsystems)
      /\ \A k \in 1 .. Len(u.subsystems) :
           u.subsystems[k] \in [name : Names, data : Values]
  <2>1. \A S : \A s \in Seq(S) :
          DOMAIN s = 1 .. Len(s) /\ \A k \in 1 .. Len(s) : s[k] \in S
    OBVIOUS
  <2>2. u.subsystems \in Seq([name : Names, data : Values])
    BY <1>0, FieldsAre
  <2> QED BY <2>1, <2>2
<1>3. \A k \in 1 .. Len(u.functions) :
        u.functions[k] \in (Nat \ {0}) \cup {None}
  <2>1. u.functions \in Seq((DOMAIN u.natives) \cup {None})
    BY DEF Proper
  <2>2. \A n \in DOMAIN u.natives : n \in Nat \ {0}
    BY <1>0, DomainIs
  <2>3. \A k \in 1 .. Len(u.functions) :
          u.functions[k] \in (DOMAIN u.natives) \cup {None}
    BY <2>1
  <2> QED BY <2>2, <2>3
<1>4. ASSUME Written(u)[i][1] = "subsystem"
      PROVE  /\ Written(u)[i][3] \in ToSet(u.subsystems)
             /\ Written(u)[i][3] \in [name : Names, data : Values]
  <2>1. PICK k \in 1 .. Len(u.subsystems) :
          Written(u)[i] = <<"subsystem", k, u.subsystems[k]>>
    BY <1>1, <1>4 DEF ItemCases
  <2> QED BY <1>2, <2>1 DEF ToSet
<1>5. ASSUME Written(u)[i][1] = "function"
      PROVE  Written(u)[i][3] \in (Nat \ {0}) \cup {None}
  <2>1. PICK k \in 1 .. Len(u.functions) :
          Written(u)[i] = <<"function", k, u.functions[k]>>
    BY <1>1, <1>5 DEF ItemCases
  <2> QED BY <1>3, <2>1
<1>6. ASSUME Written(u)[i][1] = "active"
      PROVE  Written(u)[i][3] \in {"coroutine", "root"}
  <2>1. \/ \E k \in 1 .. Len(u.active) :
             Written(u)[i] = <<"active", u.active[k], "coroutine">>
        \/ Written(u)[i] = <<"active", 0, "root">>
    BY <1>1, <1>6 DEF ItemCases
  <2> QED BY <2>1
<1>7. /\ Written(u)[i][1] = "errors" => Written(u)[i][3] = u.errors
      /\ Written(u)[i][1] = "statics" => Written(u)[i][3] = u.statics
      /\ Written(u)[i][1] = "root" => Written(u)[i][3] = u.root
      /\ Written(u)[i][1] = "globals" => Written(u)[i][3] = u.globals
      /\ Written(u)[i][1] = "types" => Written(u)[i][3] = u.types
  BY <1>1 DEF ItemCases
<1>8. DOMAIN Written(u)[i] = 1 .. 3 /\ Written(u)[i][1] \in Parts
  <2>1. \E part \in Parts : \E a, b : Written(u)[i] = <<part, a, b>>
    BY <1>1, Zenon DEF ItemCases, Parts
  <2> QED BY <2>1
<1> QED BY <1>4, <1>5, <1>6, <1>7, <1>8

-----------------------------------------------------------------------------
(* The stream, as it is written and as it is damaged.                        *)

LEMMA LenOf ==
  ASSUME NEW n \in Nat, NEW s, DOMAIN s = 1 .. n, s = [j \in 1 .. n |-> s[j]]
  PROVE  Len(s) = n
<1> DEFINE S == {s[j] : j \in 1 .. n}
<1>1. s \in [1 .. n -> S]
  OBVIOUS
<1> HIDE DEF S
<1>2. s \in Seq(S)
  BY <1>1, SeqDef
<1> QED BY <1>2

LEMMA WrittenIsKept ==
  ASSUME NEW u, Proper(u), NEW d
  PROVE  Kept(u, Written(u), d)
<1>1. u \in VM
  BY DEF Proper
<1> DEFINE w == Written(u)
<1>2. w \in Seq(Items) /\ Len(w) = AfterActive(u) + 1
  BY <1>1, ItemIs
<1> HIDE DEF w
<1>3. DOMAIN w = 1 .. AfterActive(u) + 1
  BY <1>2
<1> QED BY <1>2, <1>3, RestIs DEF Kept, w

(* Items that differ in one position alone.                                  *)
Altered(s, i, j, x) == [s EXCEPT ![i][j] = x]

LEMMA OneChanged ==
  ASSUME NEW u, Proper(u), NEW s, Kept(u, s, FALSE),
         NEW i \in DOMAIN s, NEW j \in {2, 3}, NEW x,
         j = 2 => s[i][1] \in {"string", "object", "active"},
         j = 3 => \/ s[i][1] = "function" /\ x \in Nat \ {0}
                  \/ s[i][1] = "active" /\ x \in {"coroutine", "root"}
  PROVE  Kept(u, Altered(s, i, j, x), TRUE)
<1> DEFINE n == AfterActive(u) + 1
           y == [s[i] EXCEPT ![j] = x]
           t == [s EXCEPT ![i] = y]
<1>1. u \in VM
  BY DEF Proper
<1>2. n \in Nat
  BY <1>1, CountsAre DEF Offsets
<1>3. /\ DOMAIN s = 1 .. n /\ s = Written(u)
      /\ \A k \in 1 .. n :
           /\ DOMAIN s[k] = 1 .. 3 /\ s[k][1] = Written(u)[k][1]
           /\ s[k][1] \notin {"function", "active"} => s[k][3] = Written(u)[k][3]
           /\ s[k][1] = "function" => s[k][3] \in (Nat \ {0}) \cup {None}
           /\ s[k][1] = "active" => s[k][3] \in {"coroutine", "root"}
  BY DEF Kept
<1> HIDE DEF n
<1>4. /\ DOMAIN y = 1 .. 3 /\ y[1] = s[i][1]
      /\ y[3] = IF j = 3 THEN x ELSE s[i][3]
  BY <1>3
<1> HIDE DEF y
<1>5. /\ DOMAIN t = 1 .. n /\ t = [k \in 1 .. n |-> t[k]]
      /\ \A k \in 1 .. n : t[k] = IF k = i THEN y ELSE s[k]
  BY <1>3
<1>6. t = Altered(s, i, j, x)
  BY DEF y, Altered
<1> HIDE DEF t
<1>7. Len(t) = n
  BY <1>2, <1>5, LenOf
<1>8. ASSUME NEW k \in 1 .. n
      PROVE  /\ DOMAIN t[k] = 1 .. 3 /\ t[k][1] = Written(u)[k][1]
             /\ t[k][1] \notin {"function", "active"} => t[k][3] = Written(u)[k][3]
             /\ t[k][1] = "function" => t[k][3] \in (Nat \ {0}) \cup {None}
             /\ t[k][1] = "active" => t[k][3] \in {"coroutine", "root"}
  <2>1. CASE k # i
    BY <1>3, <1>5, <2>1
  <2>2. CASE k = i
    <3>1. t[k] = y
      BY <1>5, <2>2
    <3>2. CASE j = 2
      BY <1>3, <1>4, <2>2, <3>1, <3>2
    <3>3. CASE j = 3
      BY <1>3, <1>4, <2>2, <3>1, <3>3
    <3> QED BY <3>2, <3>3
  <2> QED BY <2>1, <2>2
<1> QED BY <1>5, <1>6, <1>7, <1>8 DEF Kept, n

-----------------------------------------------------------------------------
(* The VM that a load begins with.                                           *)

LEMMA FreshIs ==
  ASSUME NEW host \in Hosts
  PROVE  LET v == Fresh(host) IN
         /\ v \in VM /\ v.errors = 0 /\ v.strings = Nothing
         /\ v.objects = Nothing /\ v.contexts = Nothing
         /\ v.functions = <<>> /\ v.active = <<>>
<1> DEFINE natives == [i \in DOMAIN host.natives |->
                         [name |-> host.natives[i], function |-> None]]
           subsystems == [i \in DOMAIN host.subsystems |->
                            [name |-> host.subsystems[i], data |-> Nil]]
<1>1. /\ host.natives \in Seq(Names) /\ host.types \in Seq(Names)
      /\ host.subsystems \in Seq(Names)
  BY SaveAssumption
<1>2. \A s \in Seq(Names) :
        /\ Len(s) \in Nat /\ DOMAIN s = 1 .. Len(s)
        /\ \A i \in 1 .. Len(s) : s[i] \in Names
  OBVIOUS
<1>3. natives \in Seq(Native)
  <2>1. natives \in [1 .. Len(host.natives) -> Native]
    BY <1>1, <1>2 DEF Native
  <2> HIDE DEF natives
  <2>2. Len(host.natives) \in Nat
    BY <1>1
  <2> QED BY <2>1, <2>2, SeqDef
<1>4. subsystems \in Seq([name : Names, data : Values])
  <2>1. Nil \in Values
    BY Constants DEF Values
  <2>2. subsystems \in [1 .. Len(host.subsystems) -> [name : Names, data : Values]]
    BY <1>1, <1>2, <2>1
  <2> HIDE DEF subsystems
  <2>3. Len(host.subsystems) \in Nat
    BY <1>1
  <2>4. \A S : \A n \in Nat : \A f \in [1 .. n -> S] : f \in Seq(S)
    BY SeqDef
  <2> QED BY <2>2, <2>3, <2>4
<1>5. /\ Nothing \in [Slots -> Contents \cup {None}]
      /\ Nothing \in [Slots -> Object \cup {None}]
      /\ Nothing \in [Slots -> Context \cup {None}]
  BY DEF Nothing
<1>6. \A S : <<>> \in Seq(S)
  OBVIOUS
<1> HIDE DEF natives, subsystems
<1>7. Fresh(host) =
        [errors |-> 0, statics |-> <<>>, root |-> <<>>,
         strings |-> Nothing, objects |-> Nothing, contexts |-> Nothing,
         natives |-> natives, functions |-> <<>>, globals |-> <<>>,
         types |-> host.types, subsystems |-> subsystems, active |-> <<>>]
  BY DEF Fresh, natives, subsystems
<1>8. Fresh(host) \in VM
  BY <1>1, <1>3, <1>4, <1>5, <1>6, <1>7 DEF VM
<1> QED BY <1>7, <1>8

LEMMA FreshIsSane ==
  ASSUME NEW u \in VM, NEW host \in Hosts
  PROVE  LET v == Fresh(host) IN
         /\ v \in VM /\ FunctionsTyped(v)
         /\ Sane(u, v, <<>>, 0) /\ Faithful(u, v, 0)
<1> DEFINE v == Fresh(host)
<1>1. /\ v \in VM /\ v.errors = 0 /\ v.strings = Nothing
      /\ v.objects = Nothing /\ v.contexts = Nothing
      /\ v.functions = <<>> /\ v.active = <<>>
  BY FreshIs
<1> HIDE DEF v
<1>2. /\ StringsBy(u, 0) = 0 /\ NativesBy(u, 0) = 0 /\ FunctionsBy(u, 0) = 0
      /\ ObjectsBy(u, 0) = 0 /\ ContextsBy(u, 0) = 0 /\ ActiveBy(u, 0) = 0
  <2>1. /\ 0 <= 3 /\ 0 <= AfterStrings(u) /\ 0 <= AfterNatives(u)
        /\ 0 <= AfterFunctions(u) /\ 0 <= AfterSubsystems(u)
        /\ 0 <= AfterContexts(u)
    BY CountsAre DEF Offsets
  <2> QED BY <2>1 DEF StringsBy, NativesBy, FunctionsBy, ObjectsBy, ContextsBy,
                      ActiveBy, Done
<1>3. /\ First(Used(u.strings), 0) = {} /\ First(Used(u.objects), 0) = {}
      /\ First(Used(u.contexts), 0) = {}
  <2>1. \A table : Used(table) \in SUBSET Slots
    BY DEF Used
  <2> QED BY <2>1, FirstIs
<1>4. \A s \in Slots : Nothing[s] = None
  BY DEF Nothing
<1>5. Coroutines(v) = {} /\ Used(v.contexts) = {}
  BY <1>1, <1>4 DEF Coroutines, IsCoroutine, Used
<1>6. ContextsAdd(u, v, 0)
  BY <1>2, <1>3, <1>5, FS_EmptySet DEF ContextsAdd
<1>7. Len(<<>>) = 0 /\ 1 .. 0 = {} /\ 1 .. Len(<<>>) = {} /\ 1 .. Len(<<>>) - 1 = {}
  OBVIOUS
<1>8. ChainGrows(u, v, 0)
  BY <1>1, <1>7 DEF ChainGrows
<1>9. MappedByName(u, v, <<>>, 0)
  BY <1>2, <1>7 DEF MappedByName
<1>10. FunctionsTyped(v)
  BY <1>1 DEF FunctionsTyped
<1>11. Faithful(u, v, 0)
  BY <1>1, <1>2, <1>3, <1>4, <1>7
     DEF Faithful, FunctionsRead, StringsRead, ObjectsRead, ContextsRead,
         ActiveRead, ErrorsRead
<1> QED BY <1>1, <1>6, <1>8, <1>9, <1>10, <1>11 DEF Sane, v

-----------------------------------------------------------------------------
(* The steps.                                                                *)

LEMMA InitKeeps ==
  ASSUME Init
  PROVE  IInv
<1>1. Proper(vm) /\ Proper(saved)
  BY RunningAssumption DEF Init
<1>2. \A S : <<>> \in Seq(S) /\ Len(<<>>) = 0 /\ 1 \in 1 .. 0 + 1
  OBVIOUS
<1>3. Typed
  BY <1>1, <1>2 DEF Init, Typed, Proper, FunctionsTyped, Outside
<1>4. phase = "running" /\ stream = <<>>
  BY DEF Init
<1> QED BY <1>1, <1>3, <1>4
        DEF IInv, FunctionsByName, SavedIsLoadable

LEMMA SaveKeeps ==
  ASSUME IInv, Save
  PROVE  IInv'
<1>1. /\ phase \in Outside /\ stream' = Written(vm) /\ saved' = vm
      /\ damaged' = FALSE /\ position' = 1 /\ mapping' = <<>>
      /\ phase' = "saved" /\ vm' = vm
  BY DEF Save
<1>2. Proper(vm) /\ Typed
  BY <1>1 DEF IInv
<1>3. Kept(vm, Written(vm), FALSE)
  BY <1>2, WrittenIsKept
<1>4. Kept(saved, stream, damaged)'
  BY <1>1, <1>3
<1>5. \A S : <<>> \in Seq(S)
  OBVIOUS
<1>6. 1 \in 1 .. Len(Written(vm)) + 1
  <2>1. Len(Written(vm)) \in Nat
    <3>1. vm \in VM
      BY <1>2 DEF Proper
    <3> QED BY <3>1, ItemIs
  <2> QED BY <2>1
<1>7. Typed'
  BY <1>1, <1>2, <1>5, <1>6 DEF Typed, FunctionsTyped
<1>8. phase' = "saved" /\ Proper(vm)' /\ Proper(saved)'
  BY <1>1, <1>2
<1> QED BY <1>4, <1>7, <1>8 DEF IInv, FunctionsByName, SavedIsLoadable

LEMMA DamageKeeps ==
  ASSUME IInv, Damage
  PROVE  IInv'
<1>1. /\ phase = "saved" /\ damaged = FALSE /\ damaged' = TRUE
      /\ UNCHANGED <<vm, saved, position, mapping, phase>>
  BY DEF Damage, IInv, Typed
<1>2. Proper(saved) /\ Kept(saved, stream, FALSE) /\ Typed /\ Proper(vm)
  BY <1>1 DEF IInv
<1>3. PICK i \in DOMAIN stream :
        \/ /\ stream[i][1] \in {"string", "object", "active"}
           /\ \E slot \in Slots \cup {SlotCount} :
                stream' = [stream EXCEPT ![i][2] = slot]
        \/ /\ stream[i][1] = "active"
           /\ stream' = [stream EXCEPT ![i][3] =
                           IF @ = "root" THEN "coroutine" ELSE "root"]
        \/ /\ stream[i][1] = "function"
           /\ \E n \in 1 .. Len(saved.natives) + 1 :
                stream' = [stream EXCEPT ![i][3] = n]
  BY DEF Damage
<1>n. 2 \in {2, 3} /\ 3 \in {2, 3} /\ 2 # 3
  OBVIOUS
<1>4. Kept(saved, stream', TRUE)
  <2>1. ASSUME stream[i][1] \in {"string", "object", "active"},
               NEW slot, stream' = [stream EXCEPT ![i][2] = slot]
        PROVE  Kept(saved, stream', TRUE)
    <3>1. stream' = Altered(stream, i, 2, slot)
      BY <2>1 DEF Altered
    <3>2. Kept(saved, Altered(stream, i, 2, slot), TRUE)
      BY <1>n, <1>2, <2>1, OneChanged, ZenonT(30)
    <3> QED BY <3>1, <3>2
  <2>2. ASSUME stream[i][1] = "active",
               stream' = [stream EXCEPT ![i][3] =
                            IF @ = "root" THEN "coroutine" ELSE "root"]
        PROVE  Kept(saved, stream', TRUE)
    <3>1. PICK x \in {"coroutine", "root"} : stream' = Altered(stream, i, 3, x)
      BY <2>2 DEF Altered
    <3>2. Kept(saved, Altered(stream, i, 3, x), TRUE)
      BY <1>n, <1>2, <2>2, OneChanged, ZenonT(30)
    <3> QED BY <3>1, <3>2
  <2>3. ASSUME stream[i][1] = "function",
               NEW n \in 1 .. Len(saved.natives) + 1,
               stream' = [stream EXCEPT ![i][3] = n]
        PROVE  Kept(saved, stream', TRUE)
    <3>1. n \in Nat \ {0}
      <4>1. Len(saved.natives) \in Nat
        BY <1>2, DomainIs DEF Proper
      <4> QED BY <4>1
    <3>2. stream' = Altered(stream, i, 3, n)
      BY <2>3 DEF Altered
    <3>3. Kept(saved, Altered(stream, i, 3, n), TRUE)
      BY <1>n, <1>2, <2>3, <3>1, OneChanged, ZenonT(30)
    <3> QED BY <3>2, <3>3
  <2> QED BY <1>3, <2>1, <2>2, <2>3
<1>5. Kept(saved, stream, damaged)'
  BY <1>1, <1>4
<1>6. Typed'
  <2>1. Len(stream') = Len(stream)
    BY <1>2, <1>4 DEF Kept
  <2> QED BY <1>1, <1>2, <2>1 DEF Typed, FunctionsTyped
<1>7. phase' = "saved" /\ Proper(vm)' /\ Proper(saved)'
  BY <1>1, <1>2
<1> QED BY <1>5, <1>6, <1>7 DEF IInv, FunctionsByName, SavedIsLoadable

LEMMA LoadBeginKeeps ==
  ASSUME IInv, NEW host \in Hosts, LoadBegin(host)
  PROVE  IInv'
<1>1. /\ phase \in {"saved", "rejected"} /\ vm' = Fresh(host)
      /\ position' = 1 /\ mapping' = <<>> /\ phase' = "loading"
      /\ UNCHANGED <<saved, stream, damaged>>
  BY DEF LoadBegin
<1>2. Proper(saved) /\ Kept(saved, stream, damaged) /\ Typed
  BY <1>1 DEF IInv
<1>3. /\ Fresh(host) \in VM /\ FunctionsTyped(Fresh(host))
      /\ Sane(saved, Fresh(host), <<>>, 0) /\ Faithful(saved, Fresh(host), 0)
  BY <1>2, FreshIsSane DEF Proper
<1>4. position' - 1 = 0
  BY <1>1
<1>5. Sane(saved, vm, mapping, position - 1)' /\ Faithful(saved, vm, position - 1)'
  BY <1>1, <1>3, <1>4
<1>6. \A S : <<>> \in Seq(S)
  OBVIOUS
<1>7. 1 \in 1 .. Len(stream) + 1
  <2>1. position \in 1 .. Len(stream) + 1 /\ Len(stream) \in Nat
    <3>1. AfterActive(saved) \in Nat
      BY <1>2, CountsAre DEF Offsets, Proper
    <3> QED BY <1>2, <3>1 DEF Typed, Kept
  <2> QED BY <2>1
<1>8. Typed'
  BY <1>1, <1>2, <1>3, <1>6, <1>7 DEF Typed
<1>9. phase' = "loading" /\ Proper(saved)' /\ Kept(saved, stream, damaged)'
  BY <1>1, <1>2
<1> QED BY <1>5, <1>8, <1>9
        DEF IInv, FunctionsByName, SavedIsLoadable, Outside

-----------------------------------------------------------------------------
(* The steps of a load.                                                      *)

(* The item that is read is the one that was written, but for what Damage    *)
(* does.                                                                     *)
LEMMA ReadingIs ==
  ASSUME IInv, phase = "loading", position <= Len(stream)
  PROVE  /\ saved \in VM /\ Proper(saved) /\ vm \in VM /\ FunctionsTyped(vm)
         /\ mapping \in Seq((1 .. Len(vm.natives)) \cup {None})
         /\ position \in 1 .. AfterActive(saved) + 1
         /\ Sane(saved, vm, mapping, position - 1)
         /\ ~damaged => /\ Faithful(saved, vm, position - 1)
                        /\ stream[position] = Written(saved)[position]
         /\ stream[position][1] = Written(saved)[position][1]
         /\ stream[position][1] \notin {"function", "active"} =>
              stream[position][3] = Written(saved)[position][3]
         /\ stream[position][1] = "function" =>
              stream[position][3] \in (Nat \ {0}) \cup {None}
         /\ stream[position][1] = "active" =>
              stream[position][3] \in {"coroutine", "root"}
<1>1. /\ Proper(saved) /\ Typed /\ Kept(saved, stream, damaged)
      /\ Sane(saved, vm, mapping, position - 1)
      /\ ~damaged => Faithful(saved, vm, position - 1)
  BY DEF IInv
<1>2. saved \in VM
  BY <1>1 DEF Proper
<1>3. position \in 1 .. AfterActive(saved) + 1
  <2>1. Len(stream) = AfterActive(saved) + 1 /\ AfterActive(saved) \in Nat
    BY <1>1, <1>2, CountsAre DEF Offsets, Kept
  <2> QED BY <1>1, <2>1 DEF Typed
<1> QED BY <1>1, <1>2, <1>3 DEF Typed, Kept

LEMMA AcceptKeeps ==
  ASSUME IInv, phase = "loading", position <= Len(stream),
         Loads(saved, vm, vm', mapping, mapping', position),
         ~damaged => Faithful(saved, vm', position),
         position' = position + 1, UNCHANGED <<saved, stream, damaged, phase>>
  PROVE  IInv'
<1>1. /\ Proper(saved) /\ Typed /\ Kept(saved, stream, damaged)
      /\ Sane(saved, vm, mapping, position - 1)
  BY DEF IInv
<1>2. /\ vm' \in VM /\ FunctionsTyped(vm')
      /\ mapping' \in Seq((1 .. Len(vm'.natives)) \cup {None})
      /\ Sane(saved, vm', mapping', position)
  BY <1>1 DEF Loads
<1>3. position \in Nat /\ position' \in 1 .. Len(stream) + 1 /\ position' - 1 = position
  <2>1. Len(stream) \in Nat /\ position \in 1 .. Len(stream) + 1
    <3>1. AfterActive(saved) \in Nat
      BY <1>1, CountsAre DEF Offsets, Proper
    <3> QED BY <1>1, <3>1 DEF Typed, Kept
  <2> QED BY <2>1
<1>4. Typed'
  BY <1>1, <1>2, <1>3 DEF Typed
<1>5. /\ Sane(saved, vm, mapping, position - 1)'
      /\ ~damaged' => Faithful(saved, vm, position - 1)'
  BY <1>2, <1>3
<1>6. phase' = "loading" /\ Proper(saved)' /\ Kept(saved, stream, damaged)'
  BY <1>1
<1> QED BY <1>4, <1>5, <1>6
        DEF IInv, FunctionsByName, SavedIsLoadable, Outside

LEMMA RejectKeeps ==
  ASSUME IInv, phase = "loading", Reject, ~damaged => Lacks(saved, vm)
  PROVE  IInv'
<1>1. /\ vm' = [vm EXCEPT !.errors = @ + 1] /\ phase' = "rejected"
      /\ UNCHANGED <<saved, stream, position, mapping, damaged>>
  BY DEF Reject
<1>2. Proper(saved) /\ Typed /\ Kept(saved, stream, damaged)
  BY DEF IInv
<1>3. vm \in VM /\ FunctionsTyped(vm)
  BY <1>2 DEF Typed
<1>4. vm.errors + 1 \in Nat
  BY <1>3, FieldsAre
<1>5. /\ vm' = [vm EXCEPT !.errors = vm.errors + 1]
      /\ vm'.types = vm.types
  BY <1>1, <1>3 DEF VM
<1>6. /\ vm' \in VM /\ vm'.natives = vm.natives /\ vm'.functions = vm.functions
      /\ vm'.subsystems = vm.subsystems
  BY <1>3, <1>4, <1>5, SetErrors
<1>7. Typed'
  BY <1>1, <1>2, <1>6 DEF Typed, FunctionsTyped
<1>8. ~damaged' => Lacking'
  BY <1>1, <1>5, <1>6 DEF Lacking, Lacks
<1>9. phase' = "rejected" /\ Proper(saved)' /\ Kept(saved, stream, damaged)'
  BY <1>1, <1>2
<1> QED BY <1>7, <1>8, <1>9
        DEF IInv, FunctionsByName, SavedIsLoadable, Outside

LEMMA CutShortKeeps ==
  ASSUME IInv, CutShort
  PROVE  IInv'
<1>1. /\ phase = "loading" /\ phase' = "rejected"
      /\ UNCHANGED <<vm, saved, stream, position, mapping, damaged>>
  BY DEF CutShort
<1>2. /\ Proper(saved) /\ Typed /\ Kept(saved, stream, damaged)
      /\ ~damaged => Faithful(saved, vm, position - 1)
  BY <1>1 DEF IInv
<1>3. Typed'
  BY <1>1, <1>2 DEF Typed, FunctionsTyped
<1>4. ~damaged => ~ (vm.errors > saved.errors)
  <2>1. /\ saved.errors \in Nat
        /\ ~damaged => vm.errors = 0 \/ vm.errors = saved.errors
    BY <1>2, FieldsAre DEF Faithful, ErrorsRead, Proper
  <2> QED BY <2>1
<1>5. SavedIsLoadable'
  BY <1>1, <1>4 DEF SavedIsLoadable
<1>6. phase' = "rejected" /\ Proper(saved)' /\ Kept(saved, stream, damaged)'
  BY <1>1, <1>2
<1> QED BY <1>3, <1>5, <1>6 DEF IInv, FunctionsByName, Outside

LEMMA LoadPlainKeeps ==
  ASSUME IInv, LoadPlain
  PROVE  IInv'
<1>1. /\ phase = "loading" /\ position <= Len(stream) /\ mapping' = mapping
      /\ position' = position + 1 /\ UNCHANGED <<saved, stream, damaged, phase>>
      /\ \/ stream[position][1] = "errors" /\ vm' = [vm EXCEPT !.errors = Item]
         \/ stream[position][1] = "statics" /\ vm' = [vm EXCEPT !.statics = Item]
         \/ stream[position][1] = "root" /\ vm' = [vm EXCEPT !.root = Item]
         \/ stream[position][1] = "globals" /\ vm' = [vm EXCEPT !.globals = Item]
  BY DEF LoadPlain, Reading, Accept
<1>2. /\ saved \in VM /\ Proper(saved) /\ vm \in VM /\ FunctionsTyped(vm)
      /\ mapping \in Seq((1 .. Len(vm.natives)) \cup {None})
      /\ position \in 1 .. AfterActive(saved) + 1
      /\ ~damaged => Faithful(saved, vm, position - 1)
      /\ stream[position][1] = Written(saved)[position][1]
      /\ stream[position][1] \notin {"function", "active"} =>
           stream[position][3] = Written(saved)[position][3]
  BY <1>1, ReadingIs
<1> DEFINE part == Written(saved)[position][1]
           item == Written(saved)[position][3]
<1>3. /\ part = "errors" => item = saved.errors
      /\ part = "statics" => item = saved.statics
      /\ part = "root" => item = saved.root
      /\ part = "globals" => item = saved.globals
  BY <1>2, RestIs
<1>4. /\ saved.errors \in Nat /\ saved.statics \in Seq(Values)
      /\ saved.root \in Seq(Values) /\ saved.globals \in Seq(Names)
  BY <1>2 DEF VM
<1>5. \/ part = "errors" /\ vm' = [vm EXCEPT !.errors = saved.errors]
      \/ part = "statics" /\ vm' = [vm EXCEPT !.statics = saved.statics]
      \/ part = "root" /\ vm' = [vm EXCEPT !.root = saved.root]
      \/ part = "globals" /\ vm' = [vm EXCEPT !.globals = saved.globals]
  BY <1>1, <1>2, <1>3 DEF Item
<1> HIDE DEF part, item
<1>6. /\ vm' \in VM
      /\ vm'.errors = IF part = "errors" THEN saved.errors ELSE vm.errors
      /\ vm'.strings = vm.strings /\ vm'.natives = vm.natives
      /\ vm'.functions = vm.functions /\ vm'.objects = vm.objects
      /\ vm'.contexts = vm.contexts /\ vm'.active = vm.active
  <2>1. CASE part = "errors" /\ vm' = [vm EXCEPT !.errors = saved.errors]
    BY <1>2, <1>4, <2>1, SetErrors
  <2>2. CASE part = "statics" /\ vm' = [vm EXCEPT !.statics = saved.statics]
    BY <1>2, <1>4, <2>2, SetStatics
  <2>3. CASE part = "root" /\ vm' = [vm EXCEPT !.root = saved.root]
    BY <1>2, <1>4, <2>3, SetRoot
  <2>4. CASE part = "globals" /\ vm' = [vm EXCEPT !.globals = saved.globals]
    BY <1>2, <1>4, <2>4, SetGlobals
  <2> QED BY <1>5, <2>1, <2>2, <2>3, <2>4
<1>7. /\ Loads(saved, vm, vm', mapping, mapping, position)
      /\ Faithful(saved, vm, position - 1) => Faithful(saved, vm', position)
  <2>1. part \in Rest
    BY <1>5 DEF Rest
  <2> QED BY <1>2, <1>6, <2>1, RestItem DEF part
<1> QED BY <1>1, <1>2, <1>7, AcceptKeeps

LEMMA LoadTypesKeeps ==
  ASSUME IInv, LoadTypes
  PROVE  IInv'
<1>1. phase = "loading" /\ position <= Len(stream) /\ stream[position][1] = "types"
  BY DEF LoadTypes, Reading
<1>2. /\ saved \in VM /\ Proper(saved) /\ vm \in VM /\ FunctionsTyped(vm)
      /\ mapping \in Seq((1 .. Len(vm.natives)) \cup {None})
      /\ position \in 1 .. AfterActive(saved) + 1
      /\ ~damaged => Faithful(saved, vm, position - 1)
      /\ Written(saved)[position][1] = "types"
      /\ stream[position][3] = Written(saved)[position][3]
  BY <1>1, ReadingIs
<1>3. Item = saved.types
  BY <1>2, RestIs DEF Item
<1>4. CASE Item = vm.types /\ Accept(vm) /\ UNCHANGED mapping
  <2>1. /\ vm' = vm /\ mapping' = mapping /\ position' = position + 1
        /\ UNCHANGED <<saved, stream, damaged, phase>>
    BY <1>4 DEF Accept
  <2>2. /\ Loads(saved, vm, vm, mapping, mapping, position)
        /\ Faithful(saved, vm, position - 1) => Faithful(saved, vm, position)
    <3>1. Written(saved)[position][1] \in Rest /\ "types" # "errors"
      BY <1>2 DEF Rest
    <3> QED BY <1>2, <3>1, RestItem
  <2> QED BY <1>1, <1>2, <2>1, <2>2, AcceptKeeps
<1>5. CASE Item # vm.types /\ Reject
  BY <1>1, <1>3, <1>5, RejectKeeps DEF Lacks
<1> QED BY <1>4, <1>5 DEF LoadTypes

LEMMA LoadSubsystemKeeps ==
  ASSUME IInv, LoadSubsystem
  PROVE  IInv'
<1> DEFINE found == SelectInSeq(vm.subsystems, LAMBDA s : s.name = Item.name)
<1>1. /\ phase = "loading" /\ position <= Len(stream)
      /\ stream[position][1] = "subsystem"
      /\ \/ /\ found # 0 /\ mapping' = mapping
            /\ Accept([vm EXCEPT !.subsystems[found].data = Item.data])
         \/ found = 0 /\ Reject
  BY DEF LoadSubsystem, Reading
<1>2. /\ saved \in VM /\ Proper(saved) /\ vm \in VM /\ FunctionsTyped(vm)
      /\ mapping \in Seq((1 .. Len(vm.natives)) \cup {None})
      /\ position \in 1 .. AfterActive(saved) + 1
      /\ ~damaged => Faithful(saved, vm, position - 1)
      /\ Written(saved)[position][1] = "subsystem"
      /\ stream[position][3] = Written(saved)[position][3]
  BY <1>1, ReadingIs
<1>3. /\ Item \in ToSet(saved.subsystems)
      /\ Item \in [name : Names, data : Values]
  BY <1>2, RestIs DEF Item
<1>4. /\ found \in 0 .. Len(vm.subsystems)
      /\ found = 0 =>
           \A i \in DOMAIN vm.subsystems : vm.subsystems[i].name # Item.name
  <2> HIDE DEF found
  <2>1. LET f == SelectInSeq(vm.subsystems, LAMBDA s : s.name = Item.name) IN
        /\ f \in 0 .. Len(vm.subsystems)
        /\ f = 0 <=> \A i \in DOMAIN vm.subsystems : vm.subsystems[i].name # Item.name
    BY <1>2, SubsystemFound
  <2> QED BY <2>1 DEF found
<1> HIDE DEF found
<1>5. CASE found # 0 /\ Accept([vm EXCEPT !.subsystems[found].data = Item.data])
           /\ mapping' = mapping
  <2> DEFINE d == Item.data
             x == [vm.subsystems[found] EXCEPT !.data = d]
             t == [vm.subsystems EXCEPT ![found] = x]
             n == [vm EXCEPT !.subsystems = t]
  <2>1. \A S : \A s \in Seq(S) : \A j \in 1 .. Len(s) :
          s[j] \in S /\ \A y \in S : [s EXCEPT ![j] = y] \in Seq(S)
    OBVIOUS
  <2>2. /\ vm.subsystems \in Seq([name : Names, data : Values])
        /\ found \in 1 .. Len(vm.subsystems)
    <3>1. vm.subsystems \in Seq([name : Names, data : Values])
      BY <1>2, FieldsAre
    <3>2. Len(vm.subsystems) \in Nat
      BY <3>1
    <3> QED BY <1>4, <1>5, <3>1, <3>2
  <2>3. d \in Values
    BY <1>3
  <2>4. vm.subsystems[found] \in [name : Names, data : Values]
    BY <2>1, <2>2
  <2> HIDE DEF d
  <2>5. x \in [name : Names, data : Values]
    BY <2>3, <2>4
  <2> HIDE DEF x
  <2>6. t \in Seq([name : Names, data : Values])
    BY <2>1, <2>2, <2>5
  <2>7. vm' = n
    BY <1>2, <1>5 DEF Accept, VM, x, d
  <2> HIDE DEF t
  <2>8. /\ vm' \in VM /\ vm'.errors = vm.errors
        /\ vm'.strings = vm.strings /\ vm'.natives = vm.natives
        /\ vm'.functions = vm.functions /\ vm'.objects = vm.objects
        /\ vm'.contexts = vm.contexts /\ vm'.active = vm.active
    BY SMTT(20), ZenonT(30), <1>2, <2>6, <2>7, SetSubsystems
  <2>9. /\ Loads(saved, vm, vm', mapping, mapping, position)
        /\ Faithful(saved, vm, position - 1) => Faithful(saved, vm', position)
    <3>1. Written(saved)[position][1] \in Rest /\ "subsystem" # "errors"
      BY <1>2 DEF Rest
    <3> QED BY <1>2, <2>8, <3>1, RestItem
  <2>10. /\ mapping' = mapping /\ position' = position + 1
         /\ UNCHANGED <<saved, stream, damaged, phase>>
    BY <1>5 DEF Accept
  <2> QED BY <1>1, <1>2, <2>9, <2>10, AcceptKeeps
<1>6. CASE found = 0 /\ Reject
  <2>1. \A s \in ToSet(vm.subsystems) : Item.name # s.name
    BY <1>4, <1>6 DEF ToSet
  <2>2. Lacks(saved, vm)
    BY <1>3, <2>1 DEF Lacks
  <2> QED BY <1>1, <1>6, <2>2, RejectKeeps
<1> QED BY <1>1, <1>5, <1>6

LEMMA LoadStringKeeps ==
  ASSUME IInv, LoadString
  PROVE  IInv'
<1>1. /\ phase = "loading" /\ position <= Len(stream)
      /\ stream[position][1] = "string"
  BY DEF LoadString, Reading
<1>2. /\ saved \in VM /\ vm \in VM /\ FunctionsTyped(vm)
      /\ mapping \in Seq((1 .. Len(vm.natives)) \cup {None})
      /\ position \in 1 .. AfterActive(saved) + 1
      /\ ~damaged => /\ Faithful(saved, vm, position - 1)
                     /\ At = Written(saved)[position][2]
      /\ Written(saved)[position][1] = "string"
      /\ Item = Written(saved)[position][3]
  BY <1>1, ReadingIs DEF At, Item
<1>3. CASE At \in Slots /\ Accept([vm EXCEPT !.strings[At] = Item])
           /\ UNCHANGED mapping
  <2>1. /\ vm' = [vm EXCEPT !.strings[At] = Written(saved)[position][3]]
        /\ mapping' = mapping /\ position' = position + 1
        /\ UNCHANGED <<saved, stream, damaged, phase>>
    BY <1>2, <1>3 DEF Accept
  <2>2. /\ Loads(saved, vm, vm', mapping, mapping, position)
        /\ ~damaged => Faithful(saved, vm', position)
    BY <1>2, <1>3, <2>1, StringItem
  <2> QED BY <1>1, <2>1, <2>2, AcceptKeeps
<1>4. CASE (At \notin Slots \/ (At \in Slots /\ vm.strings[At] # None)) /\ Reject
  BY <1>1, <1>2, <1>4, StringFits, RejectKeeps
<1> QED BY <1>3, <1>4 DEF LoadString

LEMMA LoadObjectKeeps ==
  ASSUME IInv, LoadObject
  PROVE  IInv'
<1>1. /\ phase = "loading" /\ position <= Len(stream)
      /\ stream[position][1] = "object"
  BY DEF LoadObject, Reading
<1>2. /\ saved \in VM /\ vm \in VM /\ FunctionsTyped(vm)
      /\ mapping \in Seq((1 .. Len(vm.natives)) \cup {None})
      /\ position \in 1 .. AfterActive(saved) + 1
      /\ ~damaged => /\ Faithful(saved, vm, position - 1)
                     /\ At = Written(saved)[position][2]
      /\ Written(saved)[position][1] = "object"
      /\ Item = Written(saved)[position][3]
  BY <1>1, ReadingIs DEF At, Item
<1>3. CASE /\ At \in Slots /\ vm.objects[At] = None
           /\ Accept([vm EXCEPT !.objects[At] = Rebuilt(vm, Item)])
           /\ UNCHANGED mapping
  <2>1. /\ vm' = [vm EXCEPT !.objects[At] =
                    Rebuilt(vm, Written(saved)[position][3])]
        /\ mapping' = mapping /\ position' = position + 1
        /\ UNCHANGED <<saved, stream, damaged, phase>>
    BY <1>2, <1>3 DEF Accept
  <2>2. /\ Loads(saved, vm, vm', mapping, mapping, position)
        /\ ~damaged => Faithful(saved, vm', position)
    BY <1>2, <1>3, <2>1, ObjectItem
  <2> QED BY <1>1, <2>1, <2>2, AcceptKeeps
<1>4. CASE (At \notin Slots \/ (At \in Slots /\ vm.objects[At] # None)) /\ Reject
  BY <1>1, <1>2, <1>4, ObjectFits, RejectKeeps
<1> QED BY <1>3, <1>4 DEF LoadObject

LEMMA LoadNativeKeeps ==
  ASSUME IInv, LoadNative
  PROVE  IInv'
<1> DEFINE found == SelectInSeq(vm.natives, LAMBDA n : n.name = Item.name)
           passed == IF found = 0 THEN Len(vm.natives) ELSE found - 1
           t == Matched(vm.natives, passed, found, Item.function)
<1>1. /\ phase = "loading" /\ position <= Len(stream)
      /\ stream[position][1] = "native"
      /\ vm' = [vm EXCEPT !.natives = t]
      /\ mapping' = Append(mapping, IF found = 0 THEN None ELSE found)
      /\ position' = position + 1 /\ UNCHANGED <<saved, stream, damaged, phase>>
  BY DEF LoadNative, Reading, Accept, Matched
<1>2. /\ saved \in VM /\ vm \in VM /\ FunctionsTyped(vm)
      /\ mapping \in Seq((1 .. Len(vm.natives)) \cup {None})
      /\ position \in 1 .. AfterActive(saved) + 1
      /\ ~damaged => Faithful(saved, vm, position - 1)
      /\ Written(saved)[position][1] = "native"
      /\ Item = Written(saved)[position][3]
  BY <1>1, ReadingIs DEF Item
<1>3. /\ found \in 0 .. Len(vm.natives)
      /\ found # 0 => vm.natives[found].name = Item.name
      /\ found = 0 <=> \A i \in DOMAIN vm.natives : vm.natives[i].name # Item.name
  <2> HIDE DEF found
  <2>1. LET f == SelectInSeq(vm.natives, LAMBDA n : n.name = Item.name) IN
        /\ f \in 0 .. Len(vm.natives)
        /\ f # 0 => vm.natives[f].name = Item.name
        /\ f = 0 <=> \A i \in DOMAIN vm.natives : vm.natives[i].name # Item.name
    BY <1>2, NativeFound
  <2> QED BY <2>1 DEF found
<1> HIDE DEF found, passed
<1>4. /\ Loads(saved, vm, vm', mapping, mapping', position)
      /\ Faithful(saved, vm, position - 1) => Faithful(saved, vm', position)
  BY <1>1, <1>2, <1>3, NativeItem
<1> QED BY <1>1, <1>2, <1>4, AcceptKeeps

LEMMA LoadFunctionKeeps ==
  ASSUME IInv, LoadFunction
  PROVE  IInv'
<1>1. /\ phase = "loading" /\ position <= Len(stream)
      /\ stream[position][1] = "function"
  BY DEF LoadFunction, Reading
<1>2. /\ saved \in VM /\ Proper(saved) /\ vm \in VM /\ FunctionsTyped(vm)
      /\ mapping \in Seq((1 .. Len(vm.natives)) \cup {None})
      /\ position \in 1 .. AfterActive(saved) + 1
      /\ Sane(saved, vm, mapping, position - 1)
      /\ ~damaged => /\ Faithful(saved, vm, position - 1)
                     /\ Item = Written(saved)[position][3]
      /\ Written(saved)[position][1] = "function"
      /\ Item \in (Nat \ {0}) \cup {None}
  BY <1>1, ReadingIs DEF Item
<1>3. ASSUME NEW y \in (DOMAIN vm.natives) \cup {None},
             Accept([vm EXCEPT !.functions = Append(@, y)]), mapping' = mapping,
             ~damaged => NativeName(vm, y) = NativeName(saved, Item)
      PROVE  IInv'
  <2>1. /\ vm' = [vm EXCEPT !.functions = Append(vm.functions, y)]
        /\ mapping' = mapping /\ position' = position + 1
        /\ UNCHANGED <<saved, stream, damaged, phase>>
    BY <1>2, <1>3 DEF Accept
  <2>2. /\ Loads(saved, vm, vm', mapping, mapping, position)
        /\ /\ Faithful(saved, vm, position - 1)
           /\ NativeName(vm, y) = NativeName(saved, Written(saved)[position][3])
           => Faithful(saved, vm', position)
    BY <1>2, <2>1, FunctionItem
  <2>3. ~damaged => Faithful(saved, vm', position)
    BY <1>2, <1>3, <2>2
  <2> QED BY <1>1, <2>1, <2>2, <2>3, AcceptKeeps
<1>4. CASE /\ Item = None /\ Accept([vm EXCEPT !.functions = Append(@, None)])
           /\ UNCHANGED mapping
  BY <1>3, <1>4 DEF NativeName
<1>5. CASE /\ Item # None /\ IsMapped(Item)
           /\ Accept([vm EXCEPT !.functions = Append(@, Remapped(Item))])
           /\ UNCHANGED mapping
  <2>1. /\ Item \in Nat \ {0} /\ Item <= Len(mapping) /\ mapping[Item] # None
        /\ Remapped(Item) = mapping[Item]
    BY <1>2, <1>5 DEF IsMapped, Remapped
  <2>2. Remapped(Item) \in DOMAIN vm.natives
    <3>1. Item \in 1 .. Len(mapping)
      BY <1>2, <2>1
    <3>2. mapping[Item] \in (1 .. Len(vm.natives)) \cup {None}
      BY <1>2, <3>1
    <3>3. DOMAIN vm.natives = 1 .. Len(vm.natives)
      BY <1>2, DomainIs
    <3> QED BY <2>1, <3>2, <3>3
  <2>3. ~damaged => NativeName(vm, Remapped(Item)) = NativeName(saved, Item)
    BY <1>2, <1>5, <2>1, FunctionFits
  <2> QED BY <1>3, <1>5, <2>2, <2>3
<1>6. CASE Item # None /\ ~IsMapped(Item) /\ Reject
  <2>1. ASSUME ~damaged PROVE Lacks(saved, vm)
    <3>1. /\ Item \in 1 .. Len(mapping)
          /\ mapping[Item] = None => Lacks(saved, vm)
      BY <1>2, <1>6, <2>1, FunctionFits
    <3>2. Item <= Len(mapping)
      BY <1>2, <3>1
    <3> QED BY <1>6, <3>1, <3>2 DEF IsMapped
  <2> QED BY <1>1, <1>6, <2>1, RejectKeeps
<1> QED BY <1>4, <1>5, <1>6 DEF LoadFunction

LEMMA LoadContextKeeps ==
  ASSUME IInv, LoadContext
  PROVE  IInv'
<1> DEFINE slot == CHOOSE s \in Pending(vm) : \A t \in Pending(vm) : s <= t
<1>1. /\ phase = "loading" /\ position <= Len(stream)
      /\ stream[position][1] = "context" /\ Pending(vm) # {}
      /\ vm' = [vm EXCEPT !.contexts[slot] = Item] /\ mapping' = mapping
      /\ position' = position + 1 /\ UNCHANGED <<saved, stream, damaged, phase>>
  BY DEF LoadContext, Reading, Accept, Pending
<1>2. /\ saved \in VM /\ Proper(saved) /\ vm \in VM /\ FunctionsTyped(vm)
      /\ mapping \in Seq((1 .. Len(vm.natives)) \cup {None})
      /\ position \in 1 .. AfterActive(saved) + 1
      /\ ~damaged => Faithful(saved, vm, position - 1)
      /\ Written(saved)[position][1] = "context"
      /\ Item = Written(saved)[position][3]
  BY <1>1, ReadingIs DEF Item
<1>3. /\ slot \in Slots /\ IsCoroutine(vm, slot) /\ vm.contexts[slot] = None
      /\ \A s \in Pending(vm) : (\A t \in Pending(vm) : s <= t) => s = slot
  <2> HIDE DEF slot
  <2>1. LET x == CHOOSE s \in Pending(vm) : \A t \in Pending(vm) : s <= t IN
        /\ x \in Slots /\ IsCoroutine(vm, x) /\ vm.contexts[x] = None
        /\ \A s \in Pending(vm) : (\A t \in Pending(vm) : s <= t) => s = x
    BY <1>1, LeastPending
  <2> QED BY <2>1 DEF slot
<1> HIDE DEF slot
<1>4. ~damaged => slot = Written(saved)[position][2]
  <2>1. ASSUME ~damaged
        PROVE  /\ Written(saved)[position][2] \in Pending(vm)
               /\ \A s \in Pending(vm) : Written(saved)[position][2] <= s
    BY <1>2, <2>1, PendingIs
  <2> QED BY <1>3, <2>1
<1>5. vm' = [vm EXCEPT !.contexts[slot] = Written(saved)[position][3]]
  BY <1>1, <1>2
<1>6. /\ Loads(saved, vm, vm', mapping, mapping, position)
      /\ slot = Written(saved)[position][2] /\ Faithful(saved, vm, position - 1)
         => Faithful(saved, vm', position)
  BY <1>2, <1>3, <1>5, ContextItem
<1> QED BY <1>1, <1>2, <1>4, <1>6, AcceptKeeps

LEMMA LoadActiveKeeps ==
  ASSUME IInv, LoadActive
  PROVE  IInv'
<1> DEFINE valid == At \in Slots /\ IsCoroutine(vm, At)
           dormant == valid /\ vm.contexts[At].state # "running"
<1>1. /\ phase = "loading" /\ position <= Len(stream)
      /\ stream[position][1] = "active" /\ Item = "coroutine"
      /\ \/ /\ valid /\ ~Looped /\ mapping' = mapping
            /\ Accept([vm EXCEPT
                 !.active = Append(@, At),
                 !.contexts[At].state = "running",
                 !.errors = IF dormant THEN @ + 1 ELSE @])
         \/ (~valid \/ Looped) /\ Reject
  BY DEF LoadActive, Reading
<1>2. /\ saved \in VM /\ Proper(saved) /\ vm \in VM /\ FunctionsTyped(vm)
      /\ mapping \in Seq((1 .. Len(vm.natives)) \cup {None})
      /\ position \in 1 .. AfterActive(saved) + 1
      /\ Sane(saved, vm, mapping, position - 1)
      /\ ~damaged => /\ Faithful(saved, vm, position - 1)
                     /\ At = Written(saved)[position][2]
                     /\ Written(saved)[position][3] = "coroutine"
      /\ Written(saved)[position][1] = "active"
  BY <1>1, ReadingIs DEF At, Item
<1>3. ~damaged => valid /\ ~Looped
                  /\ Written(saved)[position] = <<"active", At, "coroutine">>
  BY <1>2, ActiveFits DEF Looped
<1>4. CASE /\ valid /\ ~Looped /\ mapping' = mapping
           /\ Accept([vm EXCEPT
                !.active = Append(@, At),
                !.contexts[At].state = "running",
                !.errors = IF dormant THEN @ + 1 ELSE @])
  <2>1. /\ vm' = [vm EXCEPT
                    !.active = Append(@, At),
                    !.contexts[At].state = "running",
                    !.errors = IF vm.contexts[At].state # "running"
                               THEN @ + 1 ELSE @]
        /\ mapping' = mapping /\ position' = position + 1
        /\ UNCHANGED <<saved, stream, damaged, phase>>
    <3> HIDE DEF valid
    <3>1. dormant <=> vm.contexts[At].state # "running"
      BY <1>4
    <3> HIDE DEF dormant
    <3> QED BY <1>4, <3>1 DEF Accept
  <2>2. vm.active # <<>> => Last(vm.active) \notin ToSet(Front(vm.active))
    BY <1>4 DEF Looped
  <2>3. /\ Loads(saved, vm, vm', mapping, mapping, position)
        /\ /\ Written(saved)[position] = <<"active", At, "coroutine">>
           /\ Faithful(saved, vm, position - 1)
           => Faithful(saved, vm', position)
    BY SMTT(20), ZenonT(30), <1>2, <1>4, <2>1, <2>2, ActiveItem
  <2> QED BY <1>1, <1>2, <1>3, <2>1, <2>3, AcceptKeeps
<1>5. CASE (~valid \/ Looped) /\ Reject
  BY <1>1, <1>3, <1>5, RejectKeeps
<1> QED BY <1>1, <1>4, <1>5

LEMMA LoadRootKeeps ==
  ASSUME IInv, LoadRoot
  PROVE  IInv'
<1>1. /\ phase = "loading" /\ position <= Len(stream)
      /\ stream[position][1] = "active"
      /\ \/ /\ ~Looped /\ phase' = "loaded"
            /\ UNCHANGED <<vm, saved, stream, position, mapping, damaged>>
         \/ Looped /\ Reject
  BY DEF LoadRoot, Reading
<1>2. /\ saved \in VM /\ Proper(saved) /\ vm \in VM /\ FunctionsTyped(vm)
      /\ mapping \in Seq((1 .. Len(vm.natives)) \cup {None})
      /\ position \in 1 .. AfterActive(saved) + 1
      /\ Sane(saved, vm, mapping, position - 1)
      /\ ~damaged => Faithful(saved, vm, position - 1)
      /\ Written(saved)[position][1] = "active"
  BY <1>1, ReadingIs
<1>3. CASE /\ ~Looped /\ phase' = "loaded"
           /\ UNCHANGED <<vm, saved, stream, position, mapping, damaged>>
  <2>1. Proper(vm)
    <3>1. vm.active # <<>> => Last(vm.active) \notin ToSet(Front(vm.active))
      BY <1>3 DEF Looped
    <3> QED BY <1>2, <3>1, LoadedIsProper
  <2>2. ~damaged => \A f \in DOMAIN vm.functions :
          NativeName(vm, vm.functions[f]) = NativeName(saved, saved.functions[f])
    BY <1>2, LoadedByName
  <2>3. FunctionsByName'
    BY <1>3, <2>2 DEF FunctionsByName, NativeName
  <2>4. Typed /\ Kept(saved, stream, damaged)
    BY <1>1 DEF IInv
  <2>5. Typed'
    BY <1>3, <2>4 DEF Typed, FunctionsTyped, Outside
  <2>6. /\ phase' = "loaded" /\ Proper(saved)' /\ Proper(vm)'
        /\ Kept(saved, stream, damaged)'
    BY <1>2, <1>3, <2>1, <2>4
  <2> QED BY <2>3, <2>5, <2>6 DEF IInv, SavedIsLoadable
<1>4. CASE Looped /\ Reject
  <2>1. damaged
    BY <1>2, <1>4, ActiveFits DEF Looped
  <2> QED BY <1>1, <1>4, <2>1, RejectKeeps
<1> QED BY <1>1, <1>3, <1>4

-----------------------------------------------------------------------------
(* The theorems.                                                             *)

LEMMA StepKeeps ==
  ASSUME IInv, [Next]_vars
  PROVE  IInv'
<1>1. CASE UNCHANGED vars
  BY <1>1 DEF vars, IInv, Typed, FunctionsTyped, FunctionsByName, SavedIsLoadable,
              Lacking, NativeName
<1>2. CASE Save
  BY <1>2, SaveKeeps
<1>3. CASE Damage
  BY <1>3, DamageKeeps
<1>4. CASE \E host \in Hosts : LoadBegin(host)
  BY <1>4, LoadBeginKeeps
<1>5. CASE LoadPlain
  BY <1>5, LoadPlainKeeps
<1>6. CASE LoadString
  BY <1>6, LoadStringKeeps
<1>7. CASE LoadNative
  BY <1>7, LoadNativeKeeps
<1>8. CASE LoadFunction
  BY <1>8, LoadFunctionKeeps
<1>9. CASE LoadObject
  BY <1>9, LoadObjectKeeps
<1>10. CASE LoadTypes
  BY <1>10, LoadTypesKeeps
<1>11. CASE LoadSubsystem
  BY <1>11, LoadSubsystemKeeps
<1>12. CASE LoadContext
  BY <1>12, LoadContextKeeps
<1>13. CASE LoadActive
  BY <1>13, LoadActiveKeeps
<1>14. CASE LoadRoot
  BY <1>14, LoadRootKeeps
<1>15. CASE CutShort
  BY <1>15, CutShortKeeps
<1> QED BY <1>1, <1>2, <1>3, <1>4, <1>5, <1>6, <1>7, <1>8, <1>9, <1>10, <1>11,
           <1>12, <1>13, <1>14, <1>15 DEF Next

(* The invariant of a VM that is saved and loaded: what is read of a stream  *)
(* so far is what was written to it, item by item.                           *)
THEOREM InvariantTheorem == Spec => []IInv
<1>1. Init => IInv
  BY InitKeeps
<1>2. IInv /\ [Next]_vars => IInv'
  BY StepKeeps
<1> QED BY <1>1, <1>2, PTL DEF Spec

(* The two VMs and the stream are what their types say, in every state of    *)
(* every load: no item puts anything else into the VM.                       *)
THEOREM TypesAreKept == Spec => []TypeOK
<1>1. IInv => TypeOK
  <2> SUFFICES ASSUME IInv PROVE TypeOK
    OBVIOUS
  <2>2. Proper(saved) /\ Typed
    BY DEF IInv
  <2>3. \A v \in {vm, saved} :
          /\ v \in VM
          /\ v.functions \in Seq((DOMAIN v.natives) \cup {None})
    BY <2>2 DEF Proper, Typed, FunctionsTyped
  <2>4. \A i \in DOMAIN stream : stream[i][1] \in Parts
    <3>1. CASE stream = <<>>
      BY <3>1
    <3>2. CASE stream # <<>>
      <4>1. Kept(saved, stream, damaged)
        BY <3>2 DEF IInv
      <4> QED BY <2>2, <4>1, RestIs DEF Kept
    <3> QED BY <3>1, <3>2
  <2> QED BY <2>2, <2>3, <2>4 DEF TypeOK, Typed
<1> QED BY <1>1, InvariantTheorem, PTL

(* A function of a script means the C function of the same name, in any host *)
(* (nkiVmSerializeFunctionTable with the mapping it is given).               *)
THEOREM ByNameTheorem == Spec => []FunctionsByName
<1>1. IInv => FunctionsByName
  BY DEF IInv
<1> QED BY <1>1, InvariantTheorem, PTL

(* What the program saved is refused only for a type, a subsystem or a C     *)
(* function that the host does not have.                                     *)
THEOREM LoadableTheorem == Spec => []SavedIsLoadable
<1>1. IInv => SavedIsLoadable
  BY DEF IInv
<1> QED BY <1>1, InvariantTheorem, PTL

-----------------------------------------------------------------------------
(* What is in the buckets of an object, in whichever order.                  *)

Elements(buckets) == UNION {ToSet(buckets[b]) : b \in Buckets}

LEMMA JoinedSet ==
  ASSUME NEW S, NEW s \in Seq(S), NEW t \in Seq(S)
  PROVE  ToSet(s \o t) = ToSet(s) \cup ToSet(t)
<1>1. /\ Len(s) \in Nat /\ Len(t) \in Nat
      /\ DOMAIN s = 1 .. Len(s) /\ DOMAIN t = 1 .. Len(t)
      /\ DOMAIN (s \o t) = 1 .. Len(s) + Len(t)
      /\ \A i \in 1 .. Len(s) : (s \o t)[i] = s[i]
      /\ \A i \in 1 .. Len(t) : (s \o t)[Len(s) + i] = t[i]
  OBVIOUS
<1>2. \A m, n \in Nat :
        /\ \A i \in 1 .. m + n : i \in 1 .. m \/ \E j \in 1 .. n : i = m + j
        /\ \A i \in 1 .. m : i \in 1 .. m + n
        /\ \A i \in 1 .. n : m + i \in 1 .. m + n
  <2>1. ASSUME NEW m \in Nat, NEW n \in Nat, NEW i \in 1 .. m + n, i \notin 1 .. m
        PROVE  \E j \in 1 .. n : i = m + j
    <3>1. i - m \in 1 .. n /\ i = m + (i - m)
      BY <2>1
    <3> QED BY <3>1
  <2> QED BY <2>1
<1> DEFINE m == Len(s)
           n == Len(t)
<1>m. m \in Nat /\ n \in Nat
  BY <1>1
<1> HIDE DEF m, n
<1>4. /\ \A i \in 1 .. m + n : i \in 1 .. m \/ \E j \in 1 .. n : i = m + j
      /\ \A i \in 1 .. m : i \in 1 .. m + n
      /\ \A i \in 1 .. n : m + i \in 1 .. m + n
  BY <1>2, <1>m
<1> USE DEF m, n
<1>3. ASSUME NEW x PROVE x \in ToSet(s \o t) <=> x \in ToSet(s) \/ x \in ToSet(t)
  <2>1. ASSUME x \in ToSet(s \o t) PROVE x \in ToSet(s) \/ x \in ToSet(t)
    <3>1. PICK i \in 1 .. Len(s) + Len(t) : (s \o t)[i] = x
      BY <1>1, <2>1 DEF ToSet
    <3>2. i \in 1 .. Len(s) \/ \E j \in 1 .. Len(t) : i = Len(s) + j
      BY <1>4, <3>1
    <3> QED BY <1>1, <3>1, <3>2 DEF ToSet
  <2>2. ASSUME x \in ToSet(s) PROVE x \in ToSet(s \o t)
    <3>1. PICK i \in 1 .. Len(s) : s[i] = x
      BY <1>1, <2>2 DEF ToSet
    <3>2. i \in DOMAIN (s \o t) /\ (s \o t)[i] = x
      BY <1>1, <1>4, <3>1
    <3> QED BY <3>2 DEF ToSet
  <2>3. ASSUME x \in ToSet(t) PROVE x \in ToSet(s \o t)
    <3>1. PICK i \in 1 .. Len(t) : t[i] = x
      BY <1>1, <2>3 DEF ToSet
    <3>2. Len(s) + i \in DOMAIN (s \o t) /\ (s \o t)[Len(s) + i] = x
      BY <1>1, <1>4, <3>1
    <3> QED BY <3>2 DEF ToSet
  <2> QED BY <2>1, <2>2, <2>3
<1> QED BY <1>3

LEMMA FlattenHas ==
  ASSUME NEW S, NEW seqs \in Seq(Seq(S)), Len(seqs) # 0
  PROVE  ToSet(FlattenSeq(seqs)) = UNION {ToSet(seqs[i]) : i \in 1 .. Len(seqs)}
<1> DEFINE n == Len(seqs)
<1>1. n \in Nat \ {0} /\ \A i \in 1 .. n : seqs[i] \in Seq(S)
  <2>1. \A T : \A q \in Seq(T) : Len(q) \in Nat /\ \A i \in 1 .. Len(q) : q[i] \in T
    OBVIOUS
  <2> QED BY <2>1
<1>2. PICK g : /\ g \in [1 .. n -> Seq(S)]
               /\ g[1] = seqs[1]
               /\ \A i \in 2 .. n : g[i] = g[i - 1] \o seqs[i]
               /\ FlattenSeq(seqs) = g[n]
  BY FlattenIs
<1> HIDE DEF n
<1> DEFINE holds(m) == \A x : x \in ToSet(g[m]) <=>
                                \E i \in 1 .. m : x \in ToSet(seqs[i])
           wrong == {m \in 1 .. n : ~ holds(m)}
<1>3. wrong = {}
  <2>1. SUFFICES ASSUME wrong # {} PROVE FALSE
    OBVIOUS
  <2>2. wrong \in SUBSET Nat
    BY <1>1
  <2>3. PICK m \in wrong : \A k \in wrong : m <= k
    <3> HIDE DEF wrong
    <3> QED BY <2>1, <2>2, SmallestNat
  <2>4. m # 1
    <3>1. holds(1)
      <4>1. \A i \in 1 .. 1 : i = 1
        OBVIOUS
      <4>2. 1 \in 1 .. 1
        OBVIOUS
      <4> QED BY <1>2, <4>1, <4>2
    <3> QED BY <2>3, <3>1
  <2>5. m \in 1 .. n /\ m \in 2 .. n /\ m - 1 \in 1 .. n /\ ~ (m <= m - 1)
    BY <1>1, <2>3, <2>4
  <2>6. holds(m - 1)
    BY <2>3, <2>5
  <2>7. g[m] = g[m - 1] \o seqs[m] /\ g[m - 1] \in Seq(S) /\ seqs[m] \in Seq(S)
    BY <1>1, <1>2, <2>5
  <2>8. ToSet(g[m]) = ToSet(g[m - 1]) \cup ToSet(seqs[m])
    BY <2>7, JoinedSet
  <2>9. /\ \A i \in 1 .. m : i \in 1 .. m - 1 \/ i = m
        /\ \A i \in 1 .. m - 1 : i \in 1 .. m
        /\ m \in 1 .. m
    BY <2>5
  <2>10. holds(m)
    BY <2>6, <2>8, <2>9
  <2> QED BY <2>3, <2>10
<1>4. holds(n)
  <2>1. n \in 1 .. n
    BY <1>1
  <2> SUFFICES ASSUME ~ holds(n) PROVE FALSE
    OBVIOUS
  <2>2. n \in wrong
    BY <2>1
  <2> QED BY <1>3, <2>2
<1>5. ToSet(g[n]) = UNION {ToSet(seqs[i]) : i \in 1 .. n}
  BY <1>4
<1> QED BY <1>2, <1>5 DEF n

LEMMA InOrderSet ==
  ASSUME NEW buckets \in [Buckets -> Seq(Element)]
  PROVE  ToSet(InOrder(buckets)) = Elements(buckets)
<1> DEFINE seqs == [b \in 1 .. BucketCount |-> buckets[b - 1]]
<1>1. /\ BucketCount \in Nat \ {0}
      /\ \A b \in 1 .. BucketCount : b - 1 \in Buckets
      /\ \A b \in Buckets : b + 1 \in 1 .. BucketCount /\ (b + 1) - 1 = b
  BY Constants DEF Buckets
<1>2. seqs \in Seq(Seq(Element)) /\ Len(seqs) = BucketCount
  BY <1>1
<1>3. /\ \A b \in 1 .. BucketCount : seqs[b] = buckets[b - 1]
      /\ \A b \in Buckets : seqs[b + 1] = buckets[b]
  BY <1>1
<1>4. Len(seqs) # 0
  BY <1>1, <1>2
<1>5. InOrder(buckets) = FlattenSeq(seqs)
  BY DEF InOrder
<1> HIDE DEF seqs
<1>6. ToSet(FlattenSeq(seqs)) = UNION {ToSet(seqs[i]) : i \in 1 .. Len(seqs)}
  BY <1>2, <1>4, FlattenHas
<1>7. \A x : x \in ToSet(InOrder(buckets)) <=>
               \E b \in Buckets : x \in ToSet(buckets[b])
  BY <1>1, <1>2, <1>3, <1>5, <1>6
<1> QED BY <1>7 DEF Elements

LEMMA BucketSame ==
  ASSUME NEW v, NEW n, n.strings = v.strings
  PROVE  /\ \A key : Bucket(n, key) = Bucket(v, key)
         /\ \A buckets : InPlace(n, buckets) <=> InPlace(v, buckets)
<1>1. \A key : Bucket(n, key) = Bucket(v, key)
  BY DEF Bucket, Hash
<1> QED BY <1>1 DEF InPlace

(* The chain an element was added to.                                        *)
Chained(chain, new, e, i) ==
  IF i = 0
  THEN /\ Len(new) = Len(chain) + 1 /\ new[1] = e
       /\ \A j \in 1 .. Len(chain) : new[j + 1] = chain[j]
  ELSE /\ Len(new) = Len(chain) /\ new[i] = e
       /\ \A j \in 1 .. Len(chain) : j # i => new[j] = chain[j]

LEMMA AddedCases ==
  ASSUME NEW v \in VM, NEW buckets \in [Buckets -> Seq(Element)],
         NEW e \in Element
  PROVE  LET b == Bucket(v, e.key)
             i == Position(buckets[b], e.key)
             added == Added(v, buckets, e)
         IN  /\ added \in [Buckets -> Seq(Element)] /\ b \in Buckets
             /\ \A c \in Buckets : c # b => added[c] = buckets[c]
             /\ i \in 0 .. Len(buckets[b])
             /\ Chained(buckets[b], added[b], e, i)
<1> DEFINE b == Bucket(v, e.key)
           i == Position(buckets[b], e.key)
           added == Added(v, buckets, e)
<1>1. e.key \in Values /\ e.value \in Values /\ e = [key |-> e.key, value |-> e.value]
  BY DEF Element
<1>2. b \in Buckets
  BY <1>1, BucketIs
<1>3. buckets[b] \in Seq(Element) /\ Len(buckets[b]) \in Nat
  BY <1>2
<1>4. /\ i \in 0 .. Len(buckets[b])
      /\ i # 0 => buckets[b][i].key = e.key
  BY <1>3, PositionIs
<1>5. added = IF i = 0 THEN [buckets EXCEPT ![b] = Cons(e, buckets[b])]
              ELSE [buckets EXCEPT ![b][i].value = e.value]
  BY DEF Added
<1>6. added \in [Buckets -> Seq(Element)]
  BY AddedIs
<1> HIDE DEF b, i, added
<1>7. \A c \in Buckets : c # b => added[c] = buckets[c]
  BY <1>5
<1>8. CASE i = 0
  <2>1. added[b] = Cons(e, buckets[b])
    BY <1>2, <1>5, <1>8
  <2>2. \A c \in Seq(Element) :
          /\ Len(Cons(e, c)) = Len(c) + 1 /\ Cons(e, c)[1] = e
          /\ \A j \in 1 .. Len(c) : Cons(e, c)[j + 1] = c[j]
    BY DEF Cons
  <2>3. Chained(buckets[b], added[b], e, i)
    BY <1>3, <1>8, <2>1, <2>2 DEF Chained
  <2> QED BY <1>2, <1>4, <1>6, <1>7, <2>3 DEF b, i, added
<1>9. CASE i # 0
  <2>1. i \in 1 .. Len(buckets[b])
    BY <1>3, <1>4, <1>9
  <2>2. buckets[b][i] \in Element
    BY <1>3, <2>1
  <2>3. [buckets[b][i] EXCEPT !.value = e.value] = e
    BY <1>1, <1>4, <1>9, <2>2 DEF Element
  <2>4. added[b] = [buckets[b] EXCEPT ![i] = e]
    BY <1>2, <1>5, <1>9, <2>3
  <2>5. \A c \in Seq(Element) : \A j \in 1 .. Len(c) :
          LET d == [c EXCEPT ![j] = e] IN
          /\ Len(d) = Len(c) /\ d[j] = e
          /\ \A k \in 1 .. Len(c) : k # j => d[k] = c[k]
    OBVIOUS
  <2>6. Chained(buckets[b], added[b], e, i)
    BY <1>3, <1>9, <2>1, <2>4, <2>5 DEF Chained
  <2> QED BY <1>2, <1>4, <1>6, <1>7, <2>6 DEF b, i, added
<1> QED BY <1>8, <1>9

(* An element replaces the one with its key, and every element can be found  *)
(* as before.                                                                *)
LEMMA AddedInPlace ==
  ASSUME NEW v \in VM, NEW buckets \in [Buckets -> Seq(Element)],
         NEW e \in Element, InPlace(v, buckets)
  PROVE  /\ InPlace(v, Added(v, buckets, e))
         /\ \A x : x \in Elements(Added(v, buckets, e)) <=>
                     x = e \/ (x \in Elements(buckets) /\ x.key # e.key)
<1> DEFINE b == Bucket(v, e.key)
           i == Position(buckets[b], e.key)
           added == Added(v, buckets, e)
           chain == buckets[b]
           new == added[b]
<1>1. /\ added \in [Buckets -> Seq(Element)] /\ b \in Buckets
      /\ \A c \in Buckets : c # b => added[c] = buckets[c]
      /\ i \in 0 .. Len(chain)
      /\ Chained(chain, new, e, i)
  BY AddedCases
<1>2. /\ chain \in Seq(Element) /\ Len(chain) \in Nat /\ DOMAIN chain = 1 .. Len(chain)
      /\ new \in Seq(Element) /\ Len(new) \in Nat /\ DOMAIN new = 1 .. Len(new)
  BY <1>1
<1>3. /\ i # 0 => chain[i].key = e.key
      /\ i = 0 => \A j \in 1 .. Len(chain) : chain[j].key # e.key
  BY <1>2, PositionIs
<1>4. \A c \in Buckets :
        /\ \A j \in DOMAIN buckets[c] : Bucket(v, buckets[c][j].key) = c
        /\ \A j, k \in DOMAIN buckets[c] :
             buckets[c][j].key = buckets[c][k].key => j = k
  BY DEF InPlace
<1>5. Bucket(v, e.key) = b
  OBVIOUS
<1> HIDE DEF b, i, added, chain, new
<1>6. /\ \A j \in 1 .. Len(new) : new[j] = e \/ (new[j] \in ToSet(chain) /\ new[j].key # e.key)
      /\ e \in ToSet(new)
      /\ \A j \in 1 .. Len(chain) : chain[j].key # e.key => chain[j] \in ToSet(new)
      /\ \A j, k \in 1 .. Len(new) : new[j].key = new[k].key => j = k
  <2>1. \A j \in 1 .. Len(chain) : chain[j] \in ToSet(chain)
    BY <1>2 DEF ToSet
  <2>2. \A j, k \in 1 .. Len(chain) : chain[j].key = chain[k].key => j = k
    BY <1>1, <1>2, <1>4 DEF chain
  <2>3. CASE i = 0
    <3>1. /\ Len(new) = Len(chain) + 1 /\ new[1] = e
          /\ \A j \in 1 .. Len(chain) : new[j + 1] = chain[j]
      BY <1>1, <2>3 DEF Chained
    <3>2. \A j \in 1 .. Len(new) :
            j = 1 \/ (j - 1 \in 1 .. Len(chain) /\ new[j] = chain[j - 1])
      <4>1. \A j \in 1 .. Len(new) :
              j = 1 \/ (j - 1 \in 1 .. Len(chain) /\ (j - 1) + 1 = j)
        BY <1>2, <3>1
      <4> QED BY <3>1, <4>1
    <3>3. \A j \in 1 .. Len(chain) : j + 1 \in DOMAIN new
      BY <1>2, <3>1
    <3>4. 1 \in DOMAIN new
      BY <1>2, <3>1
    <3>5. \A j \in 1 .. Len(chain) : chain[j].key # e.key
      BY <1>3, <2>3
    <3>6. ASSUME NEW j \in 1 .. Len(new), NEW k \in 1 .. Len(new),
                 new[j].key = new[k].key
          PROVE  j = k
      <4>1. CASE j = 1 \/ k = 1
        BY <3>1, <3>2, <3>5, <3>6, <4>1
      <4>2. CASE j # 1 /\ k # 1
        <5>1. j - 1 = k - 1
          BY <2>2, <3>2, <3>6, <4>2
        <5> QED BY <1>2, <5>1
      <4> QED BY <4>1, <4>2
    <3>7. e \in ToSet(new)
      BY <3>1, <3>4 DEF ToSet
    <3>8. \A j \in 1 .. Len(chain) : chain[j] \in ToSet(new)
      BY <3>1, <3>3 DEF ToSet
    <3>9. \A j \in 1 .. Len(new) :
            new[j] = e \/ (new[j] \in ToSet(chain) /\ new[j].key # e.key)
      BY <2>1, <3>1, <3>2, <3>5
    <3> QED BY <3>6, <3>7, <3>8, <3>9
  <2>4. CASE i # 0
    <3>1. /\ Len(new) = Len(chain) /\ new[i] = e
          /\ \A j \in 1 .. Len(chain) : j # i => new[j] = chain[j]
      BY <1>1, <2>4 DEF Chained
    <3>2. i \in 1 .. Len(chain) /\ i \in DOMAIN new /\ chain[i].key = e.key
      BY <1>1, <1>2, <1>3, <2>4, <3>1
    <3>3. \A j \in 1 .. Len(chain) : j # i => chain[j].key # e.key
      BY <2>2, <3>2
    <3>4. \A j \in 1 .. Len(chain) : new[j].key = chain[j].key
      BY <3>1, <3>2
    <3> QED BY <1>2, <2>1, <2>2, <3>1, <3>2, <3>3, <3>4 DEF ToSet
  <2> QED BY <2>3, <2>4
<1>7. InPlace(v, added)
  <2>1. ASSUME NEW c \in Buckets
        PROVE  /\ \A j \in DOMAIN added[c] : Bucket(v, added[c][j].key) = c
               /\ \A j, k \in DOMAIN added[c] :
                    added[c][j].key = added[c][k].key => j = k
    <3>1. CASE c # b
      BY <1>1, <1>4, <3>1
    <3>2. CASE c = b
      <4>1. added[c] = new /\ buckets[c] = chain
        BY <3>2 DEF new, chain
      <4>2. \A x \in ToSet(chain) : Bucket(v, x.key) = b
        BY <1>4, <3>2, <4>1 DEF ToSet
      <4>3. \A j \in 1 .. Len(new) : Bucket(v, new[j].key) = b
        BY <1>5, <1>6, <4>2
      <4> QED BY <1>2, <1>6, <3>2, <4>1, <4>3
    <3> QED BY <3>1, <3>2
  <2> QED BY <2>1 DEF InPlace
<1>8. ASSUME NEW x
      PROVE  x \in Elements(added) <=>
               x = e \/ (x \in Elements(buckets) /\ x.key # e.key)
  <2>1. ASSUME x \in Elements(added)
        PROVE  x = e \/ (x \in Elements(buckets) /\ x.key # e.key)
    <3>1. PICK c \in Buckets : x \in ToSet(added[c])
      BY <2>1 DEF Elements
    <3>2. CASE c # b
      <4>1. x \in ToSet(buckets[c])
        BY <1>1, <3>1, <3>2
      <4>2. Bucket(v, x.key) = c
        BY <1>4, <4>1 DEF ToSet
      <4>3. x.key # e.key
        BY <1>5, <3>2, <4>2
      <4> QED BY <4>1, <4>3 DEF Elements
    <3>3. CASE c = b
      <4>1. x \in ToSet(new)
        BY <3>1, <3>3 DEF new
      <4>2. x = e \/ (x \in ToSet(chain) /\ x.key # e.key)
        BY <1>2, <1>6, <4>1 DEF ToSet
      <4> QED BY <1>1, <4>2 DEF Elements, chain
    <3> QED BY <3>2, <3>3
  <2>2. e \in Elements(added)
    BY <1>1, <1>6 DEF Elements, new
  <2>3. ASSUME x \in Elements(buckets), x.key # e.key
        PROVE  x \in Elements(added)
    <3>1. PICK c \in Buckets : x \in ToSet(buckets[c])
      BY <2>3 DEF Elements
    <3>2. CASE c # b
      BY <1>1, <3>1, <3>2 DEF Elements
    <3>3. CASE c = b
      <4>1. x \in ToSet(new)
        BY <1>2, <1>6, <2>3, <3>1, <3>3 DEF ToSet, chain
      <4> QED BY <1>1, <4>1 DEF Elements, new
    <3> QED BY <3>2, <3>3
  <2> QED BY <2>1, <2>2, <2>3
<1> QED BY <1>7, <1>8 DEF added

LEMMA EmptyInPlace ==
  ASSUME NEW v
  PROVE  InPlace(v, Empty) /\ Elements(Empty) = {}
<1>1. \A b \in Buckets : Empty[b] = <<>> /\ DOMAIN Empty[b] = {}
  BY DEF Empty
<1> QED BY <1>1 DEF InPlace, Elements, ToSet

(* Buckets that are rebuilt have every element where it is found, and the    *)
(* elements of the list, if it does not give one key two values.             *)
LEMMA RebuiltInPlace ==
  ASSUME NEW v \in VM, NEW image \in Image
  PROVE  /\ InPlace(v, Rebuilt(v, image).buckets)
         /\ (\A x, y \in ToSet(image.elements) : x.key = y.key => x = y) =>
              Elements(Rebuilt(v, image).buckets) = ToSet(image.elements)
<1> DEFINE n == Len(image.elements)
           list == image.elements
           distinct == \A x, y \in ToSet(list) : x.key = y.key => x = y
<1>1. PICK g : /\ g \in [0 .. n -> [Buckets -> Seq(Element)]]
               /\ g[0] = Empty
               /\ \A k \in 1 .. n : g[k] = Added(v, g[k - 1], list[k])
               /\ Rebuilt(v, image).buckets = g[n]
  BY RebuiltBySteps
<1>2. /\ n \in Nat /\ DOMAIN list = 1 .. n
      /\ \A k \in 1 .. n : list[k] \in Element
  BY DEF Image
<1>3. /\ \A k \in 1 .. n : list[k] \in ToSet(list)
      /\ \A x \in ToSet(list) : \E k \in 1 .. n : x = list[k]
  BY <1>2 DEF ToSet
<1> HIDE DEF n, list
<1> DEFINE holds(k) ==
             /\ InPlace(v, g[k])
             /\ distinct => \A x : x \in Elements(g[k]) <=>
                                     \E j \in 1 .. k : x = list[j]
           wrong == {k \in 0 .. n : ~ holds(k)}
<1>4. holds(0)
  <2>1. \A j \in 1 .. 0 : FALSE
    OBVIOUS
  <2>2. InPlace(v, g[0]) /\ Elements(g[0]) = {}
    BY <1>1, EmptyInPlace
  <2> QED BY <2>1, <2>2
<1>5. ASSUME NEW k \in 1 .. n, holds(k - 1)
      PROVE  holds(k)
  <2>1. k - 1 \in 0 .. n
    BY <1>2
  <2>2. g[k - 1] \in [Buckets -> Seq(Element)] /\ list[k] \in Element
    BY <1>1, <1>2, <2>1
  <2>3. g[k] = Added(v, g[k - 1], list[k])
    BY <1>1
  <2>4. /\ InPlace(v, g[k])
        /\ \A x : x \in Elements(g[k]) <=>
                    x = list[k] \/ (x \in Elements(g[k - 1]) /\ x.key # list[k].key)
    BY <1>5, <2>2, <2>3, AddedInPlace
  <2>5. /\ \A j \in 1 .. k : j \in 1 .. k - 1 \/ j = k
        /\ \A j \in 1 .. k - 1 : j \in 1 .. k /\ j \in 1 .. n
        /\ k \in 1 .. k
    BY <1>2
  <2>6. ASSUME distinct, NEW x
        PROVE  x \in Elements(g[k]) <=> \E j \in 1 .. k : x = list[j]
    <3>1. x \in Elements(g[k - 1]) <=> \E j \in 1 .. k - 1 : x = list[j]
      BY <1>5, <2>6
    <3>2. \A j \in 1 .. k - 1 : list[j].key = list[k].key => list[j] = list[k]
      BY <1>3, <2>5, <2>6
    <3> QED BY <2>4, <2>5, <3>1, <3>2
  <2> QED BY <2>4, <2>6
<1>6. \A k \in 0 .. n : holds(k)
  <2> SUFFICES ASSUME wrong # {} PROVE FALSE
    OBVIOUS
  <2>1. wrong \in SUBSET Nat
    BY <1>2
  <2>2. PICK k \in wrong : \A j \in wrong : k <= j
    <3> HIDE DEF wrong
    <3> QED BY <2>1, SmallestNat
  <2>3. k \in 0 .. n /\ ~ holds(k)
    OBVIOUS
  <2> HIDE DEF holds
  <2>4. k # 0
    BY <1>4, <2>3
  <2>5. k \in 1 .. n /\ k - 1 \in 0 .. n /\ ~ (k <= k - 1)
    BY <1>2, <2>3, <2>4
  <2>6. holds(k - 1)
    BY <2>2, <2>5
  <2> QED BY <1>5, <2>3, <2>5, <2>6
<1>7. holds(n)
  <2>1. n \in 0 .. n
    BY <1>2
  <2> HIDE DEF holds
  <2> QED BY <1>6, <2>1
<1>8. InPlace(v, g[n])
  BY <1>7
<1>9. ASSUME distinct PROVE Elements(g[n]) = ToSet(list)
  BY <1>3, <1>7, <1>9
<1> QED BY <1>1, <1>8, <1>9 DEF list

(* Loading an object as it was saved leaves it the same elements.            *)
LEMMA RebuiltSame ==
  ASSUME NEW v \in VM, NEW u, NEW object \in Object, InPlace(u, object.buckets)
  PROVE  LET x == Rebuilt(v, Listed(object)) IN
         /\ Elements(x.buckets) = Elements(object.buckets)
         /\ x.handles = object.handles /\ x.type = object.type
<1>1. /\ Listed(object) \in Image
      /\ Listed(object).handles = object.handles
      /\ Listed(object).type = object.type
      /\ Listed(object).elements = InOrder(object.buckets)
  BY ListedIs
<1>2. object.buckets \in [Buckets -> Seq(Element)]
  BY DEF Object
<1>3. ToSet(Listed(object).elements) = Elements(object.buckets)
  BY <1>1, <1>2, InOrderSet
<1>4. ASSUME NEW x \in Elements(object.buckets), NEW y \in Elements(object.buckets),
             x.key = y.key
      PROVE  x = y
  <2>1. PICK b \in Buckets : \E i \in DOMAIN object.buckets[b] :
          x = object.buckets[b][i]
    BY DEF Elements, ToSet
  <2>2. PICK c \in Buckets : \E j \in DOMAIN object.buckets[c] :
          y = object.buckets[c][j]
    BY DEF Elements, ToSet
  <2>3. Bucket(u, x.key) = b /\ Bucket(u, y.key) = c
    BY <2>1, <2>2 DEF InPlace
  <2>4. b = c
    BY <1>4, <2>3
  <2> QED BY <1>4, <2>1, <2>2, <2>4 DEF InPlace
<1>5. /\ Elements(Rebuilt(v, Listed(object)).buckets) = ToSet(Listed(object).elements)
  BY <1>1, <1>3, <1>4, RebuiltInPlace
<1> QED BY <1>1, <1>3, <1>5, RebuiltIs

(* What a program finds depends only on the elements.                        *)
LEMMA LookupIs ==
  ASSUME NEW v \in VM, NEW buckets \in [Buckets -> Seq(Element)],
         InPlace(v, buckets), NEW key \in Values
  PROVE  /\ \A x \in Elements(buckets) : x.key = key => Lookup(v, buckets, key) = x.value
         /\ (\A x \in Elements(buckets) : x.key # key) => Lookup(v, buckets, key) = Nil
<1> DEFINE b == Bucket(v, key)
           chain == buckets[b]
           i == Position(chain, key)
<1>1. b \in Buckets
  BY BucketIs
<1>2. chain \in Seq(Element) /\ Len(chain) \in Nat /\ DOMAIN chain = 1 .. Len(chain)
  BY <1>1
<1>3. /\ i \in 0 .. Len(chain)
      /\ i # 0 => chain[i].key = key
      /\ i = 0 <=> \A j \in 1 .. Len(chain) : chain[j].key # key
  BY <1>2, PositionIs
<1>4. Lookup(v, buckets, key) = IF i = 0 THEN Nil ELSE chain[i].value
  BY DEF Lookup
<1>5. \A j, k \in 1 .. Len(chain) : chain[j].key = chain[k].key => j = k
  BY <1>1, <1>2 DEF InPlace
<1>6. ASSUME NEW x \in Elements(buckets), x.key = key
      PROVE  \E j \in 1 .. Len(chain) : chain[j] = x
  <2>1. PICK c \in Buckets : \E j \in DOMAIN buckets[c] : x = buckets[c][j]
    BY DEF Elements, ToSet
  <2>2. Bucket(v, key) = c
    BY <1>6, <2>1 DEF InPlace
  <2> QED BY <1>2, <2>1, <2>2
<1> HIDE DEF i
<1>7. ASSUME NEW x \in Elements(buckets), x.key = key
      PROVE  Lookup(v, buckets, key) = x.value
  <2> HIDE DEF chain
  <2>1. PICK j \in 1 .. Len(chain) : chain[j] = x
    BY <1>6, <1>7
  <2>2. i # 0
    BY <1>3, <1>7, <2>1
  <2>3. i \in 1 .. Len(chain)
    BY <1>2, <1>3, <2>2
  <2>4. i = j
    BY <1>3, <1>5, <1>7, <2>1, <2>2, <2>3
  <2> QED BY <1>4, <2>1, <2>2, <2>4
<1>8. ASSUME \A x \in Elements(buckets) : x.key # key
      PROVE  Lookup(v, buckets, key) = Nil
  <2>1. \A j \in 1 .. Len(chain) : chain[j] \in Elements(buckets)
    BY <1>1, <1>2 DEF Elements, ToSet
  <2>2. i = 0
    BY <1>3, <1>8, <2>1
  <2> QED BY <1>4, <2>2
<1> QED BY <1>7, <1>8

LEMMA LookupSame ==
  ASSUME NEW u \in VM, NEW v \in VM, v.strings = u.strings,
         NEW buckets \in [Buckets -> Seq(Element)], InPlace(u, buckets),
         NEW other \in [Buckets -> Seq(Element)], InPlace(v, other),
         Elements(other) = Elements(buckets), NEW key \in Values
  PROVE  Lookup(v, other, key) = Lookup(u, buckets, key)
<1>1. /\ \A x \in Elements(buckets) : x.key = key => Lookup(u, buckets, key) = x.value
      /\ (\A x \in Elements(buckets) : x.key # key) => Lookup(u, buckets, key) = Nil
  BY LookupIs
<1>2. /\ \A x \in Elements(other) : x.key = key => Lookup(v, other, key) = x.value
      /\ (\A x \in Elements(other) : x.key # key) => Lookup(v, other, key) = Nil
  BY LookupIs
<1>3. CASE \E x \in Elements(buckets) : x.key = key
  BY <1>1, <1>2, <1>3
<1>4. CASE \A x \in Elements(buckets) : x.key # key
  BY <1>1, <1>2, <1>4
<1> QED BY <1>3, <1>4

-----------------------------------------------------------------------------
(* Fields and subsystems, as they are found in a VM that is loaded.          *)

(* What is read of an item that is not damaged.                              *)
Agreed(u, v, item) ==
  /\ item[1] = "statics" => v.statics = u.statics
  /\ item[1] = "root" => v.root = u.root
  /\ item[1] = "globals" => v.globals = u.globals
  /\ item[1] = "types" => v.types = u.types
  /\ item[1] = "subsystem" => item[3] \in ToSet(v.subsystems)
  /\ item[1] = "object" =>
       LET x == v.objects[item[2]]
           y == u.objects[item[2]]
       IN  /\ x.handles = y.handles /\ x.type = y.type
           /\ Elements(x.buckets) = Elements(y.buckets)

AgreedBy(u, v, p) == \A i \in 1 .. p : Agreed(u, v, Written(u)[i])

(* Whatever is damaged: no object is read before every string is.            *)
InPlaceInv ==
  /\ OneEach(vm) /\ OneEach(saved)
  /\ phase = "loading" =>
       /\ Findable(vm)
       /\ position - 1 <= AfterFunctions(saved) => vm.objects = Nothing
  /\ phase = "loaded" => Findable(vm)

AgreedInv ==
  /\ Findable(saved) /\ (phase = "running" => Findable(vm))
  /\ phase = "loading" /\ ~damaged => AgreedBy(saved, vm, position - 1)
  /\ LoadedIsSaved

(* What the other parts leave as it was.                                     *)
Alike(v, n) ==
  /\ n.statics = v.statics /\ n.root = v.root /\ n.strings = v.strings
  /\ n.objects = v.objects /\ n.globals = v.globals /\ n.types = v.types
  /\ n.subsystems = v.subsystems

LEMMA FindableCarry ==
  ASSUME NEW v, NEW n, n.strings = v.strings, n.objects = v.objects, Findable(v)
  PROVE  Findable(n)
BY BucketSame DEF Findable

LEMMA NothingFindable ==
  ASSUME NEW v, v.objects = Nothing
  PROVE  Findable(v)
BY DEF Findable, Nothing

LEMMA OneEachCarry ==
  ASSUME NEW v \in VM, NEW n \in VM, Len(n.subsystems) = Len(v.subsystems),
         \A i \in 1 .. Len(v.subsystems) :
           n.subsystems[i].name = v.subsystems[i].name,
         OneEach(v)
  PROVE  OneEach(n)
<1>1. \A S : \A s \in Seq(S) : DOMAIN s = 1 .. Len(s)
  OBVIOUS
<1>2. /\ DOMAIN v.subsystems = 1 .. Len(v.subsystems)
      /\ DOMAIN n.subsystems = 1 .. Len(v.subsystems)
  BY <1>1, FieldsAre
<1> QED BY <1>2 DEF OneEach

LEMMA FreshOneEach ==
  ASSUME NEW host \in Hosts
  PROVE  OneEach(Fresh(host))
<1>1. IsInjective(host.subsystems)
  BY SaveAssumption
<1>2. Fresh(host).subsystems = [i \in DOMAIN host.subsystems |->
                     [name |-> host.subsystems[i], data |-> Nil]]
  BY DEF Fresh
<1>3. \A i, j \in DOMAIN host.subsystems :
        host.subsystems[i] = host.subsystems[j] => i = j
  BY <1>1 DEF IsInjective
<1> QED BY <1>2, <1>3 DEF OneEach

(* The positions of the parts that matter.                                   *)
LEMMA BeforeObjects ==
  ASSUME NEW u \in VM, NEW i \in 1 .. AfterActive(u) + 1
  PROVE  /\ Written(u)[i][1] = "string" => i <= AfterFunctions(u)
         /\ Written(u)[i][1] = "object" => ~ (i <= AfterFunctions(u))
         /\ Written(u)[i] = <<"active", 0, "root">> \/
              (Written(u)[i][1] = "active" => Written(u)[i][3] = "coroutine")
         /\ Written(u)[i][1] = "active" /\ Written(u)[i][3] = "root" =>
              i = AfterActive(u) + 1
<1>1. ItemCases(u, i, Written(u)[i])
  BY ItemIs
<1>2. i \in Nat /\ Cardinality(Used(u.strings)) \in Nat /\ Cardinality(Used(u.objects)) \in Nat
  BY CountsAre
<1>3. ASSUME Written(u)[i][1] = "string" PROVE i <= AfterFunctions(u)
  <2>1. PICK k \in 1 .. Cardinality(Used(u.strings)) : i = 3 + k
    BY <1>1, <1>3 DEF ItemCases
  <2>2. i <= AfterStrings(u)
    BY <1>2, <2>1 DEF AfterStrings
  <2> QED BY <1>2, <2>2, Bounds
<1>4. ASSUME Written(u)[i][1] = "object" PROVE ~ (i <= AfterFunctions(u))
  <2>1. PICK k \in 1 .. Cardinality(Used(u.objects)) : i = AfterFunctions(u) + k
    BY <1>1, <1>4 DEF ItemCases
  <2>2. AfterFunctions(u) \in Nat
    BY <1>2, Bounds
  <2> QED BY <1>2, <2>1, <2>2
<1>5. ASSUME Written(u)[i][1] = "active"
      PROVE  \/ Written(u)[i][3] = "coroutine"
             \/ i = AfterActive(u) + 1 /\ Written(u)[i] = <<"active", 0, "root">>
  <2>1. \/ \E k \in 1 .. Len(u.active) :
             Written(u)[i] = <<"active", u.active[k], "coroutine">>
        \/ i = AfterActive(u) + 1 /\ Written(u)[i] = <<"active", 0, "root">>
    BY <1>1, <1>5 DEF ItemCases
  <2> QED BY <2>1
<1>6. "coroutine" # "root"
  OBVIOUS
<1> QED BY <1>3, <1>4, <1>5, <1>6

-----------------------------------------------------------------------------
(* What each step does to the fields and the subsystems.                     *)

LEMMA OthersAlike ==
  ASSUME vm \in VM,
         LoadNative \/ LoadFunction \/ LoadContext \/ LoadActive \/ LoadRoot
           \/ LoadTypes \/ CutShort \/ Reject
  PROVE  Alike(vm, vm')
<1>1. CASE vm' = vm
  BY <1>1 DEF Alike
<1>2. CASE Reject
  BY <1>2 DEF Reject, Alike, VM
<1>3. CASE LoadNative
  BY <1>3 DEF LoadNative, Accept, Alike, VM
<1>4. CASE LoadFunction
  BY <1>2, <1>4 DEF LoadFunction, Accept, Alike, VM
<1>5. CASE LoadContext
  BY <1>5 DEF LoadContext, Accept, Alike, VM
<1>6. CASE LoadActive
  BY <1>2, <1>6 DEF LoadActive, Accept, Alike, VM
<1>7. CASE LoadRoot
  BY <1>1, <1>2, <1>7 DEF LoadRoot
<1>8. CASE LoadTypes
  BY <1>1, <1>2, <1>8 DEF LoadTypes, Accept
<1>9. CASE CutShort
  BY <1>1, <1>9 DEF CutShort
<1> QED BY <1>2, <1>3, <1>4, <1>5, <1>6, <1>7, <1>8, <1>9

LEMMA ObjectImage ==
  ASSUME NEW u \in VM, NEW i \in 1 .. AfterActive(u) + 1,
         Written(u)[i][1] = "object"
  PROVE  /\ Written(u)[i][2] \in Used(u.objects)
         /\ u.objects[Written(u)[i][2]] \in Object
         /\ Written(u)[i][3] = Listed(u.objects[Written(u)[i][2]])
         /\ Written(u)[i][3] \in Image
<1>1. PICK k \in 1 .. Cardinality(Used(u.objects)) :
        Written(u)[i] = <<"object", Nth(Used(u.objects), k),
                          Listed(u.objects[Nth(Used(u.objects), k)])>>
  BY ObjectAt
<1>2. Used(u.objects) \in SUBSET Slots
  BY DEF Used
<1>3. Nth(Used(u.objects), k) \in Used(u.objects)
  BY <1>2, NthIs
<1>4. u.objects[Nth(Used(u.objects), k)] \in Object
  BY SMTT(20), ZenonT(30), <1>3, FieldsAre DEF Used
<1> QED BY <1>1, <1>3, <1>4, ListedIs

(* A step that reads an item, or ends the load.                              *)
Proceeds ==
  /\ phase = "loading" /\ saved' = saved /\ damaged' = damaged
  /\ stream' = stream
  /\ \/ /\ phase' = "loading" /\ position' = position + 1
        /\ position <= Len(stream)
     \/ phase' \in {"rejected", "loaded"}

LEMMA StepProceeds ==
  ASSUME LoadPlain \/ LoadString \/ LoadNative \/ LoadFunction \/ LoadObject
           \/ LoadTypes \/ LoadSubsystem \/ LoadContext \/ LoadActive \/ LoadRoot
           \/ CutShort
  PROVE  Proceeds
<1>1. CASE LoadPlain
  BY <1>1 DEF LoadPlain, Reading, Accept, Proceeds
<1>2. CASE LoadString
  BY <1>2 DEF LoadString, Reading, Accept, Reject, Proceeds
<1>3. CASE LoadNative
  BY <1>3 DEF LoadNative, Reading, Accept, Proceeds
<1>4. CASE LoadFunction
  BY <1>4 DEF LoadFunction, Reading, Accept, Reject, Proceeds
<1>5. CASE LoadObject
  BY <1>5 DEF LoadObject, Reading, Accept, Reject, Proceeds
<1>6. CASE LoadTypes
  BY <1>6 DEF LoadTypes, Reading, Accept, Reject, Proceeds
<1>7. CASE LoadSubsystem
  BY <1>7 DEF LoadSubsystem, Reading, Accept, Reject, Proceeds
<1>8. CASE LoadContext
  BY <1>8 DEF LoadContext, Reading, Accept, Proceeds
<1>9. CASE LoadActive
  BY <1>9 DEF LoadActive, Reading, Accept, Reject, Proceeds
<1>10. CASE LoadRoot
  BY <1>10 DEF LoadRoot, Reading, Reject, Proceeds
<1>11. CASE CutShort
  BY <1>11 DEF CutShort, Proceeds
<1> QED BY <1>1, <1>2, <1>3, <1>4, <1>5, <1>6, <1>7, <1>8, <1>9, <1>10, <1>11

(* A subsystem is found by its name, and keeps it.                           *)
Received(v, n, item) ==
  /\ Len(n.subsystems) = Len(v.subsystems)
  /\ \A i \in 1 .. Len(v.subsystems) :
       /\ n.subsystems[i].name = v.subsystems[i].name
       /\ v.subsystems[i].name # item.name => n.subsystems[i] = v.subsystems[i]
  /\ \E i \in 1 .. Len(v.subsystems) : n.subsystems[i] = item
  /\ n.statics = v.statics /\ n.root = v.root /\ n.strings = v.strings
  /\ n.objects = v.objects /\ n.globals = v.globals /\ n.types = v.types

LEMMA SubsystemReceived ==
  ASSUME vm \in VM, Item \in [name : Names, data : Values], LoadSubsystem
  PROVE  Reject \/ Received(vm, vm', Item)
<1> DEFINE found == SelectInSeq(vm.subsystems, LAMBDA s : s.name = Item.name)
           d == Item.data
           x == [vm.subsystems[found] EXCEPT !.data = d]
           t == [vm.subsystems EXCEPT ![found] = x]
<1>1. \/ found # 0 /\ Accept([vm EXCEPT !.subsystems[found].data = Item.data])
      \/ found = 0 /\ Reject
  BY DEF LoadSubsystem
<1>2. CASE found # 0 /\ Accept([vm EXCEPT !.subsystems[found].data = Item.data])
  <2>1. /\ found \in 0 .. Len(vm.subsystems)
        /\ found # 0 => vm.subsystems[found].name = Item.name
    <3>1. vm.subsystems \in Seq([name : Names, data : Values])
      BY FieldsAre
    <3>2. Len(vm.subsystems) \in Nat
      BY <3>1
    <3> DEFINE I == {i \in 1 .. Len(vm.subsystems) : vm.subsystems[i].name = Item.name}
    <3>3. found = IF I # {} THEN Min(I) ELSE 0
      BY DEF SelectInSeq
    <3>4. I \in SUBSET (1 .. Len(vm.subsystems))
      OBVIOUS
    <3>5. found \in 0 .. Len(vm.subsystems) /\ (found # 0 => found \in I)
      <4> HIDE DEF I, found
      <4> QED BY <3>2, <3>3, <3>4, LeastOf
    <3> QED BY <3>5
  <2>2. /\ vm.subsystems \in Seq([name : Names, data : Values])
        /\ Len(vm.subsystems) \in Nat
    <3>1. vm.subsystems \in Seq([name : Names, data : Values])
      BY FieldsAre
    <3> QED BY <3>1
  <2> HIDE DEF found
  <2>3. found \in 1 .. Len(vm.subsystems)
    BY <1>2, <2>1, <2>2
  <2>4. vm.subsystems[found] \in [name : Names, data : Values]
    <3>1. \A S : \A s \in Seq(S) : \A j \in 1 .. Len(s) : s[j] \in S
      OBVIOUS
    <3> QED BY <2>2, <2>3, <3>1
  <2>5. x = Item
    BY <1>2, <2>1, <2>4
  <2>6. vm' = [vm EXCEPT !.subsystems = t]
    BY <1>2 DEF Accept, VM
  <2> HIDE DEF x
  <2>7. \A S : \A s \in Seq(S) : \A j \in 1 .. Len(s) : \A y :
          LET r == [s EXCEPT ![j] = y] IN
          /\ Len(r) = Len(s) /\ r[j] = y
          /\ \A k \in 1 .. Len(s) : k # j => r[k] = s[k]
    OBVIOUS
  <2>8. /\ Len(t) = Len(vm.subsystems) /\ t[found] = Item
        /\ \A k \in 1 .. Len(vm.subsystems) : k # found => t[k] = vm.subsystems[k]
    BY <2>2, <2>3, <2>5, <2>7
  <2> HIDE DEF t
  <2>9. /\ vm'.subsystems = t
        /\ vm'.statics = vm.statics /\ vm'.root = vm.root
        /\ vm'.strings = vm.strings /\ vm'.objects = vm.objects
        /\ vm'.globals = vm.globals /\ vm'.types = vm.types
    BY <2>6 DEF VM
  <2>10. vm.subsystems[found].name = Item.name
    BY <1>2, <2>1
  <2> QED BY <2>3, <2>8, <2>9, <2>10 DEF Received
<1> QED BY <1>1, <1>2

LEMMA InPlaceKeeps ==
  ASSUME IInv, IInv', InPlaceInv, [Next]_vars
  PROVE  InPlaceInv'
<1>1. vm \in VM /\ vm' \in VM /\ saved \in VM
  BY DEF IInv, Typed, Proper
<1>2. OneEach(vm) /\ OneEach(saved)
  BY DEF InPlaceInv
<1>3. ASSUME Proceeds
      PROVE  /\ position \in Nat
             /\ phase' = "loading" =>
                  (position' - 1 <= AfterFunctions(saved') => vm.objects = Nothing)
             /\ Findable(vm) /\ saved' = saved
             /\ phase' \in {"loading", "loaded", "rejected"}
  <2>1. position \in Nat
    BY DEF IInv, Typed
  <2>2. AfterFunctions(saved) \in Nat
    BY <1>1, <2>1, Bounds
  <2>3. phase' = "loading" => position' - 1 = position
    BY <1>3, <2>1 DEF Proceeds
  <2>4. \A a, b \in Nat : b <= a => b - 1 <= a
    OBVIOUS
  <2>5. /\ Findable(vm)
        /\ position - 1 <= AfterFunctions(saved) => vm.objects = Nothing
    BY <1>3 DEF Proceeds, InPlaceInv
  <2> QED BY <1>3, <2>1, <2>2, <2>3, <2>4, <2>5 DEF Proceeds
<1>4. ASSUME Proceeds, vm'.objects = vm.objects, vm'.strings = vm.strings,
             OneEach(vm')
      PROVE  InPlaceInv'
  <2>1. Findable(vm')
    BY <1>3, <1>4, FindableCarry
  <2> QED BY <1>2, <1>3, <1>4, <2>1 DEF InPlaceInv
<1>5. ASSUME Proceeds, Alike(vm, vm') PROVE InPlaceInv'
  <2>1. OneEach(vm')
    BY <1>2, <1>5 DEF Alike, OneEach
  <2> QED BY <1>4, <1>5, <2>1 DEF Alike
<1>6. CASE UNCHANGED vars
  BY <1>6 DEF vars, InPlaceInv
<1>7. CASE Save
  BY <1>2, <1>7 DEF Save, InPlaceInv
<1>8. CASE Damage
  BY <1>2, <1>8 DEF Damage, InPlaceInv
<1>9. ASSUME NEW host \in Hosts, LoadBegin(host) PROVE InPlaceInv'
  <2>1. vm' = Fresh(host) /\ saved' = saved /\ phase' = "loading"
    BY <1>9 DEF LoadBegin
  <2>2. vm'.objects = Nothing
    BY <2>1, FreshIs
  <2>3. Findable(vm') /\ OneEach(vm')
    BY <2>1, <2>2, NothingFindable, FreshOneEach
  <2> QED BY <1>2, <2>1, <2>2, <2>3 DEF InPlaceInv
<1>10. CASE LoadPlain
  <2>1. Proceeds
    BY <1>10, StepProceeds
  <2>2. /\ vm'.objects = vm.objects /\ vm'.strings = vm.strings
        /\ vm'.subsystems = vm.subsystems
    BY <1>1, <1>10 DEF LoadPlain, Accept, VM
  <2>3. OneEach(vm')
    BY <1>2, <2>2 DEF OneEach
  <2> QED BY <1>4, <2>1, <2>2, <2>3
<1>11. CASE LoadString
  <2>1. Proceeds
    BY <1>11, StepProceeds
  <2>2. CASE Reject
    BY <1>1, <1>5, <2>1, <2>2, OthersAlike
  <2>3. CASE At \in Slots /\ Accept([vm EXCEPT !.strings[At] = Item])
    <3>1. /\ vm'.objects = vm.objects /\ vm'.subsystems = vm.subsystems
          /\ phase' = phase
      BY <1>1, <2>3 DEF Accept, VM
    <3>2. /\ phase = "loading" /\ position <= Len(stream)
          /\ stream[position][1] = "string"
      BY <1>11 DEF LoadString, Reading
    <3>3. /\ position \in 1 .. AfterActive(saved) + 1
          /\ Written(saved)[position][1] = "string"
      BY <3>2, ReadingIs
    <3>4. position <= AfterFunctions(saved)
      BY <1>1, <3>3, BeforeObjects
    <3>5. position - 1 <= AfterFunctions(saved)
      <4>1. \A a, b \in Nat : b <= a => b - 1 <= a
        OBVIOUS
      <4>2. AfterFunctions(saved) \in Nat /\ position \in Nat
        BY <1>1, <1>3, <2>1, Bounds
      <4> QED BY <3>4, <4>1, <4>2
    <3>6. vm'.objects = Nothing
      BY <3>1, <3>2, <3>5 DEF InPlaceInv
    <3>7. Findable(vm') /\ OneEach(vm')
      BY <1>2, <3>1, <3>6, NothingFindable DEF OneEach
    <3> QED BY <1>2, <1>3, <2>1, <3>6, <3>7 DEF InPlaceInv
  <2> QED BY <1>11, <2>2, <2>3 DEF LoadString
<1>12. CASE LoadObject
  <2>1. Proceeds
    BY <1>12, StepProceeds
  <2>2. CASE Reject
    BY <1>1, <1>5, <2>1, <2>2, OthersAlike
  <2>3. CASE At \in Slots /\ Accept([vm EXCEPT !.objects[At] = Rebuilt(vm, Item)])
    <3>1. /\ phase = "loading" /\ position <= Len(stream)
          /\ stream[position][1] = "object"
      BY <1>12 DEF LoadObject, Reading
    <3>2. /\ position \in 1 .. AfterActive(saved) + 1
          /\ Written(saved)[position][1] = "object"
          /\ Item = Written(saved)[position][3]
      BY <3>1, ReadingIs DEF Item
    <3>3. Item \in Image
      BY <1>1, <3>2, ObjectImage
    <3>4. /\ vm' = [vm EXCEPT !.objects[At] = Rebuilt(vm, Item)]
          /\ phase' = "loading" /\ position' = position + 1 /\ saved' = saved
      BY <2>3, <3>1 DEF Accept
    <3>5. /\ vm'.strings = vm.strings /\ vm'.subsystems = vm.subsystems
          /\ vm'.objects = [vm.objects EXCEPT ![At] = Rebuilt(vm, Item)]
      BY <1>1, <3>4 DEF VM
    <3>6. \A s \in Slots : vm'.objects[s] = IF s = At THEN Rebuilt(vm, Item)
                                                      ELSE vm.objects[s]
      BY <1>1, <2>3, <3>5, FieldsAre
    <3>7. InPlace(vm, Rebuilt(vm, Item).buckets)
      BY <1>1, <3>3, RebuiltInPlace
    <3>8. Findable(vm)
      BY <1>3, <2>1
    <3>9. Findable(vm')
      BY <3>5, <3>6, <3>7, <3>8, BucketSame DEF Findable
    <3>10. ~ (position' - 1 <= AfterFunctions(saved))
      <4>1. position' - 1 = position
        BY <1>3, <2>1, <3>4
      <4> QED BY <1>1, <3>2, <4>1, BeforeObjects
    <3>11. OneEach(vm')
      BY <1>2, <3>5 DEF OneEach
    <3> QED BY <1>2, <3>4, <3>9, <3>10, <3>11 DEF InPlaceInv
  <2> QED BY <1>12, <2>2, <2>3 DEF LoadObject
<1>13. CASE LoadSubsystem
  <2>1. Proceeds
    BY <1>13, StepProceeds
  <2>2. Item \in [name : Names, data : Values]
    <3>1. /\ phase = "loading" /\ position <= Len(stream)
          /\ stream[position][1] = "subsystem"
      BY <1>13 DEF LoadSubsystem, Reading
    <3>2. /\ position \in 1 .. AfterActive(saved) + 1
          /\ Written(saved)[position][1] = "subsystem" /\ Proper(saved)
          /\ Item = Written(saved)[position][3]
      BY <3>1, ReadingIs DEF Item
    <3> QED BY <3>2, RestIs
  <2>3. Alike(vm, vm') \/ Received(vm, vm', Item)
    BY <1>1, <1>13, <2>2, SubsystemReceived, OthersAlike
  <2>4. CASE Received(vm, vm', Item)
    <3>1. OneEach(vm')
      BY <1>1, <1>2, <2>4, OneEachCarry DEF Received
    <3> QED BY <1>4, <2>1, <2>4, <3>1 DEF Received
  <2> QED BY <1>5, <2>1, <2>3, <2>4
<1>14. CASE LoadNative \/ LoadFunction \/ LoadContext \/ LoadActive \/ LoadRoot
              \/ LoadTypes \/ CutShort
  BY <1>1, <1>5, <1>14, OthersAlike, StepProceeds
<1> QED BY <1>6, <1>7, <1>8, <1>9, <1>10, <1>11, <1>12, <1>13, <1>14 DEF Next

-----------------------------------------------------------------------------
(* What is read of a stream that is not damaged is what was saved.           *)

(* Everything that was read agreed before, and what is read now does.        *)
LEMMA AgreedNext ==
  ASSUME NEW u, NEW v, NEW n, NEW i \in Nat \ {0}, AgreedBy(u, v, i - 1),
         \A j \in 1 .. i : Agreed(u, v, Written(u)[j]) => Agreed(u, n, Written(u)[j]),
         Agreed(u, n, Written(u)[i])
  PROVE  AgreedBy(u, n, i)
<1>1. \A j \in 1 .. i : j \in 1 .. i - 1 \/ j = i
  OBVIOUS
<1> QED BY <1>1 DEF AgreedBy

LEMMA PositionNat ==
  ASSUME NEW u, Proper(u), NEW i \in 1 .. AfterActive(u) + 1
  PROVE  AfterActive(u) \in Nat /\ i \in Nat \ {0}
<1>1. AfterActive(u) \in Nat
  <2>1. u \in VM
    BY DEF Proper
  <2> QED BY <2>1, CountsAre DEF Offsets
<1> QED BY <1>1

LEMMA AgreedCarry ==
  ASSUME NEW u, NEW v, NEW n, Alike(v, n), NEW item, Agreed(u, v, item)
  PROVE  Agreed(u, n, item)
BY DEF Alike, Agreed

LEMMA PlainAgreed ==
  ASSUME NEW u, Proper(u), NEW v, NEW n, NEW i \in 1 .. AfterActive(u) + 1,
         AgreedBy(u, v, i - 1),
         n.strings = v.strings, n.objects = v.objects, n.types = v.types,
         n.subsystems = v.subsystems,
         n.statics = IF Written(u)[i][1] = "statics" THEN u.statics ELSE v.statics,
         n.root = IF Written(u)[i][1] = "root" THEN u.root ELSE v.root,
         n.globals = IF Written(u)[i][1] = "globals" THEN u.globals ELSE v.globals,
         Written(u)[i][1] \in {"errors", "statics", "root", "globals"}
  PROVE  AgreedBy(u, n, i)
<1>1. \A j \in 1 .. i : Agreed(u, v, Written(u)[j]) => Agreed(u, n, Written(u)[j])
  BY DEF Agreed
<1>2. Agreed(u, n, Written(u)[i])
  BY DEF Agreed
<1>3. i \in Nat \ {0}
  BY PositionNat
<1> QED BY <1>1, <1>2, <1>3, AgreedNext

LEMMA ObjectAgreed ==
  ASSUME NEW u, Proper(u), Findable(u), NEW v \in VM, NEW n,
         NEW i \in 1 .. AfterActive(u) + 1,
         AgreedBy(u, v, i - 1), Written(u)[i][1] = "object",
         n.statics = v.statics, n.root = v.root, n.globals = v.globals,
         n.types = v.types, n.subsystems = v.subsystems,
         n.objects = [v.objects EXCEPT ![Written(u)[i][2]] =
                        Rebuilt(v, Written(u)[i][3])]
  PROVE  AgreedBy(u, n, i)
<1> DEFINE slot == Written(u)[i][2]
           x == Rebuilt(v, Written(u)[i][3])
           y == u.objects[slot]
<1>1. /\ slot \in Slots /\ y # None /\ y \in Object
      /\ Written(u)[i][3] = Listed(y)
  BY ObjectImage DEF Proper, Used
<1>2. InPlace(u, y.buckets)
  BY <1>1 DEF Findable
<1> HIDE DEF x, y, slot
<1>3. /\ x.handles = y.handles /\ x.type = y.type
      /\ Elements(x.buckets) = Elements(y.buckets)
  <2>1. x = Rebuilt(v, Listed(y))
    BY <1>1 DEF x
  <2> QED BY <1>1, <1>2, <2>1, RebuiltSame
<1>4. n.objects = [v.objects EXCEPT ![slot] = x]
  BY DEF slot, x
<1>5. v.objects \in [Slots -> Object \cup {None}]
  BY FieldsAre
<1>6. n.objects[slot] = x /\ \A s : s # slot => n.objects[s] = v.objects[s]
  BY <1>1, <1>4, <1>5
<1>7. ASSUME NEW j \in 1 .. i, Agreed(u, v, Written(u)[j])
      PROVE  Agreed(u, n, Written(u)[j])
  <2>1. CASE Written(u)[j][2] = slot
    BY <1>3, <1>6, <1>7, <2>1 DEF Agreed, y
  <2>2. CASE Written(u)[j][2] # slot
    BY <1>6, <1>7, <2>2 DEF Agreed
  <2> QED BY <2>1, <2>2
<1>8. Agreed(u, n, Written(u)[i])
  BY <1>3, <1>6 DEF Agreed, y, slot
<1>9. i \in Nat \ {0}
  BY PositionNat
<1> QED BY <1>7, <1>8, <1>9, AgreedNext

(* Another subsystem keeps its data: its name is another.                    *)
LEMMA SubsystemAgreed ==
  ASSUME NEW u, Proper(u), OneEach(u), NEW v \in VM, NEW n \in VM,
         NEW i \in 1 .. AfterActive(u) + 1,
         AgreedBy(u, v, i - 1), Written(u)[i][1] = "subsystem",
         Received(v, n, Written(u)[i][3])
  PROVE  AgreedBy(u, n, i)
<1> DEFINE item == Written(u)[i][3]
<1>1. item \in ToSet(u.subsystems) /\ item \in [name : Names, data : Values]
  BY RestIs
<1>2. /\ DOMAIN v.subsystems = 1 .. Len(v.subsystems)
      /\ DOMAIN n.subsystems = 1 .. Len(n.subsystems)
  <2>1. \A S : \A s \in Seq(S) : DOMAIN s = 1 .. Len(s)
    OBVIOUS
  <2> QED BY <2>1, FieldsAre
<1>3. item \in ToSet(n.subsystems)
  BY <1>2 DEF Received, ToSet
<1>4. \A x, y \in ToSet(u.subsystems) : x.name = y.name => x = y
  BY DEF OneEach, ToSet
<1>5. AfterActive(u) \in Nat
  BY PositionNat
<1>6. ASSUME NEW j \in 1 .. i, Agreed(u, v, Written(u)[j])
      PROVE  Agreed(u, n, Written(u)[j])
  <2>1. /\ n.statics = v.statics /\ n.root = v.root
        /\ n.objects = v.objects /\ n.globals = v.globals /\ n.types = v.types
    BY DEF Received
  <2>2. ASSUME Written(u)[j][1] = "subsystem"
        PROVE  Written(u)[j][3] \in ToSet(n.subsystems)
    <3>1. j \in 1 .. AfterActive(u) + 1
      BY <1>5
    <3>2. Written(u)[j][3] \in ToSet(u.subsystems)
      BY <2>2, <3>1, RestIs
    <3>3. CASE Written(u)[j][3].name = item.name
      BY <1>1, <1>3, <1>4, <3>2, <3>3
    <3>4. CASE Written(u)[j][3].name # item.name
      <4>1. PICK k \in 1 .. Len(v.subsystems) : v.subsystems[k] = Written(u)[j][3]
        BY <1>2, <1>6, <2>2 DEF Agreed, ToSet
      <4>2. n.subsystems[k] = v.subsystems[k] /\ k \in DOMAIN n.subsystems
        BY <1>2, <3>4, <4>1 DEF Received
      <4> QED BY <4>1, <4>2 DEF ToSet
    <3> QED BY <3>3, <3>4
  <2> QED BY <1>6, <2>1, <2>2 DEF Agreed
<1>7. Agreed(u, n, Written(u)[i])
  BY <1>3 DEF Agreed
<1>8. i \in Nat \ {0}
  BY <1>5
<1> QED BY <1>6, <1>7, <1>8, AgreedNext

(* The parts read by other actions.                                          *)
LEMMA OtherAgreed ==
  ASSUME NEW u, Proper(u), NEW v, NEW n, NEW i \in 1 .. AfterActive(u) + 1,
         AgreedBy(u, v, i - 1), Alike(v, n),
         Written(u)[i][1] \in {"native", "function", "context", "active"}
           \/ (Written(u)[i][1] = "types" /\ n.types = u.types)
  PROVE  AgreedBy(u, n, i)
<1>1. \A j \in 1 .. i : Agreed(u, v, Written(u)[j]) => Agreed(u, n, Written(u)[j])
  BY AgreedCarry
<1>2. Agreed(u, n, Written(u)[i])
  BY DEF Agreed
<1>3. i \in Nat \ {0}
  BY PositionNat
<1> QED BY <1>1, <1>2, <1>3, AgreedNext

-----------------------------------------------------------------------------
(* At the end of the stream everything is read.                              *)

LEMMA AllRead ==
  ASSUME NEW u \in VM
  PROVE  LET p == AfterActive(u) IN
         /\ p \in Nat \ {0}
         /\ First(Used(u.strings), StringsBy(u, p)) = Used(u.strings)
         /\ First(Used(u.objects), ObjectsBy(u, p)) = Used(u.objects)
         /\ First(Used(u.contexts), ContextsBy(u, p)) = Used(u.contexts)
         /\ FunctionsBy(u, p) = Len(u.functions)
         /\ ActiveBy(u, p) = Len(u.active)
<1> DEFINE p == AfterActive(u)
           i == p + 1
<1>1. Offsets(u)
  BY CountsAre
<1>2. /\ p \in Nat \ {0} /\ i \in Nat \ {0} /\ i - 1 = p
      /\ AfterStrings(u) < i /\ AfterFunctions(u) < i /\ AfterObjects(u) < i
      /\ AfterContexts(u) < i /\ AfterActive(u) < i
  BY <1>1 DEF Offsets
<1> HIDE DEF p, i
<1>3. /\ Progress(3, AfterStrings(u), Cardinality(Used(u.strings)), i, StringsBy(u, i), StringsBy(u, i - 1))
      /\ Progress(AfterNatives(u), AfterFunctions(u), Len(u.functions), i, FunctionsBy(u, i), FunctionsBy(u, i - 1))
      /\ Progress(AfterFunctions(u), AfterObjects(u), Cardinality(Used(u.objects)), i, ObjectsBy(u, i), ObjectsBy(u, i - 1))
      /\ Progress(AfterSubsystems(u), AfterContexts(u), Cardinality(Used(u.contexts)), i, ContextsBy(u, i), ContextsBy(u, i - 1))
      /\ Progress(AfterContexts(u), AfterActive(u), Len(u.active), i, ActiveBy(u, i), ActiveBy(u, i - 1))
  BY <1>2, ByIs
<1>4. /\ StringsBy(u, p) = Cardinality(Used(u.strings))
      /\ ObjectsBy(u, p) = Cardinality(Used(u.objects))
      /\ ContextsBy(u, p) = Cardinality(Used(u.contexts))
      /\ FunctionsBy(u, p) = Len(u.functions)
      /\ ActiveBy(u, p) = Len(u.active)
  BY <1>2, <1>3 DEF Progress
<1>5. \A S \in SUBSET Slots : First(S, Cardinality(S)) = S
  BY FirstIs
<1>6. /\ Used(u.strings) \in SUBSET Slots /\ Used(u.objects) \in SUBSET Slots
      /\ Used(u.contexts) \in SUBSET Slots
  BY CountsAre
<1> QED BY <1>2, <1>4, <1>5, <1>6 DEF p

(* Where the parts are that Faithful does not speak of.                      *)
LEMMA RestPlaces ==
  ASSUME NEW u \in VM
  PROVE  LET Has(part, x) == \E i \in 1 .. AfterActive(u) : \E k :
               Written(u)[i] = <<part, k, x>>
         IN  /\ Has("statics", u.statics) /\ Has("root", u.root)
             /\ Has("globals", u.globals) /\ Has("types", u.types)
             /\ \A x \in ToSet(u.subsystems) : Has("subsystem", x)
             /\ \A s \in Used(u.objects) : \E i \in 1 .. AfterActive(u) :
                  Written(u)[i] = <<"object", s, Listed(u.objects[s])>>
<1> DEFINE w == Written(u)
           p == AfterActive(u)
           n == Cardinality(Used(u.objects))
           Has(part, x) == \E i \in 1 .. p : \E k : w[i] = <<part, k, x>>
<1>1. /\ Follows(One("statics", u.statics), 1, w)
      /\ Follows(One("root", u.root), 2, w)
      /\ Follows(Objects(u), AfterFunctions(u), w)
      /\ Follows(One("globals", u.globals), AfterObjects(u), w)
      /\ Follows(One("types", u.types), AfterObjects(u) + 1, w)
      /\ Follows(Each("subsystem", u.subsystems), AfterTypes(u), w)
  BY Sections
<1>2. /\ Offsets(u) /\ Len(u.subsystems) \in Nat /\ n \in Nat
      /\ Used(u.objects) \in SUBSET Slots
  BY CountsAre
<1>3. /\ AfterSubsystems(u) = AfterTypes(u) + Len(u.subsystems)
      /\ AfterObjects(u) = AfterFunctions(u) + n
  BY DEF AfterSubsystems, AfterObjects
<1>4. /\ u.statics \in Things /\ u.root \in Things
      /\ u.globals \in Things /\ u.types \in Things
      /\ u.subsystems \in Seq(Things)
  BY ThingsOf
<1> HIDE DEF w, p, n, Things
<1>5. ASSUME NEW part \in {"statics", "root", "globals", "types"},
             NEW x \in Things, NEW base \in Nat, base + 1 \in 1 .. p,
             Follows(One(part, x), base, w)
      PROVE  Has(part, x)
  <2>1. part \in Parts
    BY DEF Parts
  <2>2. w[base + 1] = <<part, 0, x>>
    BY <1>5, <2>1, FollowsOne
  <2> QED BY <1>5, <2>2
<1>6. /\ 1 \in Nat /\ 1 + 1 \in 1 .. p /\ 2 \in Nat /\ 2 + 1 \in 1 .. p
      /\ AfterObjects(u) \in Nat /\ AfterObjects(u) + 1 \in 1 .. p
      /\ (AfterObjects(u) + 1) \in Nat /\ (AfterObjects(u) + 1) + 1 \in 1 .. p
  BY <1>2 DEF Offsets, p
<1>7. Has("statics", u.statics)
  BY <1>1, <1>4, <1>5, <1>6
<1>8. Has("root", u.root)
  BY <1>1, <1>4, <1>5, <1>6
<1>9. Has("globals", u.globals)
  BY <1>1, <1>4, <1>5, <1>6
<1>10. Has("types", u.types)
  BY <1>1, <1>4, <1>5, <1>6
<1>11. /\ p \in Nat /\ AfterTypes(u) \in Nat /\ AfterSubsystems(u) \in Nat
       /\ AfterFunctions(u) \in Nat /\ AfterObjects(u) \in Nat
       /\ AfterSubsystems(u) <= p /\ AfterObjects(u) <= p
  BY <1>2 DEF Offsets, p
<1>12. \A a, m, b \in Nat : \A k \in 1 .. m : a + m <= b => a + k \in 1 .. b
  OBVIOUS
<1>13. ASSUME NEW x \in ToSet(u.subsystems) PROVE Has("subsystem", x)
  <2>1. PICK k \in DOMAIN u.subsystems : u.subsystems[k] = x
    BY DEF ToSet
  <2>2. k \in 1 .. Len(u.subsystems)
    <3>1. \A T : \A q \in Seq(T) : DOMAIN q = 1 .. Len(q)
      OBVIOUS
    <3> QED BY <1>4, <3>1
  <2>3. "subsystem" \in Parts
    BY DEF Parts
  <2>4. /\ Len(Each("subsystem", u.subsystems)) = Len(u.subsystems)
        /\ Each("subsystem", u.subsystems)[k] = <<"subsystem", k, x>>
    BY <1>4, <2>1, <2>2, <2>3, EachIs
  <2>5. AfterTypes(u) + k \in 1 .. p
    BY <1>2, <1>3, <1>11, <1>12, <2>2
  <2>6. w[AfterTypes(u) + k] = <<"subsystem", k, x>>
    BY <1>1, <2>2, <2>4 DEF Follows
  <2> QED BY <2>5, <2>6
<1>14. ASSUME NEW s \in Used(u.objects)
       PROVE  \E i \in 1 .. p : w[i] = <<"object", s, Listed(u.objects[s])>>
  <2>1. PICK k \in 1 .. n : Nth(Used(u.objects), k) = s
    BY <1>2, NthIs DEF n
  <2>2. /\ Len(Objects(u)) = n
        /\ Objects(u)[k] = <<"object", s, Listed(u.objects[s])>>
    BY <2>1, ObjectsAre DEF n
  <2>3. AfterFunctions(u) + k \in 1 .. p
    BY <1>2, <1>3, <1>11, <1>12, <2>1
  <2>4. w[AfterFunctions(u) + k] = <<"object", s, Listed(u.objects[s])>>
    BY <1>1, <2>2 DEF Follows
  <2> QED BY <2>3, <2>4
<1> QED BY <1>7, <1>8, <1>9, <1>10, <1>13, <1>14 DEF w, p

(* What is read that far and no further is what was saved.                   *)
LEMMA AllAgreed ==
  ASSUME NEW u \in VM, NEW v, AgreedBy(u, v, AfterActive(u))
  PROVE  /\ v.statics = u.statics /\ v.root = u.root
         /\ v.globals = u.globals /\ v.types = u.types
         /\ ToSet(u.subsystems) \subseteq ToSet(v.subsystems)
         /\ \A s \in Used(u.objects) :
              /\ v.objects[s].handles = u.objects[s].handles
              /\ v.objects[s].type = u.objects[s].type
              /\ Elements(v.objects[s].buckets) = Elements(u.objects[s].buckets)
<1> DEFINE p == AfterActive(u)
           w == Written(u)
           Has(part, x) == \E i \in 1 .. p : \E k : w[i] = <<part, k, x>>
<1>1. /\ Has("statics", u.statics) /\ Has("root", u.root)
      /\ Has("globals", u.globals) /\ Has("types", u.types)
      /\ \A x \in ToSet(u.subsystems) : Has("subsystem", x)
      /\ \A s \in Used(u.objects) : \E i \in 1 .. p :
           w[i] = <<"object", s, Listed(u.objects[s])>>
  BY RestPlaces
<1>2. \A i \in 1 .. p : Agreed(u, v, w[i])
  BY DEF AgreedBy
<1> HIDE DEF p, w
<1>3. v.statics = u.statics
  <2>1. PICK i \in 1 .. p : \E k : w[i] = <<"statics", k, u.statics>>
    BY <1>1
  <2> QED BY <1>2, <2>1 DEF Agreed
<1>4. v.root = u.root
  <2>1. PICK i \in 1 .. p : \E k : w[i] = <<"root", k, u.root>>
    BY <1>1
  <2> QED BY <1>2, <2>1 DEF Agreed
<1>5. v.globals = u.globals
  <2>1. PICK i \in 1 .. p : \E k : w[i] = <<"globals", k, u.globals>>
    BY <1>1
  <2> QED BY <1>2, <2>1 DEF Agreed
<1>6. v.types = u.types
  <2>1. PICK i \in 1 .. p : \E k : w[i] = <<"types", k, u.types>>
    BY <1>1
  <2> QED BY <1>2, <2>1 DEF Agreed
<1>7. ASSUME NEW x \in ToSet(u.subsystems) PROVE x \in ToSet(v.subsystems)
  <2>1. PICK i \in 1 .. p : \E k : w[i] = <<"subsystem", k, x>>
    BY <1>1
  <2> QED BY <1>2, <2>1 DEF Agreed
<1>8. ASSUME NEW s \in Used(u.objects)
      PROVE  /\ v.objects[s].handles = u.objects[s].handles
             /\ v.objects[s].type = u.objects[s].type
             /\ Elements(v.objects[s].buckets) = Elements(u.objects[s].buckets)
  <2>1. PICK i \in 1 .. p : w[i] = <<"object", s, Listed(u.objects[s])>>
    BY <1>1
  <2> QED BY <1>2, <2>1 DEF Agreed
<1> QED BY <1>3, <1>4, <1>5, <1>6, <1>7, <1>8

LEMMA KeysAre ==
  ASSUME NEW u \in VM
  PROVE  Keys(u) \subseteq Values
<1>1. ASSUME NEW s \in Slots, u.objects[s] # None,
             NEW e \in ToSet(InOrder(u.objects[s].buckets))
      PROVE  e.key \in Values
  <2>1. u.objects[s] \in Object
    BY <1>1, FieldsAre
  <2>2. InOrder(u.objects[s].buckets) \in Seq(Element)
    BY <2>1, InOrderIs DEF Object
  <2>3. \A S : \A q \in Seq(S) : \A i \in DOMAIN q : q[i] \in S
    OBVIOUS
  <2>4. e \in Element
    BY <1>1, <2>2, <2>3 DEF ToSet
  <2> QED BY <2>4 DEF Element
<1> QED BY <1>1 DEF Keys

LEMMA SavedMeans ==
  ASSUME NEW u, Proper(u), Findable(u), NEW v \in VM, Findable(v),
         Faithful(u, v, AfterActive(u)), AgreedBy(u, v, AfterActive(u))
  PROVE  /\ Meaning(v, Keys(u)) = Meaning(u, Keys(u))
         /\ ToSet(u.subsystems) \subseteq ToSet(v.subsystems)
<1> DEFINE p == AfterActive(u)
           keys == Keys(u)
           Fields(x) == [s \in Slots |->
             IF x.objects[s] = None THEN None
             ELSE <<x.objects[s].handles, x.objects[s].type,
                    [k \in keys |-> Lookup(x, x.objects[s].buckets, k)]>>]
           Functions(x) == [f \in DOMAIN x.functions |->
                              NativeName(x, x.functions[f])]
<1>0. u \in VM
  BY DEF Proper
<1>1. /\ p \in Nat \ {0}
      /\ First(Used(u.strings), StringsBy(u, p)) = Used(u.strings)
      /\ First(Used(u.objects), ObjectsBy(u, p)) = Used(u.objects)
      /\ First(Used(u.contexts), ContextsBy(u, p)) = Used(u.contexts)
      /\ FunctionsBy(u, p) = Len(u.functions)
      /\ ActiveBy(u, p) = Len(u.active)
  BY <1>0, AllRead
<1>2. /\ FunctionsRead(u, v, p) /\ StringsRead(u, v, p) /\ ObjectsRead(u, v, p)
      /\ ContextsRead(u, v, p) /\ ActiveRead(u, v, p) /\ ErrorsRead(u, v, p)
  BY DEF Faithful
<1>3. /\ v.statics = u.statics /\ v.root = u.root
      /\ v.globals = u.globals /\ v.types = u.types
      /\ ToSet(u.subsystems) \subseteq ToSet(v.subsystems)
      /\ \A s \in Used(u.objects) :
           /\ v.objects[s].handles = u.objects[s].handles
           /\ v.objects[s].type = u.objects[s].type
           /\ Elements(v.objects[s].buckets) = Elements(u.objects[s].buckets)
  BY <1>0, AllAgreed
<1>4. /\ u.strings \in [Slots -> Contents \cup {None}]
      /\ v.strings \in [Slots -> Contents \cup {None}]
      /\ u.contexts \in [Slots -> Context \cup {None}]
      /\ v.contexts \in [Slots -> Context \cup {None}]
      /\ u.objects \in [Slots -> Object \cup {None}]
      /\ v.objects \in [Slots -> Object \cup {None}]
      /\ u.active \in Seq(Slots) /\ v.active \in Seq(Slots)
  BY <1>0, FieldsAre
<1>5. /\ DOMAIN u.functions = 1 .. Len(u.functions)
      /\ DOMAIN v.functions = 1 .. Len(v.functions)
  BY <1>0 DEF VM
<1> HIDE DEF p, keys
<1>6. v.errors = u.errors
  BY <1>1, <1>2 DEF ErrorsRead
<1>7. v.strings = u.strings
  <2>1. \A s \in Slots : v.strings[s] = u.strings[s]
    BY <1>1, <1>2 DEF StringsRead, Used
  <2> QED BY <1>4, <2>1
<1>8. v.contexts = u.contexts
  <2>1. \A s \in Slots : v.contexts[s] = u.contexts[s]
    BY <1>1, <1>2 DEF ContextsRead, Used
  <2> QED BY <1>4, <2>1
<1>9. v.active = u.active
  <2>1. Len(v.active) = Len(u.active) /\ \A k \in 1 .. Len(v.active) : v.active[k] = u.active[k]
    BY <1>1, <1>2 DEF ActiveRead
  <2>2. \A S : \A a, b \in Seq(S) :
          Len(a) = Len(b) /\ (\A k \in 1 .. Len(a) : a[k] = b[k]) => a = b
    OBVIOUS
  <2> QED BY <1>4, <2>1, <2>2
<1>10. Functions(v) = Functions(u)
  <2>1. /\ Len(v.functions) = Len(u.functions)
        /\ \A k \in 1 .. Len(v.functions) :
             NativeName(v, v.functions[k]) = NativeName(u, u.functions[k])
    BY <1>1, <1>2 DEF FunctionsRead
  <2> QED BY <1>5, <2>1
<1>11. ASSUME NEW s \in Used(u.objects), NEW k \in keys
       PROVE  Lookup(v, v.objects[s].buckets, k) = Lookup(u, u.objects[s].buckets, k)
  <2>1. s \in Slots /\ u.objects[s] # None
    BY DEF Used
  <2>2. v.objects[s] # None
    BY <1>1, <1>2, <2>1 DEF ObjectsRead
  <2>3. u.objects[s] \in Object /\ v.objects[s] \in Object
    BY <1>4, <2>1, <2>2
  <2>4. /\ u.objects[s].buckets \in [Buckets -> Seq(Element)]
        /\ v.objects[s].buckets \in [Buckets -> Seq(Element)]
    BY <2>3 DEF Object
  <2>5. InPlace(u, u.objects[s].buckets) /\ InPlace(v, v.objects[s].buckets)
    BY <2>1, <2>2 DEF Findable
  <2>6. k \in Values
    BY <1>0, KeysAre DEF keys
  <2>7. Elements(v.objects[s].buckets) = Elements(u.objects[s].buckets)
    BY <1>3
  <2> QED BY <1>0, <1>7, <2>4, <2>5, <2>6, <2>7, LookupSame
<1>12. Fields(v) = Fields(u)
  <2>1. ASSUME NEW s \in Slots
        PROVE  (IF v.objects[s] = None THEN None
                ELSE <<v.objects[s].handles, v.objects[s].type,
                       [k \in keys |-> Lookup(v, v.objects[s].buckets, k)]>>)
             = (IF u.objects[s] = None THEN None
                ELSE <<u.objects[s].handles, u.objects[s].type,
                       [k \in keys |-> Lookup(u, u.objects[s].buckets, k)]>>)
    <3>1. v.objects[s] # None <=> u.objects[s] # None
      BY <1>1, <1>2 DEF ObjectsRead, Used
    <3>2. CASE u.objects[s] # None
      <4>1. s \in Used(u.objects)
        BY <3>2 DEF Used
      <4>2. [k \in keys |-> Lookup(v, v.objects[s].buckets, k)]
              = [k \in keys |-> Lookup(u, u.objects[s].buckets, k)]
        BY <1>11, <4>1
      <4> QED BY <1>3, <3>1, <3>2, <4>1, <4>2
    <3> QED BY <3>1, <3>2
  <2> QED BY <2>1
<1>13. /\ Meaning(v, keys) = <<v.errors, v.statics, v.root, v.strings, v.globals,
                               v.types, v.contexts, v.active, Functions(v), Fields(v)>>
       /\ Meaning(u, keys) = <<u.errors, u.statics, u.root, u.strings, u.globals,
                               u.types, u.contexts, u.active, Functions(u), Fields(u)>>
  BY DEF Meaning
<1> HIDE DEF Functions, Fields
<1>14. Meaning(v, keys) = Meaning(u, keys)
  BY <1>3, <1>6, <1>7, <1>8, <1>9, <1>10, <1>12, <1>13
<1> QED BY <1>3, <1>14 DEF keys

(* What a step reads of a stream that is not damaged.                        *)
LEMMA ReadsWritten ==
  ASSUME IInv, AgreedInv, ~damaged, NEW part, Reading(part)
  PROVE  /\ saved \in VM /\ Proper(saved) /\ vm \in VM /\ Findable(saved)
         /\ position \in 1 .. AfterActive(saved) + 1
         /\ Written(saved)[position][1] = part
         /\ Item = Written(saved)[position][3]
         /\ At = Written(saved)[position][2]
         /\ Faithful(saved, vm, position - 1)
         /\ AgreedBy(saved, vm, position - 1)
<1>1. phase = "loading" /\ position <= Len(stream) /\ stream[position][1] = part
  BY DEF Reading
<1>2. /\ saved \in VM /\ Proper(saved) /\ vm \in VM
      /\ position \in 1 .. AfterActive(saved) + 1
      /\ Faithful(saved, vm, position - 1)
      /\ stream[position] = Written(saved)[position]
  BY <1>1, ReadingIs
<1>3. Findable(saved) /\ AgreedBy(saved, vm, position - 1)
  BY <1>1 DEF AgreedInv
<1> QED BY <1>1, <1>2, <1>3 DEF Item, At

LEMMA AgreedKeeps ==
  ASSUME IInv, InPlaceInv, AgreedInv, IInv', [Next]_vars
  PROVE  AgreedInv'
<1>1. Findable(saved)
  BY DEF AgreedInv
<1>2. ASSUME Proceeds, phase' # "loaded",
             phase' = "loading" /\ ~damaged => AgreedBy(saved, vm', position)
      PROVE  AgreedInv'
  <2>1. saved' = saved /\ damaged' = damaged /\ phase' # "running"
    BY <1>2 DEF Proceeds
  <2>2. phase' = "loading" => position' - 1 = position
    <3>1. position \in Nat
      BY DEF IInv, Typed
    <3> QED BY <1>2, <3>1 DEF Proceeds
  <2>3. (phase = "loading" /\ ~damaged => AgreedBy(saved, vm, position - 1))'
    BY <1>2, <2>1, <2>2
  <2>4. LoadedIsSaved'
    BY <1>2 DEF LoadedIsSaved
  <2> QED BY <1>1, <2>1, <2>3, <2>4 DEF AgreedInv
<1>3. CASE UNCHANGED vars
  BY <1>3 DEF vars, AgreedInv, LoadedIsSaved
<1>4. CASE Save
  <2>1. Findable(vm)
    BY <1>4 DEF Save, Outside, AgreedInv, InPlaceInv
  <2>2. saved' = vm /\ phase' = "saved"
    BY <1>4 DEF Save
  <2> QED BY <2>1, <2>2 DEF AgreedInv, LoadedIsSaved
<1>5. CASE Damage
  <2>1. saved' = saved /\ phase' = "saved"
    BY <1>5 DEF Damage
  <2> QED BY <1>1, <2>1 DEF AgreedInv, LoadedIsSaved
<1>6. ASSUME NEW host \in Hosts, LoadBegin(host) PROVE AgreedInv'
  <2>1. saved' = saved /\ phase' = "loading" /\ position' = 1
    BY <1>6 DEF LoadBegin
  <2>2. AgreedBy(saved', vm', position' - 1)
    <3>1. \A i \in 1 .. position' - 1 : FALSE
      BY <2>1
    <3> QED BY <3>1 DEF AgreedBy
  <2> QED BY <1>1, <2>1, <2>2 DEF AgreedInv, LoadedIsSaved
<1>7. CASE LoadPlain
  <2>1. Proceeds /\ phase' = "loading"
    BY <1>7, StepProceeds DEF LoadPlain, Reading, Accept
  <2>2. ASSUME ~damaged PROVE AgreedBy(saved, vm', position)
    <3>1. PICK part \in {"errors", "statics", "root", "globals"} : Reading(part)
      BY <1>7 DEF LoadPlain
    <3>2. /\ Proper(saved) /\ vm \in VM
          /\ position \in 1 .. AfterActive(saved) + 1
          /\ Written(saved)[position][1] = part
          /\ Item = Written(saved)[position][3]
          /\ AgreedBy(saved, vm, position - 1)
      BY <2>2, <3>1, ReadsWritten
    <3>3. stream[position][1] = part
      BY <3>1 DEF Reading
    <3>4. \/ part = "errors" /\ vm' = [vm EXCEPT !.errors = Item]
          \/ part = "statics" /\ vm' = [vm EXCEPT !.statics = Item]
          \/ part = "root" /\ vm' = [vm EXCEPT !.root = Item]
          \/ part = "globals" /\ vm' = [vm EXCEPT !.globals = Item]
      BY <1>7, <3>3 DEF LoadPlain, Reading, Accept
    <3>5. /\ part = "statics" => Item = saved.statics
          /\ part = "root" => Item = saved.root
          /\ part = "globals" => Item = saved.globals
      BY <3>2, RestIs
    <3>6. /\ vm'.strings = vm.strings /\ vm'.objects = vm.objects
          /\ vm'.types = vm.types /\ vm'.subsystems = vm.subsystems
          /\ vm'.statics = IF part = "statics" THEN saved.statics ELSE vm.statics
          /\ vm'.root = IF part = "root" THEN saved.root ELSE vm.root
          /\ vm'.globals = IF part = "globals" THEN saved.globals ELSE vm.globals
      BY <3>2, <3>4, <3>5 DEF VM
    <3> QED BY <3>2, <3>6, PlainAgreed
  <2> QED BY <1>2, <2>1, <2>2
<1>8. CASE LoadString
  <2>1. Proceeds
    BY <1>8, StepProceeds
  <2>2. CASE Reject
    BY <1>2, <2>1, <2>2 DEF Reject
  <2>3. CASE At \in Slots /\ Accept([vm EXCEPT !.strings[At] = Item])
    <3>1. phase' = "loading" /\ vm' = [vm EXCEPT !.strings[At] = Item]
      BY <2>1, <2>3 DEF Accept, Proceeds
    <3>2. ASSUME ~damaged PROVE AgreedBy(saved, vm', position)
      <4>1. Reading("string")
        BY <1>8 DEF LoadString
      <4>2. /\ saved \in VM /\ vm \in VM /\ position \in 1 .. AfterActive(saved) + 1
            /\ Written(saved)[position][1] = "string"
            /\ AgreedBy(saved, vm, position - 1)
        BY <3>2, <4>1, ReadsWritten
      <4>3. /\ vm'.statics = vm.statics /\ vm'.root = vm.root
            /\ vm'.objects = vm.objects /\ vm'.globals = vm.globals
            /\ vm'.types = vm.types /\ vm'.subsystems = vm.subsystems
        BY <3>1, <4>2 DEF VM
      <4>4. \A item : Agreed(saved, vm, item) => Agreed(saved, vm', item)
        BY <4>3 DEF Agreed
      <4>5. Agreed(saved, vm', Written(saved)[position])
        BY <4>2 DEF Agreed
      <4>6. position \in Nat \ {0}
        <5>1. AfterActive(saved) \in Nat
          BY <4>2, CountsAre DEF Offsets
        <5> QED BY <4>2, <5>1
      <4> QED BY <4>2, <4>4, <4>5, <4>6, AgreedNext
    <3> QED BY <1>2, <2>1, <3>1, <3>2
  <2> QED BY <1>8, <2>2, <2>3 DEF LoadString
<1>9. CASE LoadObject
  <2>1. Proceeds
    BY <1>9, StepProceeds
  <2>2. CASE Reject
    BY <1>2, <2>1, <2>2 DEF Reject
  <2>3. CASE At \in Slots /\ Accept([vm EXCEPT !.objects[At] = Rebuilt(vm, Item)])
    <3>1. /\ phase' = "loading"
          /\ vm' = [vm EXCEPT !.objects[At] = Rebuilt(vm, Item)]
      BY <2>1, <2>3 DEF Accept, Proceeds
    <3>2. ASSUME ~damaged PROVE AgreedBy(saved, vm', position)
      <4>1. Reading("object")
        BY <1>9 DEF LoadObject
      <4>2. /\ Proper(saved) /\ Findable(saved) /\ vm \in VM
            /\ position \in 1 .. AfterActive(saved) + 1
            /\ Written(saved)[position][1] = "object"
            /\ Item = Written(saved)[position][3]
            /\ At = Written(saved)[position][2]
            /\ AgreedBy(saved, vm, position - 1)
        BY <3>2, <4>1, ReadsWritten
      <4>3. /\ vm'.statics = vm.statics /\ vm'.root = vm.root
            /\ vm'.globals = vm.globals /\ vm'.types = vm.types
            /\ vm'.subsystems = vm.subsystems
            /\ vm'.objects = [vm.objects EXCEPT ![At] = Rebuilt(vm, Item)]
        BY <3>1, <4>2 DEF VM
      <4> QED BY <4>2, <4>3, ObjectAgreed
    <3> QED BY <1>2, <2>1, <3>1, <3>2
  <2> QED BY <1>9, <2>2, <2>3 DEF LoadObject
<1>10. ASSUME NEW part \in {"native", "function", "context", "active"},
              Reading(part), Proceeds, phase' # "loaded", Alike(vm, vm')
       PROVE  AgreedInv'
  <2>1. ASSUME ~damaged PROVE AgreedBy(saved, vm', position)
    <3>1. /\ Proper(saved) /\ position \in 1 .. AfterActive(saved) + 1
          /\ Written(saved)[position][1] = part
          /\ AgreedBy(saved, vm, position - 1)
      BY <1>10, <2>1, ReadsWritten
    <3> QED BY <1>10, <3>1, OtherAgreed
  <2> QED BY <1>2, <1>10, <2>1
<1>11. vm \in VM
  BY DEF IInv, Typed
<1>12. CASE LoadTypes
  <2>1. Proceeds /\ Alike(vm, vm')
    BY <1>11, <1>12, StepProceeds, OthersAlike
  <2>2. CASE Reject
    BY <1>2, <2>1, <2>2 DEF Reject
  <2>3. CASE Item = vm.types /\ Accept(vm)
    <3>1. phase' = "loading" /\ vm' = vm
      BY <2>1, <2>3 DEF Accept, Proceeds
    <3>2. ASSUME ~damaged PROVE AgreedBy(saved, vm', position)
      <4>1. Reading("types")
        BY <1>12 DEF LoadTypes
      <4>2. /\ Proper(saved) /\ position \in 1 .. AfterActive(saved) + 1
            /\ Written(saved)[position][1] = "types"
            /\ Item = Written(saved)[position][3]
            /\ AgreedBy(saved, vm, position - 1)
        BY <3>2, <4>1, ReadsWritten
      <4>3. vm'.types = saved.types
        BY <2>3, <3>1, <4>2, RestIs
      <4> QED BY <2>1, <4>2, <4>3, OtherAgreed
    <3> QED BY <1>2, <2>1, <3>1, <3>2
  <2> QED BY <1>12, <2>2, <2>3 DEF LoadTypes
<1>13. CASE LoadSubsystem
  <2>1. Proceeds /\ phase' # "loaded" /\ Reading("subsystem")
    BY <1>13, StepProceeds DEF LoadSubsystem, Reading, Accept, Reject
  <2>2. CASE Reject
    BY <1>2, <2>1, <2>2 DEF Reject
  <2>3. CASE ~ Reject
    <3>1. ASSUME ~damaged PROVE AgreedBy(saved, vm', position)
      <4>1. /\ saved \in VM /\ Proper(saved) /\ vm \in VM
            /\ position \in 1 .. AfterActive(saved) + 1
            /\ Written(saved)[position][1] = "subsystem"
            /\ Item = Written(saved)[position][3]
            /\ AgreedBy(saved, vm, position - 1)
        BY <2>1, <3>1, ReadsWritten
      <4>2. Item \in [name : Names, data : Values]
        BY <4>1, RestIs
      <4>3. Received(vm, vm', Item)
        BY <1>13, <2>3, <4>1, <4>2, SubsystemReceived
      <4>4. OneEach(saved) /\ vm' \in VM
        BY DEF InPlaceInv, IInv, Typed
      <4> QED BY <4>1, <4>3, <4>4, SubsystemAgreed
    <3> QED BY <1>2, <2>1, <3>1
  <2> QED BY <2>2, <2>3
<1>14. CASE LoadNative
  <2>1. Reading("native") /\ phase' # "loaded"
    BY <1>14 DEF LoadNative, Reading, Accept
  <2> QED BY <1>10, <1>11, <1>14, <2>1, StepProceeds, OthersAlike
<1>15. CASE LoadFunction
  <2>1. Reading("function") /\ phase' # "loaded"
    BY <1>15 DEF LoadFunction, Reading, Accept, Reject
  <2> QED BY <1>10, <1>11, <1>15, <2>1, StepProceeds, OthersAlike
<1>16. CASE LoadContext
  <2>1. Reading("context") /\ phase' # "loaded"
    BY <1>16 DEF LoadContext, Reading, Accept
  <2> QED BY <1>10, <1>11, <1>16, <2>1, StepProceeds, OthersAlike
<1>17. CASE LoadActive
  <2>1. Reading("active") /\ phase' # "loaded"
    BY <1>17 DEF LoadActive, Reading, Accept, Reject
  <2> QED BY <1>10, <1>11, <1>17, <2>1, StepProceeds, OthersAlike
<1>18. CASE LoadRoot
  <2>1. Proceeds /\ Reading("active") /\ Item = "root"
    BY <1>18, StepProceeds DEF LoadRoot
  <2>2. CASE Reject
    BY <1>2, <2>1, <2>2 DEF Reject
  <2>3. CASE /\ phase' = "loaded"
             /\ UNCHANGED <<vm, saved, stream, position, mapping, damaged>>
    <3>1. ASSUME ~damaged
          PROVE  /\ Meaning(vm, Keys(saved)) = Meaning(saved, Keys(saved))
                 /\ ToSet(saved.subsystems) \subseteq ToSet(vm.subsystems)
      <4>1. /\ saved \in VM /\ Proper(saved) /\ Findable(saved) /\ vm \in VM
            /\ position \in 1 .. AfterActive(saved) + 1
            /\ Written(saved)[position][1] = "active"
            /\ Item = Written(saved)[position][3]
            /\ Faithful(saved, vm, position - 1)
            /\ AgreedBy(saved, vm, position - 1)
        BY <2>1, <3>1, ReadsWritten
      <4>2. position = AfterActive(saved) + 1
        BY <2>1, <4>1, BeforeObjects
      <4>3. position - 1 = AfterActive(saved)
        <5>1. AfterActive(saved) \in Nat
          BY <4>1, CountsAre DEF Offsets
        <5> QED BY <4>2, <5>1
      <4>4. Findable(vm)
        BY <2>1 DEF Proceeds, InPlaceInv
      <4> QED BY <4>1, <4>3, <4>4, SavedMeans
    <3>2. LoadedIsSaved'
      BY <2>3, <3>1 DEF LoadedIsSaved
    <3> QED BY <1>1, <2>3, <3>2 DEF AgreedInv
  <2> QED BY <1>18, <2>2, <2>3 DEF LoadRoot
<1>19. CASE CutShort
  BY <1>2, <1>19, StepProceeds DEF CutShort
<1> QED BY <1>3, <1>4, <1>5, <1>6, <1>7, <1>8, <1>9, <1>12, <1>13, <1>14, <1>15,
           <1>16, <1>17, <1>18, <1>19 DEF Next

(* No two subsystems have one name, and every field is where it is found,    *)
(* whatever the stream has become: objects are read after every string is,   *)
(* so no bucket is chosen by a string that is not there yet.                 *)
THEOREM InPlaceTheorem == Spec => []InPlaceInv
<1>1. Init => InPlaceInv
  <2> SUFFICES ASSUME Init PROVE InPlaceInv
    OBVIOUS
  <2>1. vm \in Running /\ saved = vm /\ phase = "running"
    BY DEF Init
  <2>2. OneEach(vm)
    BY <2>1, RunningAssumption
  <2> QED BY <2>1, <2>2 DEF InPlaceInv
<1>2. IInv /\ IInv' /\ InPlaceInv /\ [Next]_vars => InPlaceInv'
  BY InPlaceKeeps
<1> QED BY <1>1, <1>2, InvariantTheorem, PTL DEF Spec

(* A VM that is loaded is one that can run, whatever item of the stream was  *)
(* damaged (the checks of nksave.c and nkiCoroutineLibrary).                 *)
THEOREM SaneTheorem == Spec => []LoadedIsSane
<1>1. IInv /\ InPlaceInv => LoadedIsSane
  BY DEF IInv, InPlaceInv, LoadedIsSane, Outside
<1> QED BY <1>1, InvariantTheorem, InPlaceTheorem, PTL

(* A VM that is loaded from a stream that is not damaged means what the one  *)
(* that was saved did, if every field of that one was found: its keys are    *)
(* found by the hashes they have in the VM that loads, in chains in another  *)
(* order (nkiVmSerializeObject, nkiVmSerializeExternalSubsystems).           *)
THEOREM SavedTheorem ==
  ASSUME Usual
  PROVE  Spec => []LoadedIsSaved
<1>1. Init => AgreedInv
  <2> SUFFICES ASSUME Init PROVE AgreedInv
    OBVIOUS
  <2>1. vm \in Running /\ saved = vm /\ phase = "running"
    BY DEF Init
  <2>2. Findable(vm)
    BY <2>1 DEF Usual
  <2> QED BY <2>1, <2>2 DEF AgreedInv, LoadedIsSaved
<1>2. IInv /\ IInv' /\ InPlaceInv /\ AgreedInv /\ [Next]_vars => AgreedInv'
  BY AgreedKeeps
<1>3. AgreedInv => LoadedIsSaved
  BY DEF AgreedInv
<1> QED BY <1>1, <1>2, <1>3, InvariantTheorem, InPlaceTheorem, PTL DEF Spec
=============================================================================
