------------------------------ MODULE NkFields ------------------------------
(***************************************************************************)
(* The fields of objects (nkobjs.c), and what compaction does to them and  *)
(* to everything else that refers to an object or string (nkshrink.c).     *)
(*                                                                         *)
(* A reference is the index of a slot in the object or string table.  An   *)
(* object keeps its fields in hash buckets, each a list; the bucket of a   *)
(* key comes from its hash: the index for an object, the content for a     *)
(* string, the value otherwise.  Compaction moves an object or string to   *)
(* another slot and rewrites the references it can find.                   *)
(*                                                                         *)
(* Which slots are compacted in which order is in NkTable, which objects   *)
(* are garbage in NkGc.                                                    *)
(***************************************************************************)
EXTENDS Integers, FiniteSets, SequencesExt
(* An operator with an underscore in its name is a faulty variant of the   *)
(* one that follows it; no action uses it.                                 *)

CONSTANTS
  Objects,        \* objects that may come to exist
  Coroutines,     \* those whose external type is that of coroutines
  Strings,        \* contents of strings
  Literals,       \* those the compiler keeps (dontGC)
  Atoms,          \* the other values: numbers, functions, nil
  Nil,
  Zero,           \* what the memory of a new element reads as: integer 0
  NaNs,           \* atoms: floats that are not equal to themselves
  FirstEqual,     \* atom -> the first that is equal: 0.0 for -0.0, or itself
  None,           \* an empty slot
  SlotCount,      \* slots of each table
  BucketCount,
  HashOf,         \* hash of an atom, or of a string's content
  MaxFieldsPerObject,
  ScriptPlaces,   \* where a script holds values: stack, global variables
  MaxElements,    \* bound: elements in all objects together
  Unusual         \* "object keys", "suspended stack": see below

Slots == 0 .. SlotCount - 1
Kinds == {"object", "string"}
Refs == {<<kind, slot>> : kind \in Kinds, slot \in Slots}
Values == Atoms \cup Refs
Things == Objects \cup Strings

(* Besides the script, the host holds an object behind a handle, and, if   *)
(* unusual, the stack of a suspended coroutine holds a value.              *)
Places == ScriptPlaces \cup {"host"}
            \cup (IF "suspended stack" \in Unusual THEN {"suspended"} ELSE {})

ASSUME FieldsAssumption ==
  /\ ScriptPlaces \cap {"host", "suspended"} = {}
  /\ IsFiniteSet(Objects) /\ IsFiniteSet(Strings) /\ IsFiniteSet(Atoms)
  /\ Objects \cap Strings = {} /\ Things \cap Atoms = {}
  /\ Refs \cap Atoms = {}
  /\ None \notin Things
  /\ Coroutines \subseteq Objects /\ Literals \subseteq Strings
  /\ {Nil, Zero} \subseteq Atoms /\ Nil # Zero
  /\ SlotCount \in Nat /\ BucketCount \in Nat \ {0}
  /\ HashOf \in [Strings \cup Atoms -> Nat]
  /\ MaxFieldsPerObject \in Nat /\ MaxElements \in Nat

(* The bits of 0.0 and -0.0 are different hashes.  They differ in bit 31,  *)
(* and a bucket comes from the lowest four.                                *)
ASSUME NumbersAssumption ==
  /\ NaNs \subseteq Atoms
  /\ FirstEqual \in [Atoms -> Atoms]
  /\ \A a \in Atoms :
       /\ FirstEqual[FirstEqual[a]] = FirstEqual[a]
       /\ FirstEqual[a] \in NaNs => a \in NaNs
       /\ HashOf[FirstEqual[a]] % BucketCount = HashOf[a] % BucketCount

VARIABLES
  table,     \* kind -> slot -> object, string or None
  buckets,   \* object -> bucket -> list of elements
  size,      \* object -> its cached number of elements
  held,      \* place -> value
  failed     \* the error list is not empty

vars == <<table, buckets, size, held, failed>>

Element == [key : Values, value : Values]
Empty == [b \in 0 .. BucketCount - 1 |-> <<>>]

TypeOK ==
  /\ table \in [Kinds -> [Slots -> Things \cup {None}]]
  /\ buckets \in [Objects -> [0 .. BucketCount - 1 -> Seq(Element)]]
  /\ size \in [Objects -> Nat]
  /\ held \in [Places -> Values]
  /\ failed \in BOOLEAN

Init ==
  /\ table = [kind \in Kinds |-> [slot \in Slots |-> None]]
  /\ buckets = [o \in Objects |-> Empty]
  /\ size = [o \in Objects |-> 0]
  /\ held = [p \in Places |-> Nil]
  /\ failed = FALSE

-----------------------------------------------------------------------------
(* Lookup.                                                                 *)

At(ref) == table[ref[1]][ref[2]]

Hash(v) ==
  IF v \in Refs
    THEN IF v[1] = "object" THEN v[2] ELSE HashOf[At(v)]
    ELSE HashOf[v]

Bucket(v) == Hash(v) % BucketCount

Chain(o, k) == buckets[o][Bucket(k)]

(* Two keys are one, in spite of different bits, or not even if the same.  *)
KeyOf(v) == IF v \in Atoms THEN FirstEqual[v] ELSE v
Equal_ByBits(v, w) == v = w
Equal(v, w) == {v, w} \cap NaNs = {} /\ KeyOf(v) = KeyOf(w)

(* Where a chain has a key: 0 if it does not.                              *)
Position(chain, k) == SelectInSeq(chain, LAMBDA e : Equal(k, e.key))

Field(o, k) ==
  LET i == Position(Chain(o, k), k)
  IN  IF i = 0 THEN Nil ELSE Chain(o, k)[i].value

WithChain(o, k, chain) == [buckets EXCEPT ![o][Bucket(k)] = chain]

-----------------------------------------------------------------------------
(* Instructions and calls of the host.                                     *)

(* What an instruction may have as an operand: a value held or a literal.  *)
Operands == Atoms \cup {held[p] : p \in Places}
IsObject(v) == v \in Refs /\ v[1] = "object"
HeldObject(p) == IF IsObject(held[p]) THEN At(held[p]) ELSE None

(* A new object in any empty slot.                                         *)
CreateObject(p) ==
  \E o \in Objects, slot \in Slots :
    /\ \A s \in Slots : table["object"][s] # o
    /\ table["object"][slot] = None
    /\ table' = [table EXCEPT !["object"][slot] = o]
    /\ buckets' = [buckets EXCEPT ![o] = Empty]
    /\ size' = [size EXCEPT ![o] = 0]
    /\ held' = [held EXCEPT ![p] = <<"object", slot>>]
    /\ UNCHANGED failed

(* A string is stored once: the slot it has, or a new one.                 *)
FindOrAddString(p) ==
  \E s \in Strings, slot \in Slots :
    /\ \/ table["string"][slot] = s /\ UNCHANGED table
       \/ /\ \A t \in Slots : table["string"][t] # s
          /\ table["string"][slot] = None
          /\ table' = [table EXCEPT !["string"][slot] = s]
    /\ held' = [held EXCEPT ![p] = <<"string", slot>>]
    /\ UNCHANGED <<buckets, size, failed>>

PushAtom(p) ==
  /\ \E v \in Atoms : held' = [held EXCEPT ![p] = v]
  /\ UNCHANGED <<table, buckets, size, failed>>

Copy(p, q) ==
  /\ q = "host" => IsObject(held[p])
  /\ held' = [held EXCEPT ![q] = held[p]]
  /\ UNCHANGED <<table, buckets, size, failed>>

ReleaseHandle ==
  /\ held' = [held EXCEPT !["host"] = Nil]
  /\ UNCHANGED <<table, buckets, size, failed>>

FieldGet(p, po, k) ==
  LET o == HeldObject(po)
  IN  /\ o \in Objects
      /\ held' = [held EXCEPT ![p] = Field(o, k)]
      /\ UNCHANGED <<table, buckets, size, failed>>

ClearEntry_Uncounted(o, k) ==
  LET chain == Chain(o, k)
      i == Position(chain, k)
  IN  /\ buckets' = WithChain(o, k, IF i = 0 THEN chain ELSE RemoveAt(chain, i))
      /\ UNCHANGED <<size, failed>>

ClearEntry(o, k) ==
  LET chain == Chain(o, k)
      i == Position(chain, k)
  IN  \/ /\ i = 0
         /\ UNCHANGED <<buckets, size, failed>>
      \/ /\ i # 0
         /\ buckets' = WithChain(o, k, RemoveAt(chain, i))
         /\ size' = [size EXCEPT ![o] = @ - 1]
         /\ UNCHANGED failed

(* A new element is linked first and counted then: over the limit it stays *)
(* in the list without a value.                                            *)
FindOrAddEntry_Unsearched(o, k, v) ==
  /\ size[o] < MaxFieldsPerObject
  /\ buckets' = WithChain(o, k, Cons([key |-> k, value |-> v], Chain(o, k)))
  /\ size' = [size EXCEPT ![o] = @ + 1]
  /\ UNCHANGED failed

FindOrAddEntry(o, k, v) ==
  LET chain == Chain(o, k)
      i == Position(chain, k)
  IN  \/ /\ i # 0
         /\ buckets' = WithChain(o, k, [chain EXCEPT ![i].value = v])
         /\ UNCHANGED <<size, failed>>
      \/ /\ i = 0
         /\ size[o] < MaxFieldsPerObject
         /\ FoldFunction(+, 0, size) < MaxElements
         /\ buckets' = WithChain(o, k, Cons([key |-> k, value |-> v], chain))
         /\ size' = [size EXCEPT ![o] = @ + 1]
         /\ UNCHANGED failed
      \/ /\ i = 0
         /\ size[o] >= MaxFieldsPerObject
         /\ buckets' = WithChain(o, k, Cons([key |-> k, value |-> Zero], chain))
         /\ failed' = TRUE
         /\ UNCHANGED size

FieldSet(po, k, v) ==
  LET o == HeldObject(po)
  IN  /\ o \in Objects
      /\ "object keys" \in Unusual \/ ~IsObject(k)
      /\ \/ v = Nil /\ ClearEntry(o, k)
         \/ v # Nil /\ FindOrAddEntry(o, k, v)
      /\ UNCHANGED <<table, held>>

-----------------------------------------------------------------------------
(* Collection and compaction.                                              *)

Elements(o) == UNION {ToSet(buckets[o][b]) : b \in DOMAIN buckets[o]}
Live == {o \in Objects : \E slot \in Slots : table["object"][slot] = o}

Referenced ==
  {held[p] : p \in Places}
    \cup UNION {{e.key, e.value} : e \in UNION {Elements(o) : o \in Live}}

(* Anything without a reference to it may be swept.                        *)
CleanOldObject(slot) ==
  /\ table["object"][slot] # None
  /\ <<"object", slot>> \notin Referenced
  /\ table' = [table EXCEPT !["object"][slot] = None]
  /\ buckets' = [buckets EXCEPT ![table["object"][slot]] = Empty]
  /\ size' = [size EXCEPT ![table["object"][slot]] = 0]
  /\ UNCHANGED <<held, failed>>

CleanOldString(slot) ==
  /\ table["string"][slot] \notin Literals \cup {None}
  /\ <<"string", slot>> \notin Referenced
  /\ table' = [table EXCEPT !["string"][slot] = None]
  /\ UNCHANGED <<buckets, size, held, failed>>

MayMove_Handles(kind, slot) ==
  IF kind = "object" THEN table[kind][slot] \notin Coroutines
                     ELSE table[kind][slot] \notin Literals

MayMove(kind, slot) ==
  IF kind = "object"
    THEN /\ held["host"] # <<"object", slot>>
         /\ table[kind][slot] \notin Coroutines
    ELSE table[kind][slot] \notin Literals

(* Every reference that is found in the stack of the current context, in   *)
(* the global variables and in objects; not the one behind a handle, and   *)
(* not one on another stack.                                               *)
MoveReferences_ValuesOnly(from, to) ==
  LET moved(v) == IF v = from THEN to ELSE v
  IN  /\ held' = [p \in Places |->
                    IF p \in ScriptPlaces THEN moved(held[p]) ELSE held[p]]
      /\ buckets' = [o \in Objects |-> [b \in DOMAIN buckets[o] |->
           [i \in DOMAIN buckets[o][b] |->
              [buckets[o][b][i] EXCEPT !.value = moved(@)]]]]

MoveReferences(from, to) ==
  LET moved(v) == IF v = from THEN to ELSE v
  IN  /\ held' = [p \in Places |->
                    IF p \in ScriptPlaces THEN moved(held[p]) ELSE held[p]]
      /\ buckets' = [o \in Objects |-> [b \in DOMAIN buckets[o] |->
           [i \in DOMAIN buckets[o][b] |->
              [key |-> moved(buckets[o][b][i].key),
               value |-> moved(buckets[o][b][i].value)]]]]

Move(kind, old, new) ==
  /\ new < old
  /\ table[kind][new] = None
  /\ table[kind][old] # None
  /\ MayMove(kind, old)
  /\ table' = [table EXCEPT ![kind] = [@ EXCEPT ![new] = table[kind][old],
                                                ![old] = None]]
  /\ MoveReferences(<<kind, old>>, <<kind, new>>)
  /\ UNCHANGED <<size, failed>>

Next ==
  /\ ~failed
  /\ \/ \E p \in ScriptPlaces :
          \/ CreateObject(p) \/ FindOrAddString(p) \/ PushAtom(p)
          \/ \E q \in Places : Copy(p, q)
          \/ \E po \in Places, k \in Operands : FieldGet(p, po, k)
     \/ \E po \in Places, k, v \in Operands : FieldSet(po, k, v)
     \/ ReleaseHandle
     \/ \E slot \in Slots : CleanOldObject(slot) \/ CleanOldString(slot)
     \/ \E kind \in Kinds, old, new \in Slots : Move(kind, old, new)

Spec == Init /\ [][Next]_vars

-----------------------------------------------------------------------------
(* Properties.                                                             *)

(* Every reference, wherever it is held, is to something that exists.      *)
ReferencesStay ==
  \A v \in Referenced \cap Refs : At(v) # None

(* Every element whose key is not NaN is in the list where a search for    *)
(* its key looks, and is what that finds: no two keys of an object are     *)
(* equal, and collection and compaction change the slots behind keys and   *)
(* leave elements findable.                                                *)
KeysFindable ==
  \A o \in Live : \A b \in DOMAIN buckets[o] :
    \A i \in DOMAIN buckets[o][b] :
      LET k == buckets[o][b][i].key
      IN  k \notin NaNs => Bucket(k) = b /\ Position(buckets[o][b], k) = i

(* "The keys and values for this hash table can be any of the basic types" *)
(* (README.md:282 of the repository), floats among them: whatever a field  *)
(* was set under, a search for that finds it.  With NaN it does not.       *)
AnyKeyFindable ==
  \A o \in Live : \A b \in DOMAIN buckets[o] :
    \A i \in DOMAIN buckets[o][b] :
      Position(buckets[o][b], buckets[o][b][i].key) = i

Names == Things \cup Atoms
Denoted(v) == IF v \in Refs THEN At(v) ELSE v

(* What fields are found under: one of 0.0 and -0.0, and not NaN.          *)
KeyNamed == [n \in Names |-> KeyOf(n)]
KeyNames == {KeyNamed[n] : n \in Names \ NaNs}

(* The values by which a program can name n: one, or none if it is not in  *)
(* a table.                                                                *)
RefsTo(n) == IF n \in Atoms THEN {n} ELSE {v \in Refs : At(v) = n}

FieldNamed(o, n) ==
  LET found == {Denoted(f) : f \in {Field(o, v) : v \in RefsTo(n)}}
  IN  IF found = {} THEN Nil ELSE CHOOSE f \in found : TRUE

(* The elements of o, as pairs of a bucket and a place in it, that were    *)
(* set under NaN.                                                          *)
Unfindable(o) ==
  UNION {{b} \X {i \in DOMAIN buckets[o][b] : buckets[o][b][i].key \in NaNs} :
           b \in DOMAIN buckets[o]}

(* len(), until an error, is the number of fields a program can find and   *)
(* of those it set under NaN, each of which counts for ever: the cached    *)
(* count follows every way in and out.                                     *)
LenCountsFields ==
  ~failed => \A o \in Live :
    size[o] = Cardinality({n \in KeyNames : FieldNamed(o, n) # Nil})
                + Cardinality(Unfindable(o))

(* Objects are maps that follow each object wherever it is moved, from any *)
(* value to any value, with one key for equal numbers and none for NaN:    *)
(* what a program reads and writes by lookup in buckets is what NkFieldMap *)
(* says.                                                                   *)
Map == INSTANCE NkFieldMap WITH
  Plain <- Strings \cup Atoms,
  Equals <- KeyNamed,
  NoKeys <- NaNs,
  fields <- [o \in Objects |-> [n \in KeyNames |-> FieldNamed(o, n)]],
  held <- [p \in Places |-> Denoted(held[p])]
ImplementsFieldMap == Map!Spec
=============================================================================
