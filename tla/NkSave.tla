------------------------------- MODULE NkSave -------------------------------
(***************************************************************************)
(* Saving a VM to a stream and loading it into another (nksave.c).         *)
(*                                                                         *)
(* One function per part of the VM both writes and reads it, so the order  *)
(* of the parts is the same in both directions, and what a part needs to   *)
(* be read has to be read before it.  A stream is a sequence of items, one *)
(* for each record of a part; counts and capacities are implied by it.     *)
(* The stream may end early, and may have one item damaged.                *)
(*                                                                         *)
(* The host decides which C functions, external types and subsystems the   *)
(* VM that loads has.  Slot tables and the cut in their middle are in      *)
(* NkTable.                                                                *)
(***************************************************************************)
EXTENDS Integers, FiniteSets, SequencesExt
(* An operator with an underscore in its name is a faulty variant of the   *)
(* one that follows it; no action uses it.                                 *)

CONSTANTS
  SlotCount,     \* slots of the object and string tables
  BucketCount,   \* hash buckets of an object
  Contents,      \* contents of strings
  Atoms,         \* values that are no references, integers and nil
  Nil,
  None,
  HashOf,        \* hash of a content or an atom
  Names,         \* names of C functions, types, subsystems, variables
  Running,       \* VMs a host may have when it first saves
  Hosts          \* what a host has set up when it loads

Slots == 0 .. SlotCount - 1
Buckets == 0 .. BucketCount - 1

Values == Atoms \cup ({"string", "object"} \X Slots)
                \cup ({"function"} \X (Nat \ {0}))

Element == [key : Values, value : Values]

(* Types are numbered, coroutines first; 0 is none.                        *)
CoroutineType == 1
Object == [buckets : [Buckets -> Seq(Element)], handles : Nat, type : Nat]
Image == [elements : Seq(Element), handles : Nat, type : Nat]  \* in a stream
States == {"invalid", "created", "running", "finished"}
Context == [stack : Seq(Values), state : States]

(* A C function is known by name, and to scripts by the function made for  *)
(* it, if any; a function is one of a script or for a C function.          *)
Native == [name : Names, function : Nat \cup {None}]

VM == [errors : Nat,
       statics : Seq(Values),
       root : Seq(Values),                       \* stack of the root context
       strings : [Slots -> Contents \cup {None}],
       natives : Seq(Native),
       functions : Seq(Nat \cup {None}),
       objects : [Slots -> Object \cup {None}],
       globals : Seq(Names),
       types : Seq(Names),
       subsystems : Seq([name : Names, data : Values]),
       contexts : [Slots -> Context \cup {None}],
       active : Seq(Slots)]   \* from the current context up to below the root

ASSUME SaveAssumption ==
  /\ SlotCount \in Nat /\ BucketCount \in Nat \ {0}
  /\ Nil \in Atoms /\ None \notin Atoms \cup Contents
  /\ HashOf \in [Atoms \cup Contents -> Nat]
  /\ None \notin Nat \cup Object \cup Image \cup Context
  /\ \A host \in Hosts :
       /\ host.natives \in Seq(Names) /\ host.types \in Seq(Names)
       /\ host.subsystems \in Seq(Names) /\ IsInjective(host.subsystems)

IsCoroutine(v, slot) ==
  v.objects[slot] # None /\ v.objects[slot].type = CoroutineType

(* What the rest of the library makes and keeps: a context for each object *)
(* of a coroutine and for no other, and active ones that run, each once.   *)
Proper(v) ==
  /\ v \in VM
  /\ v.functions \in Seq((DOMAIN v.natives) \cup {None})
  /\ \A s \in Slots : v.contexts[s] # None <=> IsCoroutine(v, s)
  /\ IsInjective(v.active)
  /\ \A i \in DOMAIN v.active :
       /\ IsCoroutine(v, v.active[i])
       /\ v.contexts[v.active[i]].state = "running"

(* A subsystem is looked for before it is added.                           *)
OneEach(v) ==
  \A i, j \in DOMAIN v.subsystems :
    v.subsystems[i].name = v.subsystems[j].name => i = j

ASSUME RunningAssumption == \A v \in Running : Proper(v) /\ OneEach(v)

VARIABLES
  vm,        \* the VM the host has
  saved,     \* the VM the stream was written from
  stream,
  position,  \* of the next item to read
  mapping,   \* C function of the stream -> C function of the VM
  damaged,   \* the stream is not as it was written
  phase

vars == <<vm, saved, stream, position, mapping, damaged, phase>>

Parts == {"errors", "statics", "root", "string", "native", "function",
          "object", "globals", "types", "subsystem", "context", "active"}
Outside == {"running", "loaded"}   \* the host has a VM to run

TypeOK ==
  /\ \A v \in {vm, saved} :
       /\ v \in VM
       /\ v.functions \in Seq((DOMAIN v.natives) \cup {None})
  /\ \A i \in DOMAIN stream : stream[i][1] \in Parts
  /\ position \in 1 .. Len(stream) + 1
  /\ mapping \in Seq((1 .. Len(vm.natives)) \cup {None})
  /\ damaged \in BOOLEAN
  /\ phase \in Outside \cup {"saved", "loading", "rejected"}

Init ==
  /\ vm \in Running
  /\ saved = vm
  /\ stream = <<>> /\ position = 1 /\ mapping = <<>>
  /\ damaged = FALSE
  /\ phase = "running"

-----------------------------------------------------------------------------
(* Objects.                                                                *)

Hash(v, value) ==
  IF value \in Atoms THEN HashOf[value]
  ELSE IF value[1] # "string" THEN value[2]
  ELSE IF v.strings[value[2]] = None THEN 0
  ELSE HashOf[v.strings[value[2]]]

Bucket(v, key) == Hash(v, key) % BucketCount

Position(chain, key) == SelectInSeq(chain, LAMBDA e : e.key = key)

(* nkiVmObjectFindOrAddEntry: a new element is the first of its bucket.    *)
Added(v, buckets, e) ==
  LET b == Bucket(v, e.key)
      i == Position(buckets[b], e.key)
  IN  IF i = 0 THEN [buckets EXCEPT ![b] = Cons(e, @)]
               ELSE [buckets EXCEPT ![b][i].value = e.value]

(* A field, as a program finds it: by the bucket its key hashes to.        *)
Lookup(v, buckets, key) ==
  LET chain == buckets[Bucket(v, key)]
      i == Position(chain, key)
  IN  IF i = 0 THEN Nil ELSE chain[i].value

(* Every element is found by its key.                                      *)
InPlace(v, buckets) ==
  \A b \in Buckets :
    /\ \A i \in DOMAIN buckets[b] : Bucket(v, buckets[b][i].key) = b
    /\ \A i, j \in DOMAIN buckets[b] :
         buckets[b][i].key = buckets[b][j].key => i = j

InOrder(buckets) == FlattenSeq([b \in 1 .. BucketCount |-> buckets[b - 1]])

-----------------------------------------------------------------------------
(* Writing.                                                                *)

One(part, value) == << <<part, 0, value>> >>

Each(part, seq) == [i \in 1 .. Len(seq) |-> <<part, i, seq[i]>>]

Used(table) == {s \in Slots : table[s] # None}

Nth(slots, i) == CHOOSE s \in slots : Cardinality({t \in slots : t < s}) = i - 1

BySlot(part, table) ==
  LET used == Used(table)
  IN  [i \in 1 .. Cardinality(used) |->
         <<part, Nth(used, i), table[Nth(used, i)]>>]

Listed(object) ==
  [elements |-> InOrder(object.buckets),
   handles |-> object.handles, type |-> object.type]

Objects(v) ==
  BySlot("object", [s \in Slots |->
    IF v.objects[s] = None THEN None ELSE Listed(v.objects[s])])

(* The chain of active contexts, closed by the root, which is nil.         *)
Active(v) ==
  [i \in 1 .. Len(v.active) |-> <<"active", v.active[i], "coroutine">>]
    \o << <<"active", 0, "root">> >>

Written_ObjectsFirst(v) ==
  One("errors", v.errors) \o One("statics", v.statics) \o One("root", v.root)
    \o Objects(v)
    \o BySlot("string", v.strings)
    \o Each("native", v.natives) \o Each("function", v.functions)
    \o One("globals", v.globals) \o One("types", v.types)
    \o Each("subsystem", v.subsystems)
    \o BySlot("context", v.contexts)
    \o Active(v)

Written(v) ==
  One("errors", v.errors) \o One("statics", v.statics) \o One("root", v.root)
    \o BySlot("string", v.strings)
    \o Each("native", v.natives) \o Each("function", v.functions)
    \o Objects(v)
    \o One("globals", v.globals) \o One("types", v.types)
    \o Each("subsystem", v.subsystems)
    \o BySlot("context", v.contexts)
    \o Active(v)

Save ==
  /\ phase \in Outside
  /\ stream' = Written(vm)
  /\ saved' = vm
  /\ damaged' = FALSE
  /\ position' = 1 /\ mapping' = <<>>
  /\ phase' = "saved"
  /\ UNCHANGED vm

(* A slot, or a reference to a C function, reads as another.               *)
Damage ==
  /\ phase = "saved" /\ ~damaged
  /\ \E i \in DOMAIN stream :
       \/ /\ stream[i][1] \in {"string", "object", "active"}
          /\ \E slot \in Slots \cup {SlotCount} :
               stream' = [stream EXCEPT ![i][2] = slot]
       \/ /\ stream[i][1] = "active"
          /\ stream' = [stream EXCEPT ![i][3] =
                          IF @ = "root" THEN "coroutine" ELSE "root"]
       \/ /\ stream[i][1] = "function"
          /\ \E n \in 1 .. Len(saved.natives) + 1 :
               stream' = [stream EXCEPT ![i][3] = n]
  /\ damaged' = TRUE
  /\ UNCHANGED <<vm, saved, position, mapping, phase>>

-----------------------------------------------------------------------------
(* Reading.                                                                *)

Nothing == [s \in Slots |-> None]

Fresh(host) ==
  [errors |-> 0, statics |-> <<>>, root |-> <<>>,
   strings |-> Nothing, objects |-> Nothing, contexts |-> Nothing,
   natives |-> [i \in DOMAIN host.natives |->
                  [name |-> host.natives[i], function |-> None]],
   functions |-> <<>>, globals |-> <<>>, types |-> host.types,
   subsystems |-> [i \in DOMAIN host.subsystems |->
                     [name |-> host.subsystems[i], data |-> Nil]],
   active |-> <<>>]

LoadBegin(host) ==
  /\ phase \in {"saved", "rejected"}
  /\ vm' = Fresh(host)
  /\ position' = 1 /\ mapping' = <<>>
  /\ phase' = "loading"
  /\ UNCHANGED <<saved, stream, damaged>>

Reading(part) ==
  /\ phase = "loading"
  /\ position <= Len(stream)
  /\ stream[position][1] = part

At == stream[position][2]
Item == stream[position][3]

(* What an item that is accepted does to the VM.                           *)
Accept(newVM) ==
  /\ vm' = newVM
  /\ position' = position + 1
  /\ UNCHANGED <<saved, stream, damaged, phase>>

(* nkiVmSerialize returns false, with an error.                            *)
Reject ==
  /\ vm' = [vm EXCEPT !.errors = @ + 1]
  /\ phase' = "rejected"
  /\ UNCHANGED <<saved, stream, position, mapping, damaged>>

(* The host's reader has no more data: false, without an error.            *)
CutShort ==
  /\ phase = "loading"
  /\ phase' = "rejected"
  /\ UNCHANGED <<vm, saved, stream, position, mapping, damaged>>

LoadPlain ==
  /\ UNCHANGED mapping
  /\ \/ Reading("errors") /\ Accept([vm EXCEPT !.errors = Item])
     \/ Reading("statics") /\ Accept([vm EXCEPT !.statics = Item])
     \/ Reading("root") /\ Accept([vm EXCEPT !.root = Item])
     \/ Reading("globals") /\ Accept([vm EXCEPT !.globals = Item])

LoadString ==
  /\ Reading("string")
  /\ \/ /\ At \in Slots
        /\ vm.strings[At] = None
        /\ Accept([vm EXCEPT !.strings[At] = Item])
        /\ UNCHANGED mapping
     \/ /\ \/ At \notin Slots
           \/ At \in Slots /\ vm.strings[At] # None
        /\ Reject

(* A C function is looked for by name.  The function it had is forgotten   *)
(* for every one that is passed on the way.                                *)
LoadNative ==
  LET found == SelectInSeq(vm.natives, LAMBDA n : n.name = Item.name)
      passed == IF found = 0 THEN Len(vm.natives) ELSE found - 1
  IN  /\ Reading("native")
      /\ Accept([vm EXCEPT !.natives = [i \in DOMAIN @ |->
           IF i <= passed THEN [@[i] EXCEPT !.function = None]
           ELSE IF i = found THEN [@[i] EXCEPT !.function = Item.function]
           ELSE @[i]]])
      /\ mapping' = Append(mapping, IF found = 0 THEN None ELSE found)

Remapped_Identity(native) == native

Remapped(native) == mapping[native]

IsMapped_LastForgotten(native) ==
  native < Len(mapping) /\ mapping[native] # None

IsMapped(native) == native <= Len(mapping) /\ mapping[native] # None

LoadFunction ==
  /\ Reading("function")
  /\ \/ /\ Item = None
        /\ Accept([vm EXCEPT !.functions = Append(@, None)])
        /\ UNCHANGED mapping
     \/ /\ Item # None
        /\ IsMapped(Item)
        /\ Accept([vm EXCEPT !.functions = Append(@, Remapped(Item))])
        /\ UNCHANGED mapping
     \/ Item # None /\ ~IsMapped(Item) /\ Reject

(* Each element is added as a program adds one.                            *)
Rebuilt(v, image) ==
  LET add(buckets, e) == Added(v, buckets, e)
  IN  [buckets |-> FoldLeft(add, [b \in Buckets |-> <<>>], image.elements),
       handles |-> image.handles, type |-> image.type]

LoadObject ==
  /\ Reading("object")
  /\ \/ /\ At \in Slots
        /\ vm.objects[At] = None
        /\ Accept([vm EXCEPT !.objects[At] = Rebuilt(vm, Item)])
        /\ UNCHANGED mapping
     \/ /\ \/ At \notin Slots
           \/ At \in Slots /\ vm.objects[At] # None
        /\ Reject

(* The types of the VM that loads have to be those of the one that saved.  *)
LoadTypes ==
  /\ Reading("types")
  /\ \/ Item = vm.types /\ Accept(vm) /\ UNCHANGED mapping
     \/ Item # vm.types /\ Reject

LoadSubsystem ==
  LET found == SelectInSeq(vm.subsystems, LAMBDA s : s.name = Item.name)
  IN  /\ Reading("subsystem")
      /\ \/ /\ found # 0
            /\ Accept([vm EXCEPT !.subsystems[found].data = Item.data])
            /\ UNCHANGED mapping
         \/ found = 0 /\ Reject

(* Objects with an external type read their data in the order of slots.    *)
LoadContext ==
  LET pending == {s \in Slots : IsCoroutine(vm, s) /\ vm.contexts[s] = None}
      slot == CHOOSE s \in pending : \A t \in pending : s <= t
  IN  /\ Reading("context")
      /\ pending # {}
      /\ Accept([vm EXCEPT !.contexts[slot] = Item])
      /\ UNCHANGED mapping

(* The last context that was linked has a parent already: it is in the     *)
(* chain twice.                                                            *)
Looped_Never == FALSE

Looped ==
  /\ vm.active # <<>>
  /\ Last(vm.active) \in ToSet(Front(vm.active))

LoadActive ==
  LET valid == At \in Slots /\ IsCoroutine(vm, At)
      dormant == valid /\ vm.contexts[At].state # "running"
  IN  /\ Reading("active")
      /\ Item = "coroutine"
      /\ \/ /\ valid /\ ~Looped
            /\ Accept([vm EXCEPT
                 !.active = Append(@, At),
                 !.contexts[At].state = "running",
                 !.errors = IF dormant THEN @ + 1 ELSE @])
            /\ UNCHANGED mapping
         \/ (~valid \/ Looped) /\ Reject

LoadRoot ==
  /\ Reading("active")
  /\ Item = "root"
  /\ \/ /\ ~Looped
        /\ phase' = "loaded"
        /\ UNCHANGED <<vm, saved, stream, position, mapping, damaged>>
     \/ Looped /\ Reject

Next ==
  \/ Save
  \/ Damage
  \/ \E host \in Hosts : LoadBegin(host)
  \/ LoadPlain \/ LoadString \/ LoadNative \/ LoadFunction \/ LoadObject
  \/ LoadTypes \/ LoadSubsystem \/ LoadContext \/ LoadActive \/ LoadRoot
  \/ CutShort

Spec == Init /\ [][Next]_vars

-----------------------------------------------------------------------------
(* Properties.                                                             *)

Keys(v) == UNION {{e.key : e \in ToSet(InOrder(v.objects[s].buckets))} :
                    s \in {t \in Slots : v.objects[t] # None}}

NativeName(v, native) ==
  IF native = None THEN None ELSE v.natives[native].name

(* What a program can tell of a VM: not the order of elements in a bucket, *)
(* nor the numbers of C functions.                                         *)
Meaning(v, keys) ==
  <<v.errors, v.statics, v.root, v.strings, v.globals, v.types, v.contexts,
    v.active,
    [f \in DOMAIN v.functions |-> NativeName(v, v.functions[f])],
    [s \in Slots |->
       IF v.objects[s] = None THEN None
       ELSE <<v.objects[s].handles, v.objects[s].type,
              [k \in keys |-> Lookup(v, v.objects[s].buckets, k)]>>]>>

(* What was saved and is loaded completely means what it meant: the buckets*)
(* of string keys are found with the strings that are loaded, coroutines   *)
(* have their contexts and wait for each other in the order they did.      *)
LoadedIsSaved ==
  phase = "loaded" /\ ~damaged =>
    /\ Meaning(vm, Keys(saved)) = Meaning(saved, Keys(saved))
    /\ ToSet(saved.subsystems) \subseteq ToSet(vm.subsystems)

(* A script's C functions are those of the same name in the host that      *)
(* loads, in whichever order it registered them, or the load fails.        *)
FunctionsByName ==
  phase = "loaded" /\ ~damaged =>
    \A f \in DOMAIN vm.functions :
      NativeName(vm, vm.functions[f]) = NativeName(saved, saved.functions[f])

(* What the program saved is refused only by a host that lacks something.  *)
Lacking ==
  \/ vm.types # saved.types
  \/ \E s \in ToSet(saved.subsystems) :
       \A t \in ToSet(vm.subsystems) : s.name # t.name
  \/ \E f \in DOMAIN saved.functions :
       /\ saved.functions[f] # None
       /\ \A n \in DOMAIN vm.natives :
            vm.natives[n].name # NativeName(saved, saved.functions[f])

SavedIsLoadable ==
  phase = "rejected" /\ ~damaged /\ vm.errors > saved.errors => Lacking

Findable(v) ==
  \A s \in Slots : v.objects[s] # None => InPlace(v, v.objects[s].buckets)

(* VMs whose fields are all found: what NkFields keeps of them, as long as *)
(* no object is a key.                                                     *)
Usual == \A v \in Running : Findable(v)

(* Whatever item is damaged: a VM that is loaded is one that can run. Each *)
(* coroutine has a context, functions are of C functions that there are,   *)
(* the active contexts are in one chain to the root, and there is no field *)
(* that is not found by its key.                                           *)
LoadedIsSane == phase = "loaded" => Proper(vm) /\ Findable(vm)

(* In a host that set up the same as the one that saved, saving what was   *)
(* loaded writes the same stream again (the test harness logs a checksum of*)
(* both).                                                                  *)
Registered(v) == <<[i \in DOMAIN v.natives |-> v.natives[i].name],
                   [i \in DOMAIN v.subsystems |-> v.subsystems[i].name]>>

Reversible ==
  phase = "loaded" /\ ~damaged /\ Registered(vm) = Registered(saved)
    => Written(vm) = stream
=============================================================================
