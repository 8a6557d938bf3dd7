-------------------------------- MODULE NkGc --------------------------------
(***************************************************************************)
(* The garbage-collected heap of a Ninkasi VM: objects (nkobjs.c), strings *)
(* (nkstring.c), the places that refer to them, external handles, and the  *)
(* mark-and-sweep collector (nkgc.c), one step at a time.                  *)
(*                                                                         *)
(* A reference is the identity of an object or a string.  Stacks, fields   *)
(* and static space are the sets of the references in them: what the       *)
(* collector does depends neither on their order nor on repetitions, so    *)
(* popping a reference may leave another copy of it.  A coroutine is its   *)
(* object; the root context, which has none, is Root.                      *)
(***************************************************************************)
EXTENDS Integers, FiniteSets
(* Operators with an underscore in their names are faulty variants: see    *)
(* NkTable.                                                                *)

CONSTANTS
  Obj, Str,        \* objects and strings (by content: strings are interned)
  Root,            \* the root execution context
  None,            \* no parent context
  PassSpace,       \* number of values of lastGCPass (2^32 in the code)
  HandleSpace,     \* number of values of externalHandleCount (2^32)
  PassesWrap,      \* TRUE: the VM lives for PassSpace collections or more
  ReleaseUnheld,   \* TRUE: the host may release with a handle count of 0
  CoroutineId,     \* the objects that may be coroutines
  StackBound, FieldBound, StaticBound,  \* bounds of the model: references on
                   \* a stack, in an object, in static space,
  OwnBound         \* and handles the host has on one object

Value   == Obj \cup Str
Context == Obj \cup {Root}

ASSUME HeapAssumption ==
  /\ Obj \cap Str = {} /\ CoroutineId \subseteq Obj /\ Root \notin Value /\ None \notin Value \cup {Root}
  /\ PassSpace \in Nat \ {0, 1} /\ HandleSpace \in Nat \ {0, 1}
  /\ PassesWrap \in BOOLEAN /\ ReleaseUnheld \in BOOLEAN
  /\ StackBound \in Nat /\ FieldBound \in Nat /\ StaticBound \in Nat
  /\ OwnBound \in Nat

VARIABLES
  objects, strings,  \* what is in the object table and in the string table
  dontGC,            \* strings the program's instructions refer to
  fields,            \* object -> the keys and values it holds
  statics,           \* static space
  stack,             \* context -> its stack
  coroutines,        \* the objects that are coroutines
  parent,            \* coroutine -> the context that resumed it
  current,           \* the current execution context
  count,             \* object -> externalHandleCount
  handles,           \* the list objectsWithExternalHandles
  owned,             \* the host's own tally: object -> handles it has on it
  mark,              \* reference -> lastGCPass of its entry
  pass,              \* vm->gcInfo.lastGCPass
  open,              \* objects on the collector's open list
  phase              \* "run", "mark", "sweep", or "failed" (longjmp)

heapVars    == <<objects, strings, dontGC>>
programVars == <<fields, statics, stack, coroutines, parent, current>>
handleVars  == <<count, handles, owned>>
gcVars      == <<mark, pass, open, phase>>
vars == <<heapVars, programVars, handleVars, gcVars>>

Init ==
  /\ objects = {} /\ strings = {} /\ dontGC = {}
  /\ fields = [o \in Obj |-> {}] /\ statics = {}
  /\ stack = [c \in Context |-> {}]
  /\ coroutines = {} /\ parent = [o \in Obj |-> None] /\ current = Root
  /\ count = [o \in Obj |-> 0] /\ handles = {} /\ owned = [o \in Obj |-> 0]
  /\ mark = [v \in Value |-> 0] /\ pass = 0 /\ open = {} /\ phase = "run"

-----------------------------------------------------------------------------
(***************************************************************************)
(* The program.  It runs between collections.  An error stops              *)
(* nkiVmExecuteProgram and changes nothing here, and the host may call it  *)
(* again, so no action asks whether there was one.                         *)
(***************************************************************************)
Running == phase = "run"

Held == {o \in Obj : count[o] > 0}

(* What the current context can get at in one instruction (stackPeek,      *)
(* staticPeek, objectFieldGet), or a C function it called can return.      *)
AtHand ==
  stack[current] \cup statics \cup Held
    \cup UNION {fields[o] : o \in stack[current] \cap Obj}

(* A stack after values from A were popped and those in B were pushed.     *)
Popped(S, A, B) ==
  {T \in {(S \ K) \cup B : K \in SUBSET A} : Cardinality(T) <= StackBound}

Push(v) ==
  /\ Running /\ v \in AtHand
  /\ Cardinality(stack[current] \cup {v}) <= StackBound
  /\ stack' = [stack EXCEPT ![current] = @ \cup {v}]
  /\ UNCHANGED <<heapVars, fields, statics, coroutines, parent, current, handleVars, gcVars>>

Pop(v) ==
  /\ Running /\ v \in stack[current]
  /\ stack' = [stack EXCEPT ![current] = @ \ {v}]
  /\ UNCHANGED <<heapVars, fields, statics, coroutines, parent, current, handleVars, gcVars>>

(* nkiVmStringTableFindOrAddString: a string already in the table is found *)
(* by its content, whether or not anything still refers to it.             *)
FindOrAddString(s) ==
  /\ strings' = strings \cup {s}
  /\ mark' = IF s \in strings THEN mark ELSE [mark EXCEPT ![s] = 0]

PushString(s) ==
  /\ Running
  /\ Cardinality(stack[current] \cup {s}) <= StackBound
  /\ FindOrAddString(s)
  /\ stack' = [stack EXCEPT ![current] = @ \cup {s}]
  /\ UNCHANGED <<objects, dontGC, fields, statics, coroutines, parent, current, handleVars,
                 pass, open, phase>>

(* Compiling a string literal. *)
AddLiteral(s) ==
  /\ Running
  /\ FindOrAddString(s)
  /\ dontGC' = dontGC \cup {s}
  /\ UNCHANGED <<objects, programVars, handleVars, pass, open, phase>>

(* The operands of a store are what earlier pushes brought to the stack,   *)
(* here taken from where they came; a store loses what was there before.   *)
StaticPoke(v) ==
  /\ Running /\ v \in AtHand
  /\ \E lost \in SUBSET statics :
       /\ statics' = (statics \ lost) \cup {v}
       /\ Cardinality(statics') <= StaticBound
  /\ UNCHANGED <<heapVars, fields, stack, coroutines, parent, current, handleVars, gcVars>>

ObjectFieldSet(o, v) ==
  /\ Running /\ {o, v} \subseteq AtHand /\ o \in Obj
  /\ \E lost \in SUBSET fields[o] :
       /\ fields' = [fields EXCEPT ![o] = (@ \ lost) \cup {v}]
       /\ Cardinality(fields'[o]) <= FieldBound
  /\ UNCHANGED <<heapVars, statics, stack, coroutines, parent, current, handleVars, gcVars>>

(* nkiVmObjectTableCreateObject: the id of a deleted object is used again. *)
NewObject(o) ==
  /\ o \notin objects
  /\ objects' = objects \cup {o}
  /\ fields' = [fields EXCEPT ![o] = {}]
  /\ count' = [count EXCEPT ![o] = 0]
  /\ owned' = [owned EXCEPT ![o] = 0]
  /\ mark' = [mark EXCEPT ![o] = 0]

CreateObject(o) ==
  /\ Running /\ NewObject(o)
  /\ Cardinality(stack[current] \cup {o}) <= StackBound
  /\ stack' = [stack EXCEPT ![current] = @ \cup {o}]
  /\ coroutines' = coroutines \ {o}
  /\ UNCHANGED <<strings, dontGC, statics, parent, current, handles, pass, open, phase>>

(* A coroutine gets its arguments from the stack of its creator.           *)
CoroutineCreate(o) ==
  /\ Running /\ o \in CoroutineId /\ NewObject(o)
  /\ \E args \in SUBSET stack[current] :
       \E rest \in Popped(stack[current], args, {o}) :
         stack' = [stack EXCEPT ![current] = rest, ![o] = args]
  /\ coroutines' = coroutines \cup {o}
  /\ parent' = [parent EXCEPT ![o] = None]
  /\ UNCHANGED <<strings, dontGC, statics, current, handles, pass, open, phase>>

(* Only an inactive coroutine is resumed (which of them: NkCoroutine). The *)
(* value given to it appears on its stack.                                 *)
Inactive(c) == c \in coroutines /\ parent[c] = None

CoroutineResume(c, V) ==
  /\ Running /\ c \in stack[current] /\ Inactive(c)
  /\ V \subseteq stack[current] /\ Cardinality(V) <= 1
  /\ \E rest \in Popped(stack[current], V \cup {c}, {}), got \in Popped(stack[c], {}, V) :
       stack' = [stack EXCEPT ![current] = rest, ![c] = got]
  /\ parent' = [parent EXCEPT ![c] = current]
  /\ current' = c
  /\ UNCHANGED <<heapVars, fields, statics, coroutines, handleVars, gcVars>>

(* A coroutine yields V, or returns it and leaves nothing on its stack.    *)
PopExecutionContext(V) ==
  /\ Running /\ current # Root
  /\ V \subseteq stack[current] /\ Cardinality(V) <= 1
  /\ \E rest \in Popped(stack[current], V, {}) \cup {{}},
        got \in Popped(stack[parent[current]], {}, V) :
       stack' = [stack EXCEPT ![current] = rest, ![parent[current]] = got]
  /\ current' = parent[current]
  /\ parent' = [parent EXCEPT ![current] = None]
  /\ UNCHANGED <<heapVars, fields, statics, coroutines, handleVars, gcVars>>

-----------------------------------------------------------------------------
(***************************************************************************)
(* The host.                                                               *)
(***************************************************************************)
(* nkxCreateObject: nothing in the VM refers to the new object. *)
HostCreateObject(o) ==
  /\ phase = "run" /\ NewObject(o)
  /\ coroutines' = coroutines \ {o}
  /\ UNCHANGED <<strings, dontGC, statics, stack, parent, current, handles, pass, open, phase>>

NextCount(o) == (count[o] + 1) % HandleSpace

AcquireHandle(o) ==
  /\ phase = "run" /\ o \in objects /\ owned[o] < OwnBound
  /\ owned' = [owned EXCEPT ![o] = @ + 1]
  /\ \/ /\ NextCount(o) > 1
        /\ count' = [count EXCEPT ![o] = NextCount(o)]
        /\ UNCHANGED handles
     \/ /\ NextCount(o) = 1
        /\ count' = [count EXCEPT ![o] = 1]
        /\ handles' = handles \cup {o}
     \/ /\ NextCount(o) = 0
        /\ count' = [count EXCEPT ![o] = HandleSpace - 1]
        /\ UNCHANGED handles
  /\ UNCHANGED <<heapVars, programVars, gcVars>>

(* nkiVmObjectReleaseHandle.  With no handle to release it reports an      *)
(* error and goes on.                                                      *)
Unlinked_Never(o, n) == handles
Unlinked(o, n) == IF n = 0 THEN handles \ {o} ELSE handles

Release(o) ==
  /\ count' = [count EXCEPT ![o] = (@ - 1) % HandleSpace]
  /\ handles' = Unlinked(o, count'[o])
  /\ owned' = [owned EXCEPT ![o] = IF @ > 0 THEN @ - 1 ELSE 0]

ReleaseHandle(o) ==
  /\ phase = "run" /\ o \in objects
  /\ count[o] > 0 \/ ReleaseUnheld
  /\ Release(o)
  /\ UNCHANGED <<heapVars, programVars, gcVars>>

(* nkiCompilerClearReplErrorState: after an error the host may give up on  *)
(* the program.  Every context from the current one up to the root is      *)
(* reset.                                                                  *)
WaitingContexts ==
  {c \in Context :
     \A S \in SUBSET Context :
       current \in S /\ (\A o \in S \cap Obj : parent[o] \in S \cup {None}) => c \in S}

ClearReplErrorState ==
  /\ phase = "run"
  /\ stack' = [c \in Context |-> IF c \in WaitingContexts THEN {} ELSE stack[c]]
  /\ parent' = [o \in Obj |-> IF o \in WaitingContexts THEN None ELSE parent[o]]
  /\ current' = Root
  /\ UNCHANGED <<heapVars, fields, statics, coroutines, handleVars, gcVars>>

-----------------------------------------------------------------------------
(***************************************************************************)
(* nkiVmGarbageCollect                                                     *)
(***************************************************************************)
(* What marking an object marks or puts on the open list: its fields, and  *)
(* for a coroutine what its gcMarkCallback finds.                          *)
References_NoFields(o) ==
  IF o \in coroutines THEN stack[o] \cup ({parent[o]} \cap Obj) ELSE {}
References(o) ==
  fields[o] \cup
    IF o \in coroutines THEN stack[o] \cup ({parent[o]} \cap Obj) ELSE {}

Marked(p) == {v \in Value : mark[v] = p}

(* What is to be marked when the objects in A are, which have not been,    *)
(* and the references in B: strings at once, objects by way of the open    *)
(* list, from which A is taken.  The order makes no difference.            *)
Found(A, B, p) == B \cup UNION {References(o) : o \in A \ Marked(p)}

Waiting_Kept(A, found, marks, p) == open \cup {o \in found \cap Obj : marks[o] # p}
Waiting(A, found, marks, p) == (open \ A) \cup {o \in found \cap Obj : marks[o] # p}

MarkAll(A, B, p) ==
  /\ mark' = [v \in Value |-> IF v \in A \cup (Found(A, B, p) \cap Str) THEN p ELSE mark[v]]
  /\ open' = Waiting(A, Found(A, B, p), mark', p)

(* The root stack is marked directly, the others when their coroutines     *)
(* are.                                                                    *)
RootReferences_NoStatics == stack[Root] \cup ({current} \cap Obj)
RootReferences_AllStacks ==
  (UNION {stack[c] : c \in Context}) \cup ({current} \cap Obj) \cup statics
RootReferences == stack[Root] \cup ({current} \cap Obj) \cup statics

NextPass == (pass + 1) % PassSpace

GcBegin ==
  LET next == NextPass IN
  /\ phase = "run"
  /\ next # 0 \/ PassesWrap
  /\ pass' = next
  /\ MarkAll(handles, RootReferences, next)
  /\ phase' = "mark"
  /\ UNCHANGED <<heapVars, programVars, handleVars>>

GcMarkObject(o) ==
  /\ phase = "mark" /\ o \in open
  /\ MarkAll({o}, {}, pass)
  /\ UNCHANGED <<heapVars, programVars, handleVars, pass, phase>>

(* nkiVmStringTableCleanOldStrings *)
GcSweepStrings ==
  /\ phase = "mark" /\ open = {}
  /\ strings' = {s \in strings : mark[s] = pass \/ s \in dontGC}
  /\ mark' = [v \in Value |-> IF v \in strings \ strings' THEN 0 ELSE mark[v]]
  /\ phase' = "sweep"
  /\ UNCHANGED <<objects, dontGC, programVars, handleVars, pass, open>>

(* nkiVmObjectTableCleanOldObjects, one object.  Its cleanup callback may  *)
(* release a handle that the native data of the object held; that of a     *)
(* coroutine frees its context.  Nothing is left of the object.            *)
GcSweepObject(o) ==
  /\ phase = "sweep" /\ o \in objects /\ mark[o] # pass
  /\ objects' = objects \ {o}
  /\ fields' = [fields EXCEPT ![o] = {}]
  /\ mark' = [mark EXCEPT ![o] = 0]
  /\ coroutines' = coroutines \ {o}
  /\ IF o \in coroutines
       THEN /\ stack' = [stack EXCEPT ![o] = {}]
            /\ parent' = [parent EXCEPT ![o] = None]
       ELSE UNCHANGED <<stack, parent>>
  /\ \/ UNCHANGED <<handleVars>>
     \/ o \notin coroutines /\ \E h \in handles : Release(h)
  /\ UNCHANGED <<strings, dontGC, statics, current, pass, open, phase>>

GcEnd ==
  /\ phase = "sweep" /\ \A o \in objects : mark[o] = pass
  /\ phase' = "run"
  /\ UNCHANGED <<heapVars, programVars, handleVars, mark, pass, open>>

(* An entry of the open list or a hole of a table cannot be allocated.     *)
GcFails ==
  /\ phase \in {"mark", "sweep"}
  /\ phase' = "failed"
  /\ UNCHANGED <<heapVars, programVars, handleVars, mark, pass, open>>

Program ==
  \/ \E v \in Value : Push(v) \/ Pop(v) \/ StaticPoke(v)
  \/ \E s \in Str : PushString(s) \/ AddLiteral(s)
  \/ \E o \in Obj, v \in Value : ObjectFieldSet(o, v)
  \/ \E o \in Obj : CreateObject(o) \/ CoroutineCreate(o)
  \/ \E o \in Obj, V \in SUBSET Value : CoroutineResume(o, V)
  \/ \E V \in SUBSET Value : PopExecutionContext(V)

Host ==
  \/ \E o \in Obj : HostCreateObject(o) \/ AcquireHandle(o) \/ ReleaseHandle(o)
  \/ ClearReplErrorState

Collector ==
  \/ \E o \in Obj : GcMarkObject(o) \/ GcSweepObject(o)
  \/ GcSweepStrings
  \/ GcEnd

Next == Program \/ Host \/ GcBegin \/ Collector \/ GcFails

Spec == Init /\ [][Next]_vars

(* Once called, nkiVmGarbageCollect runs until it is done. *)
FairSpec == Spec /\ WF_vars(Collector)

-----------------------------------------------------------------------------
TypeOK ==
  /\ objects \subseteq Obj /\ strings \subseteq Str /\ dontGC \subseteq Str
  /\ fields \in [Obj -> SUBSET Value] /\ statics \subseteq Value
  /\ stack \in [Context -> SUBSET Value]
  /\ coroutines \subseteq Obj
  /\ parent \in [Obj -> Context \cup {None}] /\ current \in Context
  /\ count \in [Obj -> 0 .. HandleSpace - 1] /\ handles \subseteq Obj
  /\ owned \in [Obj -> Nat]
  /\ mark \in [Value -> 0 .. PassSpace - 1] /\ pass \in 0 .. PassSpace - 1
  /\ open \subseteq Obj
  /\ phase \in {"run", "mark", "sweep", "failed"}

(* What the program can get at from an object: what is in its fields, and  *)
(* by resuming a coroutine, or by coming back to the context that resumed  *)
(* it, what is on that stack.  The collector's References must agree.      *)
Follows(o) ==
  {v \in Value :
     \/ v \in fields[o]
     \/ o \in coroutines /\ (v \in stack[o] \/ v = parent[o])}

(* What can be reached from a set of references: the least set around it   *)
(* that is closed under Follows.                                           *)
Closed(S) == \A o \in S \cap Obj : Follows(o) \subseteq S
ReachFrom(R) ==
  {v \in Value : \A S \in SUBSET Value : R \subseteq S /\ Closed(S) => v \in S}

Roots == stack[Root] \cup statics \cup ({current} \cap Obj) \cup Held

(* "There will be no dangling pointers" (README.md:479-483): whatever the  *)
(* program or the host can still get at exists.  It covers the fields of   *)
(* every reachable object, the stacks of suspended coroutines, the chain   *)
(* of contexts that wait for the current one, and the literals in the      *)
(* program's instructions.                                                 *)
NothingReachableLost ==
  phase # "failed" => ReachFrom(Roots \cup dontGC) \subseteq objects \cup strings

(* "Objects that reach zero references and have no owning references       *)
(* inside the VM will be deleted next garbage collection pass"             *)
(* (nkx.h:167-169), and no others: when marking is done, what is marked is *)
(* what can be reached.                                                    *)
MarkExact == phase = "mark" /\ open = {} => Marked(pass) = ReachFrom(Roots)

(* The list the collector starts from has exactly the objects with a       *)
(* handle count, through overflow and a release in a cleanup callback.     *)
HandleListExact == handles = Held

(* A handle "keeps it (and everything referenced from it) from being       *)
(* garbage collected" (nkx.h:162-163): as long as the host has a handle,   *)
(* by its own count, the object and all it refers to exist.                *)
HandlesProtect ==
  phase # "failed" =>
    ReachFrom({o \in Obj : owned[o] > 0}) \subseteq objects \cup strings

(* A collection ends, in cyclic heaps too. *)
GcTerminates == phase \in {"mark", "sweep"} ~> phase \in {"run", "failed"}

(***************************************************************************)
(* The strengthening that makes the safety properties inductive, for a VM  *)
(* whose pass numbers do not wrap and a host that releases only what it    *)
(* has.                                                                    *)
(***************************************************************************)
Live == objects \cup strings

(* Between collections, and while one marks, nothing in the heap dangles - *)
(* in garbage neither; while one sweeps, nothing that is marked does.      *)
HeapClosed ==
  /\ phase \in {"run", "mark"} =>
       /\ dontGC \subseteq strings /\ statics \subseteq Live /\ Held \subseteq objects
       /\ \A c \in coroutines \cup {Root} : stack[c] \subseteq Live
       /\ \A o \in objects : fields[o] \subseteq Live
  /\ phase = "sweep" =>
       /\ dontGC \subseteq strings
       /\ Roots \subseteq Marked(pass) /\ Marked(pass) \subseteq Live
       /\ \A o \in Marked(pass) \cap Obj : References(o) \subseteq Marked(pass)

(* Everything has a mark of a past collection, or of the current one. *)
MarksInPast ==
  /\ \A v \in Value : mark[v] <= pass
  /\ \A v \in Value \ Live : mark[v] = 0
  /\ phase \in {"mark", "sweep"} => pass > 0

(* No marked object refers to something neither marked nor waiting on the  *)
(* open list, and marking goes nowhere the roots do not lead.              *)
Grey == Marked(pass) \cup open
TriColour ==
  /\ phase \in {"run", "sweep"} => open = {}
  /\ phase = "mark" =>
       /\ open \subseteq objects
       /\ Roots \subseteq Grey
       /\ \A o \in Marked(pass) \cap Obj : References(o) \subseteq Grey
       /\ \A S \in SUBSET Value : Roots \subseteq S /\ Closed(S) => Grey \subseteq S

(* The coroutines that were resumed and have not yielded since form one    *)
(* chain, from the current context to the root.                            *)
Active == {o \in Obj : parent[o] # None}
OneChain ==
  /\ Active \subseteq coroutines /\ coroutines \subseteq objects
  /\ current \in Obj => current \in Active
  /\ \A o \in Active : parent[o] \in Obj => parent[o] \in Active
  /\ \A o \in Active : parent[o] # current
  /\ \A o, q \in Active : parent[o] = parent[q] => o = q
  /\ \A S \in SUBSET Context :
       current \in S /\ (\A o \in S \cap Active : parent[o] \in S) => Active \subseteq S

TalliesAgree == OwnBound < HandleSpace => owned = count

IInv ==
  /\ TypeOK /\ HandleListExact /\ HeapClosed /\ MarksInPast /\ TriColour
  /\ OneChain /\ TalliesAgree
=============================================================================
