# Ninkasi in TLA+

A verification project for Ninkasi, an embeddable scripting-language virtual
machine in C89 (`src/src`). The modules model the parts of the VM whose
correctness depends on long sequences of operations: tables and compaction, the
heap and its collector, objects, stacks and execution contexts, allocation and
the recovery from its failures, the counters of the main loop, the saved image,
the compiler. TLC checks them on small instances, and TLAPS proves the central
invariants and four refinements for every value of the constants.

| module | what it is | about (in `src/src`) |
|---|---|---|
| `NkTable` | slot table, compaction, loading, every allocation failure | `nktable.c`, `nkshrink.c`, `nksave.c` |
| `NkSlotMap` | what a slot table promises | - |
| `NkGc` | the heap, handles and the collector, step by step | `nkgc.c`, `nkobjs.c`, `nkstring.c` |
| `NkFields` | hash buckets of objects, and references under compaction | `nkobjs.c`, `nkshrink.c`, `nkvalue.c` |
| `NkFieldMap` | what an object promises: a map | - |
| `NkStack` | a context's stack: doubled, halved, masked, reloaded | `nkstack.c`, `nkshrink.c`, `nksave.c` |
| `NkValueStack` | what a stack promises: a sequence | - |
| `NkMemory` | the VM's allocator: list of blocks, sizes, limit | `nkmem.c` |
| `NkRecovery` | jump buffers, failures, callbacks, deletion, on `NkMemory` | `nkfail.h`, `nkx.c`, `nkvm.c` |
| `NkIterate` | countdowns of the collector and the instruction limit | `nkvm.c`, `nkx.c` |
| `NkSave` | the saved image, written, damaged, read by another host | `nksave.c` |
| `NkCoroutine` | execution contexts, calls, native code that calls back | `nkcorout.c`, `nkopcode.c`, `nkfunc.c`, `nkvm.c` |
| `NkCoroutineSpec` | what coroutines promise | - |
| `NkCompile` | the compiler, as operators on its state | `nkcompil.c`, `nkexpr.c`, `nkfse.c` |
| `NkMachine` | instructions, executed, whatever the code | `nkopcode.c`, `nkvm.c`, `nkx.c`, `nkstack.c` |
| `NkTyping` | what is known at each instruction before anything is run | - |
| `NkRun` | a compiled program: `NkCompile`, then `NkMachine` | `nkx.c`, `nkcompil.c` |
| `NkLanguage` | what a program means, without code | - |
| `Nk...Proofs` | proofs about `NkTable`, `NkGc`, `NkFields`, `NkStack`, `NkRecovery`, `NkCoroutine`, `NkSave`, `NkMachine` with `NkIterate` | - |
| `MC...` | instances for TLC | - |

Ninkasi is single-threaded. A host program calls the `nkx*` functions of
`nkx.h`; these set up failure recovery and call the internal `nki*` functions;
the VM calls back into the host through C functions that scripts call, and
through the cleanup and mark callbacks of external data types. What makes the
system hard is not threads but *when things happen relative to each other*: an
allocation may fail anywhere and leaves by `longjmp`, a collection may run
between any two instructions, a callback may come back into the VM, a
coroutine may be suspended in any state, compaction changes indices that
somebody remembers, and 32-bit counters wrap.

In every module, an operator with an underscore in its name is a faulty variant
of the definition after it. No action uses it; put in the place of that
definition it breaks a property (`PROJECT.json`, "mutants"), so that each
property of a passing run has been seen to fail for a plausible bug.

## Inventory

| component | state | operations | interacts with | correct when |
|---|---|---|---|---|
| slot tables (`nktable.c`) | array, capacity, hole list | init, add (hole / double), erase, reset holes, shrink, destroy | used by the string and object tables; written directly by `nkshrink.c` and `nksave.c` | a hole is an empty slot, an entry has one slot and keeps it; array and capacity agree whatever fails |
| compaction (`nkshrink.c`) | two cursors | move object, move string, rewrite references, shrink stack | tables, stack, statics, object fields | packs what may move, moves nothing with a handle, no reference left behind |
| objects (`nkobjs.c`) | object table, hash buckets, handle list and counts, external data | create, field find/add/clear, acquire/release handle, cleanup, delete | GC, tables, host callbacks | handle list = objects with a count; size = number of elements |
| strings (`nkstring.c`) | string table, hash chains, `dontGC` | find-or-add, sweep, destroy | GC, compiler (literals) | one entry per content; literals stay |
| collector (`nkgc.c`) | pass number, marks, open list | mark from handles, stacks, statics, coroutines; sweep | everything above; mark and cleanup callbacks | frees only what cannot be reached, marks only what can, ends |
| coroutines (`nkcorout.c`, `nkopcode.c`) | contexts (stack, IP, parent, state), current context | create, resume, yield, return, push/pop context | GC, native calls, REPL reset | one chain to the root; a finished one never runs again |
| native calls (`nkfunc.c`) | frames on the C stack, sentinel return address | `nkiVmCallFunction`, C function callbacks | VM loop, coroutines | caller's IP and context are back afterwards |
| VM loop (`nkvm.c`) | IP, GC countdowns, instruction limit | iterate, execute, delete | opcodes, GC | GC comes often enough; limits hold |
| failure recovery (`nkfail.h`, `nkmem.c`, `nkx.c`) | jump buffer pointer, `allocationFailure`, allocation list, limits | set/clear recovery, malloc/free/realloc, delete | every `nkx*` call, callbacks | a failure unwinds to the innermost call that still runs, the VM then does no more work, delete frees everything |
| value stack (`nkstack.c`) | values, size, capacity, mask | push, pop, popN, peek, clear | opcodes, shrink, save | size ≤ capacity = mask + 1; peek stays inside |
| values (`nkvalue.c`) | — (pure) | conversions, compare, hash | opcodes, objects | equal keys of a field are in one bucket, and a key is equal to itself (not so NaN) |
| save / load (`nksave.c`) | the stream, in both directions | serialize each table, function, context | all of the above | loading what was saved restores it; a bad stream leaves a VM that can be deleted |
| errors (`nkerror.c`) | list of errors, first/last, allocation failure flag | add, destroy, clear (REPL) | all | once there is an error no instruction runs |
| compiler (`nkcompil.c`) | contexts, variables, frame offset, write index, break fixups, recursion count | statements, blocks, functions, jumps, finalize, REPL reset | tokenizer, expressions, string table | the frame offset it computes is the depth the VM has; jumps land on instructions |
| expressions, optimizer (`nkexpr.c`, `nkopt.c`) | operator/operand stacks, AST | parse, emit, fold | compiler | emitted code pushes one value; folding keeps the value |
| function-style expressions (`nkfse.c`) | - | emit `coroutine`, `yield`, `resume`, `is_finished`, `object`, `len` | expressions | the offset they account for is what their opcodes do |
| tokenizer, dynamic strings, debug dump | text | — | compiler, REPL | not modelled (text, I/O) |
| interpreter, tests | — | — | host side | not modelled; read for how hosts use the library |

## Tables: `NkTable`, `NkSlotMap`

`data`, `capacity` and `holes` are the fields of `NKVMTable`; `status` says
whether the VM works, is inside of `nkiVmShrink` or a load, has left by
`longjmp`, or is gone. An action is one call of `nktable.c`, or one iteration of
the loop of `nkiVmShrink`; each allocation in it has an action for its failure,
which leaves exactly what had been assigned by then. The hole list is a
sequence, because `nkiTableAddEntry` takes the first one without looking at the
slot: this is what makes `HolesAreEmptySlots` worth checking through doubling,
erasing, compaction and loading. `NoSlotLeaked` has one exception, found by TLC:
a load that is cut short has dropped the hole list and not rebuilt it.

`RangesSane` is the claim of a comment (`nktable.c:206`) that array and capacity
agree whatever fails. It matters after a failure although deletion then frees
through the list of allocations and does not look at the tables: a host, or a
cleanup callback of subsystem data, may still ask for the external data of an
object (`nkx.c:610`), and the lookup by index compares with the capacity and
nothing else (`nkobjs.c:82`). It has one exception too. A load frees the array
first and allocates the next one then; when that fails there is no array, with
the old capacity (objects) or the saved one (strings), and `status` is "lost".
`RangesSaneAlways` is the claim without the exception, violated in
`table_load_fails`. Loads are of well-formed streams here; a stream that says
otherwise of its capacity is rejected.

`NkSlotMap` is the promise: an entry gets a slot nobody has and keeps it until
it is erased; only a compaction may move it, downwards, and none that is pinned
(an object with an external handle, a coroutine, a literal). The refinement maps `slotOf` to
the inverse of the array.

## Heap: `NkGc`

The state is the graph the collector walks: which objects and strings exist,
fields, statics, stacks, the parent of each coroutine, handle counts, marks.
Stacks and fields are sets, since the collector depends neither on order nor on
repetition; strings are their contents, since they are interned. The program's
actions are the opcodes that move references; the host's acquire and release
handles, create objects and clear errors; the collector's take one object off
the open list, sweep the strings or sweep one object - the order of objects in
a sweep is any order, and cleanup callbacks may release handles between.
An allocation failure in marking ends in phase "failed".

The program runs only between collections (`nkiVmIterate` calls the collector
to its end); what interleaves is the sequence of instructions, host calls and
collections. `FairSpec` has weak fairness of the collector's steps alone, which
says just that: once called, `nkiVmGarbageCollect` goes on. Nothing obliges the
program to run or a collection to start.

## Fields: `NkFields`, `NkFieldMap`

A reference in this VM is an index: of a slot in the object or in the string
table. `table` says what is in each slot, `buckets` and `size` are an object's
hash buckets and its cached count, `held` is what the script, and the host
behind a handle, hold. The bucket of a key is computed as the code does, from
the index for an object, from the content for a string. An action is an
instruction (create, look up a string, copy, get, set), the sweep of something
nothing refers to, or the move of one object or string to a lower slot with the
rewriting of every reference `nkiVmMoveObject` and `nkiVmMoveString` find.

The hazard is that what a key *is* changes with the slot while the element stays
where it was hashed to; that the count is kept beside the lists; and that a
reference is rewritten only where the code looks. `KeysFindable`,
`LenCountsFields`, `ReferencesStay` say the three; `ImplementsFieldMap` says it
all at once: seen through lookup, every object is a map from values to values,
that no sweep or move changes: an object or string as key or value is itself and
not its slot. The refinement mapping replaces each reference by what it denotes. Above the field limit `FindOrAddEntry`
leaves an uncounted element in the list, as the code does, with an error that
stops the program.

Two keys are one if `nkiValueCompare` says so (`Equal`), which for floats is not
identity. 0.0 and -0.0 are equal and have different hashes, the bits of each;
they differ in the highest bit only and a bucket comes from the lowest, so they
are one key (`NumbersAssumption` says that of the hash). NaN, which a division
makes without an error, is not equal to itself: a field set under it is linked
and counted and never found, so that it cannot be read, changed or cleared, and
the next store under it makes another. `NaNs` are such atoms. `KeysFindable`
leaves out elements with these keys (`AnyKeyFindable` does not, and is violated),
`LenCountsFields` says that each counts for ever, and `NkFieldMap` has one key
for equal numbers and reads nil under NaN. Strings, objects, functions, nil and
integers are equal when they are the same and of the same type.

The model sweeps only what nothing refers to at all; garbage in cycles is in
`NkGc`. Which slot is compacted when is in `NkTable`. Two settings of `Unusual`
are outside of the passing run: with "object keys" compaction loses fields (a
finding), with "suspended stack" a reference on the stack of a coroutine that
waits is not rewritten and `ReferencesStay` fails.

## Contexts: `NkCoroutine`, `NkCoroutineSpec`

What may go wrong with coroutines is not which value is passed but how many
there are and where the program goes on. So a program point says whether it is
in the main program or in a function and how many values the compiler has
counted there; a stack is the number of values in each frame, with the return
address. The value of an instruction pointer is the point after its instruction,
because `nkiVmIterate` increments the pointer of *whichever context is current
then*: `Incremented` has the wrap of the two addresses at the end of the address
space. `native` is the C stack: calls of native functions in progress, each in
its loop in `nkiVmCallFunction` or not, the pointer it saved, and - only for the
properties - the context and height it was entered with.

`NkCoroutineSpec` is the language's promise (`README.md:376-456` of the
repository). The refinement mapping takes the chain from the `parent` links.

`Unusual` adds, one at a time, what a program may do and the code does not
handle: "resume native", "yield across" and "call back in creation". The passing
run has none of them; two have a configuration of their own (see "Runs"), the
third violates `ErrorsInvalidate`.

## Stack: `NkStack`, `NkValueStack`

An array of `capacity` cells with a mask that instructions apply to every index
and check nothing else. It is doubled by a push, halved by compaction until half
would not hold one value more, and replaced by loading; the limit the host sets
may change in between to less than there is. `MaskFollowsCapacity` is what
indexing relies on; `ImplementsValueStack` says that a program sees a sequence
of values, whatever happens to the array between two instructions. In
`NkValueStack` pushing, popping and indexing are the instructions, `odd` tells a
step that is an instruction from one that is not, and only an error excuses a
different result. A capacity of 0 (`nkstack.c:70` has a branch for it) does not
occur: loading rejects it (`nksave.c:720-730`).

## Memory and recovery: `NkMemory`, `NkRecovery`

`NkMemory` is the allocator: each block has a header that links it into a list
of the VM's, with a pointer back to *what points to it*, the list head or the
block before; sizes and headers are summed in a `nkuint32_t` and compared with a
limit the host may lower under what is in use. Every addition is modulo
`UintMax + 1`, so that a missing check wraps. `nkiRealloc` is an allocation and
a free and has no action of its own.

`NkRecovery` puts the C stack on top: a sequence of activations of public
functions with a jump buffer, of C functions and hooks of the host, and of the
two parts of deletion. Each public function keeps the buffer of the one before it
in its frame. An action is the entry or return of one of these, an allocation,
a failure or a free in the VM's work. A failure sets the flag and removes all that
is above the buffer's activation, and the activation with it. What happens next
depends on whose code it comes back to: `nkiOpcode_call` fails again after a C
function, the cleanup hooks of objects are not looked after. `FramesNest` says
that buffers and activations belong together however these nest,
`StopsOnFailure` that no call goes on with its work after a failure - except one
that a hook came back to, which is how the code is -, `MemoryReturned`
that a deleted VM has given every block back by whichever of its two ways,
`UsageExact` and `LimitHolds` that the accounting is right, and
`FailureReachesHost` that a failure ends in the host.

`FreeStructures` asserts that the standard clean-up frees every structure of the
VM; what it does structure by structure is not modelled. Creation runs under a
buffer like any call. Left out of the passing run: a failure in the collection
that is part of deletion ("failingCollection", a finding), hosts with an allocator of
their own, whose blocks `nkiVmDestroy` gives to `free()` ("ownAllocator"), and
script functions that never return ("endlessFunction": the loop of
`nkiVmCallFunction` looks at the error list and not at the flag).

## Main loop: `NkIterate`

`nkiVmIterate` decrements a countdown; at zero it charges the instruction limit
with a whole interval, and only then looks whether the *other* countdown, that
of new objects, is at zero and a collection is due. The host may change both
intervals and the limit between any two instructions, from a C function too,
and saving and loading cap the interval. `executed`, `granted` and `slack` are
there for the property: `LimitEnforced` says that no more instructions run than
the host granted, plus those left in the interval the limit was set in and one
interval for each load. `CollectsWhenDue` says that a collection which is due
comes, however often the host changes the intervals.

An error ends the model. In the code, each further call of
`nkxVmExecuteProgram` runs one more instruction before it looks at the error.
Left out of the passing run: an interval of 0, with which the countdown wraps
("zeroInterval"), and an image whose countdown is longer than the interval
loading allows ("longImage"); both violate `LimitEnforced`.

## Saved images: `NkSave`

`nksave.c` has one function per part of the VM that both writes and reads, so
the order of parts is the same in both directions and what a part needs has to
come before it. A stream is a sequence of items, one for each record; counts and
capacities are implied by it. `Save` writes a whole VM; reading has an action
for each kind of item, with its checks; the stream may end anywhere
(`CutShort`), and may have one index damaged (`Damage`: slots, indices of C
functions, entries of the chain of active coroutines). The host that loads has
registered C functions, types and subsystems of its own, in any order.

`LoadedIsSaved`: a complete load of an intact stream means the same to a program
- fields found by hash in buckets built while reading, coroutines with their
contexts, the chain in its order. `FunctionsByName`: functions are the host's
function of that name, whatever its number. `SavedIsLoadable`: a host that has
what the stream names can load it, also after a failed attempt. `LoadedIsSane`:
from a damaged stream a load fails or gives a VM that can run (`Proper`): of the
right shape, with a context for each coroutine and for nothing else, every
function within the table of C functions, and active contexts that run in one
chain without a loop; and in which every element is in the bucket that its key
hashes to, once (`Findable`). `Proper` is also what is assumed of the VMs a host
may have when it first saves (`RunningAssumption`); it is what `nkcorout.c` keeps
of contexts, and the last conjunct is what `NkCoroutineProofs` proves of them.
That no two subsystems have one name (`OneEach`) is assumed with it:
`nkiFindExternalSubsystemData` looks before it adds. `Findable` is not assumed
of the VM that is saved, and the finding about object keys below is why; what
needs it says so (`Usual`).
`Reversible`, that saving again writes the same stream, does not hold (see
"Runs").

Instructions, global values and positions are one item each and their content is not
modelled; C functions that share a name are not covered; the host's field limit
is taken to be that of the VM that saved. The slot tables are read hole by hole
in `NkTable`, a stack's capacity in `NkStack`, the counters in `NkIterate`.

## Compiler and instructions: `NkCompile`, `NkMachine`, `NkTyping`, `NkRun`, `NkLanguage`

The compiler is one pass over the text that keeps one number as its model of
the stack. `NkCompile` has an operator for each C function, from the state of
the compiler to the state after: the code, the list of contexts with their
variables and frame offset, the functions, the recursion count, whether the
last function returned true and whether any error was added. It works on the
syntax tree that the parser builds, so syntax errors are not in it.
`NkMachine` executes code, one action for each opcode, on a stack of values,
statics and an instruction pointer; it knows nothing of where the code comes
from. `NkRun` puts the two together: a program is compiled in `Init`, then run.

`NkTyping` is between them. Its *certificate* says for each address control can
get to which function it is in, what kinds of values that function has on the
stack there and which static addresses have been given a value; `Certifies` says
that a certificate agrees with the code: the program starts as it says, every
instruction is `Legal` (it has the values it takes, of the kinds it wants; a
local variable is one, a return finds its address where it looks for it), and
what each leaves behind is what the certificate has at the addresses that come
next. Nothing is run for that, so that both branches of each conditional count
whether a program takes them or not. `CompilesToCertified` says that what the
compiler accepts has a certificate, which `Certificate` finds by following the
code; `NkMachineProofs` proves what follows for the execution of any code.

`NkLanguage` says what the same tree means without any code: a recursive
definition of well-formedness by scopes, and of evaluation by environments. It
is the reference, not a model of code. Integers are modulo `IntValues`
so that counting loops are short; the code's addresses and counts are not
reduced. `Fuel` bounds the loop iterations and calls of the reference; a
program that exceeds it has the outcome "stuck", for which `KeepsMeaning` and
`EndsWhenMeant` say nothing. Fairness is `WF_vars(Next)`: `nkxVmIterate` goes on
until the end or an error, as often as the host asked for, and a host that
wants a program to end asks often enough.

`is_finished` has a wrong entry in the table of stack offsets (see "Runs"). The
count that is one too many is of consequence where a break or a variable of a
function follows, on a path that is executed or not: with `CheckingBreak` (in
`MCRun`, under `Unusual`) the code is not certified even where the break is never
reached, and the passing run has `is_finished` where nothing depends on it.

What is left out: fields, strings, self calls, increments, C functions, constant
folding (no program here adds two literals),
recursion of a script function through its own name at a depth that exhausts
the stack (`NkStack` has what happens then) and the lines of a REPL.

## Runs

| run | instance | shows |
|---|---|---|
| `table` | 4 entries, indices of 3 bits | type, holes, ranges, packing; refinement of `NkSlotMap` |
| `gc` | an object, a coroutine, a string; handle counts 0..1 | nothing reachable is lost, marking is exact, handles protect, the handle list is exact, a collection ends |
| `fields` | 2 objects, 1 string, nil, an integer and NaN, 2 slots and 2 buckets, field limit 2 | references, keys, counts; refinement of `NkFieldMap` |
| `stack` | capacities 1 to 8, limits 0, 3, 4 and more | mask and capacity; refinement of `NkValueStack` |
| `recovery` | 3 blocks, sizes 1, 3, 14 of 4 bits, 5 activations | jumps, block list, accounting, deletion; a failure reaches the host |
| `iterate` | counters of 4 bits, intervals 1 to 5, limits 0, 4, 5 | the limit holds, a due collection comes |
| `save` | 2 slots, 2 buckets, all small heaps, chains of 2, 2 C functions, 6 hosts | a loaded image is the saved one; a damaged one is refused or harmless |
| `coroutines` | 2 coroutines, 4 frames, 2 native calls, depth 1 | stacks, native calls and errors; refinement of `NkCoroutineSpec` |
| `compile` | 2433 programs | compilation keeps the meaning, rejects exactly what is ill-formed, ends clean; all code is certified |
| `table_load_fails` | as `table` | *violation*, see findings |
| `fields_object_keys` | as `fields` without NaN, objects as keys | *violation* |
| `recovery_deletion` | 1 block, failures in the last collection | *violation* |

The type invariants of `NkGc`, `NkFields`, `NkStack`, `NkRecovery`,
`NkCoroutine`, `NkSave` and `NkIterate` are proved for every instance and are not in the
runs, nor is `OneChain` of `NkCoroutine`.

**Further configurations** in this directory are checked by hand
(`tlc -config X.cfg MC...`). They pass:

| configuration | module | instance |
|---|---|---|
| `MCGcObjects` | `MCGc` | 3 objects and a string: a cycle with a tail, garbage beside it |
| `MCGcCoroutines` | `MCGc` | 2 coroutines, stacks of 2: suspended stacks, waiting contexts, `OneChain` |
| `MCGcHandles` | `MCGc` | handle counts of 0..2 with up to 3 handles: overflow, cleanup callbacks that release |
| `MCFieldsNumbers` | `MCFields` | 1 object with 0.0, -0.0, NaN, nil and integer 0 as keys and values |
| `MCRunTypes` | `MCRun` | type invariant |

and these are violated by what the code does, each in the property it names:

| configuration | module | property | what happens |
|---|---|---|---|
| `MCGcPassWrap` | `MCGc` | `HandlesProtect` | pass numbers wrap to 0, the mark of a new object (`nkgc.c:222`) |
| `MCCoroutineNativeBody` | `MCCoroutine` | `StackAsCompiled` | resuming a coroutine made from a C function runs the main program again (`nkopcode.c:1215`) |
| `MCCoroutineYieldAcross` | `MCCoroutine` | `NativeAtHome` | yielding out of a native call lets another function's return end it (`nkfunc.c:130`) |
| `MCRunIsFinished` | `MCRun` | `EndsClean` | the stack offset of `is_finished` is one too many (`nkvm.c:130`) |
| `MCRunBareBody` | `MCRun` | `EndsClean` | `function f() var x = 1;` puts its clean-up after the jump around the function (`nkcompil.c:894`) |
| `MCRunRecursion` | `MCRun` | `RecursionBalanced` | `var` and `return` leak the recursion count (`nkcompil.c:427`); 300 declarations in a row are refused |

Adding an invariant to a configuration shows these, which do not hold of the code:
`AnyKeyFindable` in `MCFields.cfg`, since a field under NaN is never found and
each store adds and counts one more (`nkvalue.c:286`), although the documentation
allows any basic type as a key (`README.md:282` of the repository); and
`Reversible` in `MCSave.cfg`, since loading reverses each bucket (`nksave.c:266`),
so that saving what was loaded gives another stream, which a test says it does not
(`src/test/main.c:212`).

Changing a constant shows these: `ReleaseUnheld = TRUE` in `NkGc` breaks
`HandlesProtect` (`nkobjs.c:346`, a release without a handle); "call back in
creation" in `NkCoroutine` breaks `ErrorsInvalidate` (`nkopcode.c:1228`); and
the settings of `Unusual` named in the sections above.

**Bounds.** *Table*: three bits of index have every power of two up to the
exhaustion of the index space at capacity 4, two doublings, and a halving; four
entries fill it. *Heap*: an object and a coroutine can refer to each other and
be garbage together, the coroutine can wait for another context or be waited
for, the string can be found again by its content; larger heaps are in the
further configurations, and the proofs have any. Pass numbers are not cyclic
(`PassesWrap = FALSE`; with `PassSpace = 3` two collections are followed to the
end: one that leaves its marks behind and one that finds them), except in
`MCGcPassWrap`. *Fields*: two slots and two buckets are enough for keys that
collide, a slot below that is freed, a move that changes a bucket and an object
that refers to itself or to another; `MaxElements = 2` elements and a limit of 2
have the limit reached. NaN is among the atoms, and two elements are two stores under it; the equal
zeros are in `MCFieldsNumbers`, with one object and without strings, because what
is equal does not depend on slots. No coroutine object or literal is in the run, which may
not move; the proofs have them. *Stack*: four capacities are three doublings and
as many halvings. *Recovery*: five activations are a call in a hook in a call in
a C function in a call, and deletion, its collection, a hook, a call and a C
function; three blocks are a head, a middle and a tail; 4 bits of size wrap with
a size of 14 and a header of 2. *Main loop*: four intervals on either side of
the cap of 3, limits smaller and larger than an interval, a load. *Images*: two
slots are a table with a hole before an entry; elements of one bucket collide;
each chain over two coroutines occurs; hosts lack a function, a type, a
subsystem, or have them in another order. *Contexts*: two coroutines besides the
root give a chain of three, a coroutine resumed from a coroutine and one that is
suspended while the other runs; two native calls nest; four frames are the
first, a call, a native call back and a call in it. Depth 1 tells a missing from
an extra value, because a count that is wrong is compared with the compiler's
and never capped. *Programs*: every statement of two levels - conditionals with
and without else, the three loops, blocks with variables before and after,
functions and lambdas in blocks - around assignment, call, declaration, return
and break, in each of three places (global variables, variables of a block, an
argument and a variable of a function), for two values. Two levels nest a break
in a loop in a loop, a return in a loop in a function, and a function in a loop.

**Deadlock.** Tables, heap, fields, stack and counters are used by a host that
stops whenever it likes, and end when deleted or failed; a compiled program
ends. Those configurations say `CHECK_DEADLOCK FALSE`. In `NkCoroutine`,
`NkRecovery` and `NkSave` the host can always go on, and deadlock is checked.

**Fairness.** `NkGc`: weak fairness of the collector's steps, since
`nkiVmIterate` calls the collector to its end; nothing obliges the program to
run or a collection to start. `NkRun`: `WF_vars(Next)`, the loop of
`nkxVmExecuteProgram` goes on until the end or an error. `NkIterate`: weak
fairness of the loop, for the same reason; setting an interval is free to happen
for ever and does not take away a step. `NkRecovery`: code of the host returns
(weak), and, after a failure, a public function that can return again and again
does (strong: in between a hook or C function may be called, which returns);
deletion once begun is finished (strong, for the same reason). Nothing is
assumed of a call while there is no failure.

## Proofs

Each proof module states one inductive invariant, proves that the initial states
have it and that each action keeps it, and derives the theorems.

`NkTableProofs` (any entries and index space): `TableInvariant` and from it
type correctness, `HolesAlwaysEmpty`, `SlotsNeverLeak`, `RangesStaySane` (but
for the load that loses its array),
`EntriesHaveOneSlot`, `CompactionLeavesNoGap`; `TableImplementsSlotMap` is the
refinement. The invariant adds to the checked properties that the array has its
recorded size while it is used, that everything between the two cursors of a
compaction is pinned, and that there are no holes while a save is loaded:
without the first a new entry may be written beyond the array, without the
second packing is not inductive.

`NkGcProofs` (for any objects, strings and bounds, under `Legal`: pass numbers
do not wrap and the host releases what it acquired): `GcInvariant`, and from it
type correctness, `HandleListStaysExact`, `ContextsFormOneChain`,
`NothingReachableIsLost`, `MarkingIsExact` and, for a host with fewer handles on
an object than a count has values, `HandlesAlwaysProtect`. `Legal` excludes
what `MCGcPassWrap` and `ReleaseUnheld` show. `NothingReachableLost` is not inductive: that
everything *reachable* exists says nothing of garbage, which a later string
lookup or a cleanup callback may touch, nor of the middle of a sweep. The
invariant is stronger: nothing in the heap dangles between collections, garbage
included; while one sweeps, the marked part is closed and has the roots; while
one marks, no marked object refers to something neither marked nor queued
(tri-colour), and everything grey is in every closed set around the roots. From
the last two, when the queue is empty the marked set is both closed and
contained in the least closed set, hence exact. What is freed follows: no step
frees anything that can be reached or a literal (`OnlyGarbageIsFreed`), and of the
strings a sweep keeps nothing else (`StringsSweptExactly`). `CollectionsShrink` is
what can be proved of `GcTerminates`, if the objects are finitely many, as indices
are: there are at most two steps for each object and two more, because nothing on
the open list is marked (`OpenIsUnmarked`). The chain of contexts is part of
the invariant since the collector follows `parent`.

`NkFieldsProofs` (any tables, buckets, hash function and numbers, equal and
unequal, under `Usual`: no unusual setting): type correctness, `ReferencesTheorem`, `KeysTheorem`,
`LenTheorem`, and `MapTheorem`, the refinement of `NkFieldMap`. The invariant
says of each chain that its elements are of that bucket and no two of its keys equal,
of the tables that nothing is in two slots, of what is not in a table that it
has no fields, of every reference that it is to something, and of the count that
it is the number of elements. An element under NaN is in the invariant like any
other: no search stops at it, so that what the search finds is found among the
others, and the elements are counted as those found under some key and those under
NaN. That moving an object or string keeps it needs all
of them at once: rewriting one reference into another is injective only
because the slot moved to was empty and nothing referred to it, and it keeps a
key in its bucket only because what is moved under a key is a string, hashed by
its content.

`NkStackProofs` (any capacities that double, any limits): type correctness,
`MaskTheorem`, and `StackTheorem`, the refinement of `NkValueStack`. The
invariant is the type and the mask; the refinement rests on a masked index
below the size being itself, and on halving never cutting below the size.

`NkRecoveryProofs` (any blocks, sizes, limits and depth, under `Usual`): type
correctness, `ListTheorem`, `FramesTheorem`, `StopsTheorem`, `MemoryTheorem`,
`UsageTheorem`, `LimitTheorem`.
Of the list the invariant says also that what is not lent points to nothing, so
that a new head has nothing behind it but the old list; what is found from the
head is the least closed set, so that an allocation or a free is followed by
arguing about closed sets before and after it. Of the C stack it says which code
runs on which: public functions on the host's code, that on a public function or
on deletion, and deletion at the bottom. This is what makes a jump safe to
analyse: under the activation that is left there is code of the host or nothing,
and no work of the VM that would go on. `UsageExact` is a fold over the lent
blocks, which the prover has no induction for. `FoldIs` shows that the fold is
the number of pairs of a block and a position in it: that count is a function
with the fold's recursion, and among the sets on which two such functions differ
there would be a smallest. With it the usage is inductive together with the list,
and neither the addition in an allocation nor the subtraction in a free wraps.

`NkCoroutineProofs` (any coroutines, programs' depths and bounds; the set of
coroutines is finite, handles being indices of a table): `TypesAreKept` and
`ContextsWaitInOneChain` whatever the program does, and under `Usual` (`Unusual`
is empty: the program does not resume a coroutine made from a C function, nor
yield across one, and C code called by `create` does not call back)
`ScriptsFindTheirStack`, `NativeCodeRunsAtHome`, `ErrorsInvalidateCoroutines` and
the refinement `ContextsImplementCoroutines` of `NkCoroutineSpec`. The invariant
has three layers. `IsChain`: the contexts that wait are a sequence without
repetition from the root to the current one. `Sound`: in every stack the address
a frame returns to is one at which its caller has the depth the compiler meant,
and a coroutine that is not on the chain was not started, waits where it yielded
with no native call in it, or has ended. `Calm`, as long as there was no error:
each context that waits does so after its resume; native calls are at home in
contexts of the chain, in the order of the chain and of the frames within one
context; and where one of them took over, the frame below it is as deep as the
compiler has it there, but for one value for each further call at the same place.
`StackAsCompiled` says nothing of a frame that is not on top, so that alone no
return, yield or end would keep it; and that a return ends the innermost loop is
known only because the native calls are ordered as the frames are. The
refinement maps each step to one of the abstract specification or a stutter; that
a coroutine is resumed only when it is not on the chain is what its steps need
of the invariant.

`NkMachineProofs` (code of any length, any functions, any number of integers)
proves of `MachineSpec`, if the code that was accepted is `Certifiable`:
`CertifiedRunsInstructions` (the pointer is always at an instruction, never in
the data of one), `CertifiedEndsClean` (no instruction fails, and nothing is left
on the stack at the end) and `CertifiedNothingStale` (no value comes from outside
the stack, which the masked index does not check). A certificate is about
one function at a time, and the stack has the values of all that have not
returned; what an instruction does to the values below its own function is what a
certificate cannot say. The invariant `Certain` says it: the stack is cut into
frames, one for each activation; what the innermost frame has is of the kinds
known at the pointer, what another has is of those known after the call it waits
in (`Waiting`), without what that call takes and returns; and each frame but the
first holds, where its function's `Back` is, the address its caller goes on at
(`Linked`). The frames are a witness in the proof and not a variable. Every
instruction but a call and a return changes the innermost frame alone
(`Unframed`, `Onward`), a call splits it, and a return finds through `Linked` that
the address it takes off the stack is that of the frame below, whose certificate
then says what is there. That a certificate exists is the compiler's part, and
TLC's: `CompilesToCertified` in the run `compile`. The step from one to the other,
that `NkRun` implements `MachineSpec`, is by its definition (`Init` has `Starts`,
`Next` has `Runs`) and not a theorem, because `NkCompile` is recursive.

The same module has the proofs about `NkIterate` (any intervals, limits and
width, under `Usual`): type correctness, in particular that no countdown wraps,
and `LimitTheorem`. The invariant, `Counted`, is a sum: what was executed, what
runs before the next check and what is left of the limit do not exceed what was
granted plus the slack. `DueDrawsNearer` is what can be proved of
`CollectsWhenDue`: what is due stays due, and every instruction brings the check
nearer whatever the host does to the intervals.

`NkSaveProofs` (VMs, hosts and streams of any size, under `SaveAssumption` and
`RunningAssumption`): `TypesAreKept`, `SaneTheorem`, `ByNameTheorem`,
`LoadableTheorem` and, under `Usual` (the fields of the VM that is saved can be
found, which `KeysTheorem` says of a program that has neither objects nor NaN as
keys; the keys in `NkSave` are strings, objects, integers and nil),
`SavedTheorem`. They rest on `InvariantTheorem` and `InPlaceTheorem`. The stream is part of the
invariant, not only as `Written(saved)`: of a damaged one it says that it is as
it was written but for one index or marker (`Kept`). Where the parts begin are
sums of the lengths before them, and `ItemCases` says which item is at a
position; a counter per part (`StringsBy`, `NativesBy`, ...) says how much of it
was read. Two layers follow. `Sane`, for any stream: what was read is of the
right shape, the functions are within the natives, a context is there only for a
coroutine, and the active contexts are distinct but perhaps for the last, which
`Looped` finds. That every coroutine has a context when the chain is reached
needs one number: the contexts still missing are as many as the items of that
part to come, because an object can be damaged in its slot but not in its type
or number. `Faithful`, for an undamaged stream: the slots filled are the first
so many of those that were saved, functions map to C functions of the same name,
and the active contexts are the beginning of the chain; so no index is taken
twice, none is out of range and no coroutine is missing, and only what `Lacking`
names can be refused. `FlattenIs`, `RebuiltBySteps` state the folds of the
community modules as functions, since a fold can only be reasoned about by the
function it is; what holds of an object's chains holds after each step because
there is no first step after which it does not.
`LoadedIsSaved` is about two hash tables with the same elements in different
orders. What is in the buckets, whichever the order, is a set (`Elements`), and
the value of a key is determined by that set in any VM with the same strings as
long as every element is in its place (`LookupSame`). Hence two more invariants.
`InPlaceInv`, for any stream: no object is read before the last string is, so
that an element is added to the bucket it will be looked for in. `AgreedInv`, for
an undamaged one: each item read so far is agreed on by the VM that was saved and
the one that loads, an object up to the order of its elements; an element read
never replaces another because the keys of the saved object are distinct, nor does
a subsystem, because names are. With `Written_ObjectsFirst` in the place of
`Written` the first of them fails.

**Only model-checked**: liveness (`GcTerminates`, `EndsWhenMeant`,
`CollectsWhenDue`, `FailureReachesHost`), which is out of the prover's reach: of
the first and third the measure that falls is proved and that the collector and the
loop can go on (`ENABLED`) is not;
what the compiler writes (`RejectsIllFormed`, `KeepsMeaning`,
`CompilesToCertified`), since it is recursive over syntax trees; the findings. TLC evaluates the assumptions on constants in the run of each module.

## Findings

1. `table_load_fails`: loading frees the array of a table before it allocates the
   next one and keeps the capacity (`nksave.c:314`). When that fails, what a
   comment promises for cleanup (`nktable.c:206`) is not so: a lookup of an object
   by its index, as in `nkxVmObjectGetExternalData`, goes to an array that is
   not there.
2. `fields_object_keys`: compaction writes the new index of an object into keys
   and leaves the element in the bucket of the old one (`nkshrink.c:87`). The
   field is not found any more and can be added a second time.
3. `recovery_deletion`: deletion runs a collection, which allocates, under a
   jump buffer whose handler returns (`nkvm.c:307`). When that allocation fails,
   `nkxVmDelete` frees the VM and with it the only list of everything else.

Those without a run are with the further configurations above.

## Hazards without a place above

Met while reading, in code no module has: after an error in a REPL line the next
one overwrites instructions that functions and suspended coroutines still point
to (`nkcompil.c:1666`), and each early return in the middle of a statement has to
unwind the compiler's contexts itself (`nkcompil.c:1382`); `nkxVmCreateEx`
gives the host's user data to its allocator for the VM itself and does not store
it, so that every later call gets none (`nkx.c:78`); `nkxSerializeData`
has no activation of its own (`nkx.c:977`); loading frees the list of globals
while their count is kept (`nksave.c:945`); the clean-up of subsystem data
unlinks by a pointer read before the callback (`nkvm.c:277`).

## Not modelled

The tokenizer, dynamic strings, the debug dump and the command line: text and
I/O. The optimizer and the conversions, arithmetic and order of values: pure
functions of 32-bit integers and floats, whose interesting inputs TLC cannot
enumerate. The operator-precedence parser, fields, self calls and increments in
expressions: a function from tokens to a tree, with nothing in between that
another step could meet. The growth of the tables of types, subsystem data and
source files; the texts of errors; the setting of external data of objects;
the lines of a REPL except for what they do to the execution contexts. The
repository's tests were read for how hosts use the library.
