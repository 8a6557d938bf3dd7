------------------------------ MODULE NkMemory ------------------------------
(***************************************************************************)
(* The allocator of a VM (nkmem.c): every block has a header that links it *)
(* into a list of the VM's, so that all of them can be freed when nothing  *)
(* else in the VM is to be trusted, and its size is charged to a limit the *)
(* host sets.                                                              *)
(***************************************************************************)
EXTENDS Integers, FiniteSetsExt
(* An operator with an underscore in its name is a faulty variant of the   *)
(* one that follows it; no action uses it.                                 *)

CONSTANTS
  Blocks,     \* what the host's allocator may hand out
  NoBlock,
  Sizes,      \* sizes asked for
  Header,     \* size of struct NKMemoryHeader
  UintMax,    \* the largest nkuint32_t
  Limits      \* values the host may set maxAllocatedMemory to

ASSUME MemoryAssumption ==
  /\ NoBlock \notin Blocks /\ IsFiniteSet(Blocks)
  /\ UintMax \in Nat
  /\ Header \in 1 .. UintMax
  /\ Sizes \subseteq 0 .. UintMax
  /\ Limits \subseteq 0 .. UintMax

VARIABLES
  lent,     \* blocks the VM has of the host's allocator
  head,     \* vm->allocations
  next,     \* nextAllocation
  prev,     \* the block whose nextAllocation prevAllocationPtr points to, or
            \* NoBlock: it points to vm->allocations
  size,     \* what was asked for
  usage, peak, limit

memoryVars == <<lent, head, next, prev, size, usage, peak, limit>>

MemoryTypeOK ==
  /\ lent \subseteq Blocks
  /\ head \in Blocks \cup {NoBlock}
  /\ next \in [Blocks -> Blocks \cup {NoBlock}]
  /\ prev \in [Blocks -> Blocks \cup {NoBlock}]
  /\ size \in [Blocks -> 0 .. UintMax]
  /\ {usage, peak, limit} \subseteq 0 .. UintMax

(* A VM of its own, as nkxVmCreateEx and nkiVmInit leave it.  The fields of*)
(* a block that is not lent are of no meaning: they are NoBlock and 0.     *)
NoMemory ==
  /\ lent = {} /\ head = NoBlock
  /\ next = [b \in Blocks |-> NoBlock]
  /\ prev = [b \in Blocks |-> NoBlock]
  /\ size = [b \in Blocks |-> 0]
  /\ usage = 0 /\ peak = 0 /\ limit = UintMax

Wrapped(n) == n % (UintMax + 1)

-----------------------------------------------------------------------------
(* Which requests fail before the host is asked.                           *)

Overflows(n) == n > UintMax - Header

Chunk(n) == Wrapped(n + Header)

OverLimit_Unsigned(n) == Chunk(n) > Wrapped(limit - usage)

OverLimit(n) ==
  \/ Chunk(n) < n
  \/ usage > limit
  \/ Chunk(n) > Wrapped(limit - usage)

Refused(n) == Overflows(n) \/ (n # 0 /\ OverLimit(n))

-----------------------------------------------------------------------------
(* The new block goes to the front of the list.                            *)

NextOf_Forgotten(b) == NoBlock

NextOf(b) == head

Allocated(b, n) ==
  /\ b \in Blocks \ lent
  /\ lent' = lent \cup {b}
  /\ size' = [size EXCEPT ![b] = n]
  /\ usage' = Wrapped(usage + n + Header)
  /\ peak' = IF peak < usage' THEN usage' ELSE peak
  /\ prev' = [c \in Blocks |-> IF c = head THEN b ELSE prev[c]]
  /\ next' = [next EXCEPT ![b] = NextOf(b)]
  /\ head' = b
  /\ UNCHANGED limit

(* The block after b now hangs where b did.                                *)
PrevWithout_Kept(b) == prev

PrevWithout(b) == [c \in Blocks |-> IF c = next[b] THEN prev[b] ELSE prev[c]]

Footprint_Bare(b) == size[b]

Footprint(b) == size[b] + Header

Freed(b) ==
  /\ b \in lent
  /\ lent' = lent \ {b}
  /\ usage' = Wrapped(usage - Footprint(b))
  /\ size' = [size EXCEPT ![b] = 0]
  /\ prev' = [PrevWithout(b) EXCEPT ![b] = NoBlock]
  /\ IF prev[b] = NoBlock
     THEN /\ head' = next[b]
          /\ next' = [next EXCEPT ![b] = NoBlock]
     ELSE /\ next' = [next EXCEPT ![prev[b]] = next[b], ![b] = NoBlock]
          /\ UNCHANGED head
  /\ UNCHANGED <<peak, limit>>

(* nkiRealloc: another block, a copy, and the old one is freed; the old one*)
(* stays if there is no other.  The caller's two steps are Allocated and   *)
(* Freed.                                                                  *)

-----------------------------------------------------------------------------

(* What is found from a block, or from the head of the list, and on.       *)
Closed(S) ==
  /\ head \in S \cup {NoBlock}
  /\ \A b \in S : next[b] \in S \cup {NoBlock}

OnList == {b \in Blocks : \A S \in SUBSET Blocks : Closed(S) => b \in S}

(* The list is the only thing left to trust after a failure: it has on it  *)
(* what the VM has of the host and nothing else, and each block knows the  *)
(* one thing that points to it, so that the list ends.                     *)
ListSound ==
  /\ OnList = lent
  /\ \A b \in lent :
       /\ IF b = head THEN prev[b] = NoBlock
          ELSE prev[b] \in lent /\ next[prev[b]] = b
       /\ next[b] # NoBlock => prev[next[b]] = b

(* The usage is the sum of what is lent, headers included, with no wrap,   *)
(* whatever sizes are asked for; the peak has not missed it.               *)
UsageExact ==
  /\ usage = MapThenSumSet(LAMBDA b : size[b] + Header, lent)
  /\ usage <= peak
=============================================================================
