----------------------------- MODULE NkRecovery -----------------------------
(***************************************************************************)
(* What happens when memory runs out (nkfail.h, nkx.c, nkvm.c).            *)
(*                                                                         *)
(* A public function (nkx...) sets a jump buffer of its own, remembers the *)
(* one before it, does its work and puts the old one back.  When an        *)
(* allocation fails, a flag is set and control jumps to the buffer that is *)
(* current, whose function returns a default.  The work may call back into *)
(* code of the host, a C function that a script calls or a hook of garbage *)
(* collection, saving or clean-up, and that code may call public functions *)
(* again.  A failure under it returns to the host's code in the middle of  *)
(* the VM's work; what a C function was called for fails then again, what  *)
(* a hook was called for does not.                                         *)
(***************************************************************************)
EXTENDS NkMemory, Sequences
(* An operator with an underscore in its name is a faulty variant of the   *)
(* one that follows it; no action uses it.                                 *)

CONSTANTS
  MaxDepth,     \* bound: activations on the C stack
  Unusual       \* "failingCollection", "ownAllocator", "endlessFunction"

ASSUME RecoveryAssumption ==
  /\ MaxDepth \in Nat \ {0}
  /\ Unusual \subseteq {"failingCollection", "ownAllocator", "endlessFunction"}

VARIABLES
  exists,     \* there is a VM
  frames,     \* the C stack, from the host's code down
  buffer,     \* catastrophicFailureJmpBuf: an index into frames, or 0
  failed      \* allocationFailure

vars == <<memoryVars, exists, frames, buffer, failed>>

(* Activations: public functions with a jump buffer that call a function   *)
(* of the program ("function") or do something else ("other"), the part of *)
(* deletion that has a buffer ("collection") and the part that has not     *)
(* ("deletion"), code of the host ("native", "hook").                      *)
Calls == {"function", "other"}
Guarded == Calls \cup {"collection"}
HostCode == {"native", "hook"}

Activations ==
  [code : Guarded \cup HostCode \cup {"deletion"},
   lastFrame : 0 .. MaxDepth,
   hookFailed : BOOLEAN]      \* a hook it called came back with the flag set

Activation(code) == [code |-> code, lastFrame |-> buffer, hookFailed |-> FALSE]

Top == frames[Len(frames)]
Running(codes) == frames # <<>> /\ Top.code \in codes
HostRuns == exists /\ (frames = <<>> \/ Running(HostCode))

TypeOK ==
  /\ MemoryTypeOK
  /\ exists \in BOOLEAN
  /\ frames \in Seq(Activations) /\ Len(frames) <= MaxDepth
  /\ buffer \in 0 .. Len(frames)
  /\ failed \in BOOLEAN

Init ==
  /\ NoMemory
  /\ exists = FALSE
  /\ frames = <<>>
  /\ buffer = 0
  /\ failed = FALSE

Pushed(code) == frames' = Append(frames, Activation(code))

-----------------------------------------------------------------------------
(* Public functions.                                                       *)

(* nkxVmCreateEx: nkiVmInit runs under a buffer as every other call does.  *)
Create ==
  /\ ~exists
  /\ exists' = TRUE
  /\ frames' = <<[code |-> "other", lastFrame |-> 0, hookFailed |-> FALSE]>>
  /\ buffer' = 1
  /\ failed' = FALSE
  /\ lent' = {} /\ head' = NoBlock
  /\ next' = [b \in Blocks |-> NoBlock]
  /\ prev' = [b \in Blocks |-> NoBlock]
  /\ size' = [b \in Blocks |-> 0]
  /\ usage' = 0 /\ peak' = 0 /\ limit' = UintMax

(* After a failure a call puts the buffer back and returns at once.        *)
ReturnsAtOnce_Never == FALSE

ReturnsAtOnce == failed

Call(code) ==
  /\ HostRuns
  /\ ~ReturnsAtOnce
  /\ Len(frames) < MaxDepth
  /\ Pushed(code)
  /\ buffer' = Len(frames) + 1
  /\ UNCHANGED <<memoryVars, exists, failed>>

(* One of those without a buffer.                                          *)
SetMaxAllocatedMemory ==
  /\ HostRuns
  /\ limit' \in Limits
  /\ UNCHANGED <<lent, head, next, prev, size, usage, peak,
                 exists, frames, buffer, failed>>

Restored_Own(i) == i

Restored(i) == frames[i].lastFrame

Return ==
  /\ exists
  /\ Running(Calls)
  /\ frames' = SubSeq(frames, 1, Len(frames) - 1)
  /\ buffer' = Restored(Len(frames))
  /\ UNCHANGED <<memoryVars, exists, failed>>

-----------------------------------------------------------------------------
(* The VM's work.                                                          *)

(* NK_CATASTROPHE.  All that is above the buffer's activation is gone, and *)
(* the activation returns.  Deletion returns from the collection to the    *)
(* function that frees the VM itself, without having freed anything.       *)
Catastrophe ==
  /\ failed' = TRUE
  /\ buffer' = Restored(buffer)
  /\ \/ /\ frames[buffer].code # "collection"
        /\ frames' = SubSeq(frames, 1, buffer - 1)
        /\ UNCHANGED exists
     \/ /\ frames[buffer].code = "collection"
        /\ "failingCollection" \in Unusual
        /\ frames' = <<>>
        /\ exists' = FALSE
  /\ UNCHANGED memoryVars

Allocate ==
  /\ Running(Guarded)
  /\ \E n \in Sizes \ {0}, b \in Blocks \ lent :
       /\ ~Refused(n)
       /\ Allocated(b, n)
  /\ UNCHANGED <<exists, frames, buffer, failed>>

(* A request over the limit, or one the host's allocator does not serve.   *)
AllocationFails ==
  /\ Running(Guarded)
  /\ Sizes \ {0} # {}
  /\ Catastrophe

Free ==
  /\ Running(Guarded \cup {"deletion"})
  /\ \E b \in lent : Freed(b)
  /\ UNCHANGED <<exists, frames, buffer, failed>>

(* Deletion calls the hooks of subsystems, collection those of objects.    *)
CallHost(code) ==
  /\ \/ Running(Calls) /\ code \in HostCode
     \/ Running({"deletion", "collection"}) /\ code = "hook"
  /\ Len(frames) < MaxDepth
  /\ Pushed(code)
  /\ UNCHANGED <<memoryVars, exists, buffer, failed>>

FailsAgain_Never(code) == FALSE

FailsAgain(code) == code = "native" /\ failed

HostReturns ==
  /\ Running(HostCode)
  /\ \/ /\ FailsAgain(Top.code)
        /\ Catastrophe
     \/ /\ ~FailsAgain(Top.code)
        /\ frames' = [SubSeq(frames, 1, Len(frames) - 1) EXCEPT
                        ![Len(frames) - 1].hookFailed =
                            @ \/ (Top.code = "hook" /\ failed)]
        /\ UNCHANGED <<memoryVars, exists, buffer, failed>>

-----------------------------------------------------------------------------
(* Deletion.                                                               *)

Delete ==
  /\ exists
  /\ frames = <<>>
  /\ Pushed("deletion")
  /\ UNCHANGED <<memoryVars, exists, buffer, failed>>

(* What is on the list is given to free(), which is not what it was got    *)
(* from when the host has an allocator of its own.                         *)
FreeList ==
  /\ Running({"deletion"})
  /\ failed
  /\ lent' = IF "ownAllocator" \in Unusual THEN lent ELSE lent \ OnList
  /\ head' = NoBlock
  /\ next' = [b \in Blocks |-> NoBlock]
  /\ prev' = [b \in Blocks |-> NoBlock]
  /\ size' = [b \in Blocks |-> 0]
  /\ usage' = 0
  /\ frames' = <<>>
  /\ exists' = FALSE
  /\ UNCHANGED <<peak, limit, buffer, failed>>

Collect ==
  /\ Running({"deletion"})
  /\ ~failed
  /\ Len(frames) < MaxDepth
  /\ Pushed("collection")
  /\ buffer' = Len(frames) + 1
  /\ UNCHANGED <<memoryVars, exists, failed>>

(* Every structure of the VM is freed, and the VM.                         *)
FreeStructures ==
  /\ Running({"collection"})
  /\ lent' = {} /\ head' = NoBlock
  /\ next' = [b \in Blocks |-> NoBlock]
  /\ prev' = [b \in Blocks |-> NoBlock]
  /\ size' = [b \in Blocks |-> 0]
  /\ usage' = 0
  /\ buffer' = Restored(Len(frames))
  /\ frames' = <<>>
  /\ exists' = FALSE
  /\ UNCHANGED <<peak, limit, failed>>

Next ==
  \/ Create
  \/ \E code \in Calls : Call(code)
  \/ SetMaxAllocatedMemory
  \/ Return
  \/ Allocate
  \/ AllocationFails
  \/ Free
  \/ \E code \in HostCode : CallHost(code)
  \/ HostReturns
  \/ Delete
  \/ FreeList
  \/ Collect
  \/ FreeStructures

(* Code of the host returns.  After a failure, so do public functions: the *)
(* loop that runs the program looks at the flag after each instruction.    *)
(* The loop that runs a function does not; the function ends all the same, *)
(* if it is not endless.                                                   *)
Ends == Running({"function"}) => "endlessFunction" \notin Unusual

Fairness ==
  /\ WF_vars(HostReturns)
  /\ SF_vars(failed /\ Ends /\ Return)
  /\ SF_vars(FreeList)
  /\ SF_vars(FreeStructures)

Spec == Init /\ [][Next]_vars /\ Fairness

-----------------------------------------------------------------------------
(* Properties.                                                             *)

(* The buffer is that of the innermost call that has one, and each call    *)
(* has kept the one of the call around it: a failure never jumps into a    *)
(* function that has returned, however calls and failures nest, and there  *)
(* is no buffer while the host runs on its own.                            *)
Innermost(i) ==
  LET guarded == {j \in 1 .. i : frames[j].code \in Guarded}
  IN  IF guarded = {} THEN 0 ELSE CHOOSE j \in guarded : \A k \in guarded : k <= j

FramesNest ==
  /\ buffer = Innermost(Len(frames))
  /\ \A i \in 1 .. Len(frames) :
       frames[i].code \in Guarded => frames[i].lastFrame = Innermost(i - 1)

(* After a failure the VM does no more work, also not under a C function   *)
(* the failure came up to; except for a call one of whose hooks has failed,*)
(* which is not told.                                                      *)
StopsOnFailure == failed /\ Running(Guarded) => Top.hookFailed

(* A deleted VM has given all its blocks back, to where they came from.    *)
MemoryReturned == ~exists => lent = {}

(* What is allocated is within the limit at the time, though the host may  *)
(* have lowered it to less than is in use.                                 *)
LimitHolds == [][usage' > usage => usage' <= limit]_vars

(* After a failure control comes back to the host.                         *)
FailureReachesHost == failed ~> frames = <<>>
=============================================================================
