---------------------------- MODULE NkCoroutine ----------------------------
(***************************************************************************)
(* Execution contexts: calls and returns on the stack of a context,        *)
(* coroutines (nkcorout.c and their opcodes), and native functions that    *)
(* call back into the VM (nkfunc.c), down to what becomes of the           *)
(* instruction pointer and of the depth of the stack.                      *)
(*                                                                         *)
(* The program is any program the compiler emits.  A point in it says      *)
(* whether it is in the main program or in a function, and how many values *)
(* the compiler left on the function's part of the stack there; the value  *)
(* of an instruction pointer is the point AFTER the instruction it is at,  *)
(* since nkiVmIterate goes on to the next one whatever an instruction did. *)
(* Values are not modelled: which of them is passed is plain to see, what  *)
(* may go wrong is how many there are.                                     *)
(***************************************************************************)
EXTENDS Integers, Sequences, FiniteSets
(* Operators with an underscore in their names are faulty variants: see    *)
(* NkTable.                                                                *)

CONSTANTS
  Co,              \* identities of coroutine objects
  Root,            \* the root execution context
  None,            \* no parent
  Invalid,         \* the address NK_INVALID_VALUE = NK_UINT_MAX
  NativeReturn,    \* the address NK_UINT_MAX - 1
  Unusual,         \* what the program does beyond the usual
  DepthBound, FrameBound, NativeBound  \* bounds of the model: values in a
                   \* frame, frames of a context, native calls in progress

Context == Co \cup {Root}
Point   == [code : {"main", "function"}, depth : 0 .. DepthBound]
Address == Point \cup {Invalid, NativeReturn}
Frame   == [ret : Address, depth : Nat]

ASSUME ContextAssumption ==
  /\ Root \notin Co /\ None \notin Context /\ IsFiniteSet(Co)
  /\ Invalid \notin Point /\ NativeReturn \notin Point /\ Invalid # NativeReturn
  /\ Unusual \subseteq {"resume native", "call back in creation", "yield across"}
  /\ Cardinality(Unusual) <= 1  \* looked at one at a time
  /\ DepthBound \in Nat \ {0} /\ FrameBound \in Nat \ {0} /\ NativeBound \in Nat

VARIABLES
  frames,   \* context -> its stack: the values below the first call, then
            \* one frame for each call, with the return address it holds
  ip,       \* context -> instructionPointer
  parent,   \* context -> the context that resumed it
  state,    \* context -> coroutineState; "none": no such object
  current,  \* the current execution context
  native,   \* native calls in progress, in the C stack's order
  failed,   \* is there anything in the error list?
  struck    \* coroutines that were active when an error occurred, for
            \* ErrorsInvalidate

errorVars == <<failed, struck>>
vars == <<frames, ip, parent, state, current, native, errorVars>>

Start == [code |-> "main", depth |-> 0]
Empty == <<[ret |-> Invalid, depth |-> 0]>>

Init ==
  /\ frames = [c \in Context |-> Empty]
  /\ ip = [c \in Context |-> Start]
  /\ parent = [c \in Context |-> None]
  /\ state = [c \in Context |-> IF c = Root THEN "running" ELSE "none"]
  /\ current = Root /\ native = <<>> /\ failed = FALSE /\ struck = {}

-----------------------------------------------------------------------------
Top(s)  == s[Len(s)]
Rest(s) == SubSeq(s, 1, Len(s) - 1)

(* instructionPointer++ of an address whose instruction was done: past the *)
(* end of the address space it goes on at 0, where the main program is.    *)
Incremented(a) ==
  CASE a = Invalid -> Start [] a = NativeReturn -> Invalid [] OTHER -> a

(* A stack with n values more in its last frame, and one that nkiVmStackPop *)
(* takes a value from, if there is one.                                    *)
Grown(s, n) == [s EXCEPT ![Len(s)].depth = @ + n]
Popped(s) == IF Top(s).depth = 0 THEN s ELSE Grown(s, -1)

(* The interpreter is at an instruction of the current context: it was     *)
(* called by the host or by a native function whose call has not returned. *)
Running ==
  /\ ~ failed
  /\ native # <<>> => Top(native).loop
  /\ ip[current] \in Point

At == ip[current]
After(n) == [At EXCEPT !.depth = @ + n]
Room == At.depth < DepthBound /\ Top(frames[current]).depth <= DepthBound

(* Instructions that only work on values: the compiler knows how many they *)
(* leave.                                                                  *)
Compute(d) ==
  /\ Running
  /\ ip' = [ip EXCEPT ![current].depth = d]
  /\ Top(frames[current]).depth + d >= At.depth
  /\ frames' = [frames EXCEPT ![current] = Grown(@, d - At.depth)]
  /\ UNCHANGED <<parent, state, current, native, errorVars>>

Called(s, a) == Append(s, [ret |-> a, depth |-> 0])
FunctionStart == [code |-> "function", depth |-> 0]

(* nkiOpcode_call of a script function: its arguments are of its frame. *)
CallFunction ==
  /\ Running /\ Room /\ Len(frames[current]) < FrameBound
  /\ frames' = [frames EXCEPT ![current] = Called(@, After(1))]
  /\ ip' = [ip EXCEPT ![current] = FunctionStart]
  /\ UNCHANGED <<parent, state, current, native, errorVars>>

(* nkiVmPopExecutionContext in a context that has a parent, a value pushed *)
(* on the parent's stack, and the increment that nkiVmIterate does of the  *)
(* pointer of the context which is then the current one.                   *)
PopExecutionContext ==
  /\ parent[current] # None
  /\ current' = parent[current]
  /\ parent' = [parent EXCEPT ![current] = None]

SwitchToParent(stacks, pointers) ==
  /\ PopExecutionContext
  /\ frames' = [stacks EXCEPT ![parent[current]] = Grown(@, 1)]
  /\ ip' = [pointers EXCEPT ![parent[current]] = Incremented(@)]

(* nkiOpcode_return, by the address the frame holds. *)
Returned_Left(s) == Grown(s, 1)
Returned(s) == Grown(Rest(s), 1)

Return ==
  /\ Running /\ At.code = "function"
  /\ Len(frames[current]) > 1 /\ Top(frames[current]).ret # Invalid
  /\ frames' = [frames EXCEPT ![current] = Returned(@)]
  /\ ip' = [ip EXCEPT ![current] = Incremented(Top(frames[current]).ret)]
  /\ UNCHANGED <<parent, state, current, native, errorVars>>

Finish ==
  /\ Running /\ At.code = "function"
  /\ Len(frames[current]) > 1 /\ Top(frames[current]).ret = Invalid
  /\ state' = [state EXCEPT ![current] = "finished"]
  /\ SwitchToParent([frames EXCEPT ![current] = Rest(@)], [ip EXCEPT ![current] = Invalid])
  /\ UNCHANGED <<native, errorVars>>

(* Native code that is still waiting for a function it called in context c. *)
AwaitedIn(c) == \E i \in 1 .. Len(frames[c]) : frames[c][i].ret = NativeReturn

(* nkiOpcode_coroutineYield: the value given away is replaced when the     *)
(* coroutine is resumed.                                                   *)
Yield ==
  /\ Running /\ Room /\ current # Root
  /\ "yield across" \in Unusual \/ ~ AwaitedIn(current)
  /\ SwitchToParent(frames, [ip EXCEPT ![current] = After(1)])
  /\ UNCHANGED <<state, native, errorVars>>

(* nkiOpcode_coroutineCreate for a script function.  Its pointer is at the *)
(* instruction before the function.                                        *)
CreateCoroutine(c) ==
  /\ Running /\ Room /\ state[c] = "none"
  /\ state' = [state EXCEPT ![c] = "created"]
  /\ frames' = [frames EXCEPT ![c] = Called(Empty, Invalid), ![current] = Grown(@, 1)]
  /\ ip' = [ip EXCEPT ![c] = FunctionStart, ![current] = After(1)]
  /\ UNCHANGED <<parent, current, native, errorVars>>

(* nkiOpcode_coroutineResume *)
ResumeFinished(c) ==
  /\ Running /\ Room /\ state[c] = "finished"
  /\ frames' = [frames EXCEPT ![current] = Grown(@, 1)]
  /\ ip' = [ip EXCEPT ![current] = After(1)]
  /\ UNCHANGED <<parent, state, current, native, errorVars>>

(* The value of a first resume goes nowhere, that of a later one is what   *)
(* the yield that suspended the coroutine returns.                         *)
Received_Always(c) == Grown(frames[c], 1)
Received(c) == IF state[c] = "created" THEN frames[c] ELSE Grown(frames[c], 1)

Resume(c) ==
  /\ Running /\ Room
  /\ state[c] \in {"created", "running"} /\ parent[c] = None
  /\ "resume native" \in Unusual \/ ip[c] # Invalid
  /\ parent' = [parent EXCEPT ![c] = current]
  /\ current' = c
  /\ state' = [state EXCEPT ![c] = "running"]
  /\ frames' = [frames EXCEPT ![c] = Received(c)]
  /\ ip' = [ip EXCEPT ![current] = After(1), ![c] = Incremented(@)]
  /\ UNCHANGED <<native, errorVars>>

(* The contexts from the current one up to the root. *)
Waiting ==
  {c \in Context :
     \A S \in SUBSET Context :
       current \in S /\ (\A o \in S : parent[o] \in S \cup {None}) => c \in S}

(* nkiAddError *)
Fail == failed' = TRUE /\ struck' = struck \cup (Waiting \ {Root})

-----------------------------------------------------------------------------
(***************************************************************************)
(* Native code.  What it is called with and what it returns are one value  *)
(* of the frame it was called from.  An entry of native says whether it    *)
(* runs itself or has called a function of the VM and iterates until that  *)
(* returns (loop), the instruction pointer it is to restore then (old),    *)
(* and, for the properties, in which context and above how many frames it  *)
(* was called.                                                             *)
(***************************************************************************)
Entry(kind, loop, c, height) ==
  [kind |-> kind, loop |-> loop, old |-> ip[c], home |-> c, height |-> height]

(* nkiOpcode_call of a native function. *)
CallNative ==
  /\ Running /\ Room /\ Len(native) < NativeBound
  /\ frames' = [frames EXCEPT ![current] = Grown(@, 1)]
  /\ ip' = [ip EXCEPT ![current] = After(1)]
  /\ native' = Append(native, Entry("call", FALSE, current, Len(frames[current])))
  /\ UNCHANGED <<parent, state, current, errorVars>>

(* nkiOpcode_coroutineCreate for a native function: it is called at once,  *)
(* in the new context.                                                     *)
CreateNativeCoroutine(c) ==
  /\ Running /\ Room /\ state[c] = "none" /\ Len(native) < NativeBound
  /\ state' = [state EXCEPT ![c] = "created"]
  /\ frames' = [frames EXCEPT ![c] = Grown(Empty, 1), ![current] = Grown(@, 1)]
  /\ ip' = [ip EXCEPT ![c] = Invalid, ![current] = After(1)]
  /\ parent' = [parent EXCEPT ![c] = current]
  /\ current' = c
  /\ native' = Append(native, Entry("create", FALSE, c, 1))
  /\ UNCHANGED errorVars

NativeRuns == native # <<>> /\ ~ Top(native).loop

MayCallBack ==
  /\ NativeRuns /\ ~ failed
  /\ "call back in creation" \in Unusual \/ Top(native).kind = "call"

Looping(s) == [s EXCEPT ![Len(s)].loop = TRUE, ![Len(s)].old = ip[current]]

(* nkiVmCallFunction, for a script function ... *)
CallBack ==
  /\ MayCallBack /\ Len(frames[current]) < FrameBound
  /\ frames' = [frames EXCEPT ![current] = Called(@, NativeReturn)]
  /\ ip' = [ip EXCEPT ![current] = FunctionStart]
  /\ native' = Looping(native)
  /\ UNCHANGED <<parent, state, current, errorVars>>

(* ... and for a native one, after which the pointer is where the return   *)
(* of a script function would have left it. *)
CallBackNative ==
  /\ MayCallBack /\ Len(native) < NativeBound
  /\ frames' = [frames EXCEPT ![current] = Grown(@, 1)]
  /\ ip' = [ip EXCEPT ![current] = NativeReturn]
  /\ native' = Append(Looping(native), Entry("call", FALSE, current, Len(frames[current])))
  /\ UNCHANGED <<parent, state, current, errorVars>>

(* The host calls a function, wherever nkxVmIterate left the program. *)
HostCall ==
  /\ native = <<>> /\ ~ failed /\ Len(frames[current]) < FrameBound
  /\ frames' = [frames EXCEPT ![current] = Called(@, NativeReturn)]
  /\ ip' = [ip EXCEPT ![current] = FunctionStart]
  /\ native' = <<Entry("host", TRUE, current, Len(frames[current]))>>
  /\ UNCHANGED <<parent, state, current, errorVars>>

LeaveLoop ==
  native' = IF Top(native).kind = "host" THEN Rest(native)
                                         ELSE [native EXCEPT ![Len(native)].loop = FALSE]

(* The loop of nkiVmCallFunction ends: the value the function returned is  *)
(* taken from the stack, the old pointer comes back.                       *)
FunctionReturned ==
  /\ native # <<>> /\ Top(native).loop /\ ~ failed
  /\ ip[current] = Invalid
  /\ frames' = [frames EXCEPT ![current] = Popped(@)]
  /\ ip' = [ip EXCEPT ![current] = Top(native).old]
  /\ LeaveLoop
  /\ UNCHANGED <<parent, state, current, errorVars>>

(* After an error the loop ends too, and may leave the stack as it is. *)
FunctionFailed ==
  /\ native # <<>> /\ Top(native).loop /\ failed
  /\ \/ /\ ip' = [ip EXCEPT ![current] = Top(native).old]
        /\ frames' = [frames EXCEPT ![current] = Popped(@)]
     \/ UNCHANGED <<ip, frames>>
  /\ LeaveLoop
  /\ UNCHANGED <<parent, state, current, errorVars>>

(* The native function returns to nkiOpcode_call, and that to the loop     *)
(* that iterates, or to nkiOpcode_coroutineCreate.  After an error nothing *)
(* refers to the new coroutine but stacks that are to be cleared.          *)
NativeReturns ==
  /\ NativeRuns /\ Top(native).kind = "call"
  /\ native' = Rest(native)
  /\ ip' = [ip EXCEPT ![current] = Incremented(@)]
  /\ UNCHANGED <<frames, parent, state, current, errorVars>>

Unfinished == {c \in {current} : failed /\ c = Top(native).home}

NativeCoroutineReturns ==
  /\ NativeRuns /\ Top(native).kind = "create"
  /\ PopExecutionContext
  /\ ip' = [ip EXCEPT ![parent[current]] = Incremented(@)]
  /\ native' = Rest(native)
  /\ state' = [c \in Context |-> IF c \in Unfinished THEN "none" ELSE state[c]]
  /\ struck' = struck \ Unfinished
  /\ UNCHANGED <<frames, failed>>

-----------------------------------------------------------------------------
(***************************************************************************)
(* Errors and the collector.                                               *)
(***************************************************************************)
(* An instruction fails: a yield from the root, the resume of an active or *)
(* invalid coroutine, any other error.  Some of its operands are gone.     *)
RuntimeError ==
  /\ Running /\ Room
  /\ Fail
  /\ \E lost \in 0 .. Top(frames[current]).depth :
       frames' = [frames EXCEPT ![current] = Grown(@, -lost)]
  /\ ip' = [ip EXCEPT ![current] = After(1)]
  /\ UNCHANGED <<parent, state, current, native>>

NativeError ==
  /\ NativeRuns /\ ~ failed
  /\ Fail
  /\ UNCHANGED <<frames, ip, parent, state, current, native>>

(* nkiCompilerClearReplErrorState *)
Cleared_Kept(c) == state[c]
Cleared(c) == "invalid"

ClearReplErrorState ==
  /\ native = <<>>
  /\ frames' = [c \in Context |-> IF c \in Waiting THEN Empty ELSE frames[c]]
  /\ ip' = [c \in Context |-> IF c \in Waiting THEN Start ELSE ip[c]]
  /\ parent' = [c \in Context |-> IF c \in Waiting THEN None ELSE parent[c]]
  /\ state' = [c \in Context |-> IF c \in Waiting THEN Cleared(c) ELSE state[c]]
  /\ current' = Root
  /\ failed' = FALSE
  /\ UNCHANGED <<native, struck>>

(* A coroutine nothing refers to is collected; one in the chain is found   *)
(* by the collector (NothingReachableLost in NkGc).                        *)
Collect(c) ==
  /\ state[c] # "none" /\ parent[c] = None /\ c # current
  /\ state' = [state EXCEPT ![c] = "none"]
  /\ frames' = [frames EXCEPT ![c] = Empty]
  /\ ip' = [ip EXCEPT ![c] = Start]
  /\ struck' = struck \ {c}
  /\ UNCHANGED <<parent, current, native, failed>>

Script ==
  \/ \E d \in 0 .. DepthBound : Compute(d)
  \/ CallFunction
  \/ Return
  \/ Finish
  \/ Yield
  \/ \E c \in Co : CreateCoroutine(c) \/ Resume(c) \/ ResumeFinished(c)
  \/ CallNative
  \/ \E c \in Co : CreateNativeCoroutine(c)
  \/ RuntimeError

NativeCode ==
  \/ CallBack
  \/ CallBackNative
  \/ FunctionReturned
  \/ FunctionFailed
  \/ NativeReturns
  \/ NativeCoroutineReturns
  \/ NativeError

Host == HostCall \/ ClearReplErrorState \/ \E c \in Co : Collect(c)

Next == Script \/ NativeCode \/ Host

Spec == Init /\ [][Next]_vars

-----------------------------------------------------------------------------
TypeOK ==
  /\ frames \in [Context -> Seq(Frame)] /\ \A c \in Context : frames[c] # <<>>
  /\ ip \in [Context -> Address]
  /\ parent \in [Context -> Context \cup {None}]
  /\ state \in [Context -> {"none", "created", "running", "finished", "invalid"}]
  /\ current \in Context
  /\ native \in Seq([kind : {"host", "call", "create"}, loop : BOOLEAN, old : Address,
                      home : Context, height : Nat \ {0}])
  /\ failed \in BOOLEAN /\ struck \subseteq Co

(* Wherever the program goes on - after a call, a yield, a resume, a call  *)
(* from native code, an error that was cleared - the stack is as deep as   *)
(* the compiler counted, and the main program runs nowhere but in the root *)
(* context.                                                                *)
StackAsCompiled ==
  Running =>
    /\ Top(frames[current]).depth = At.depth
    /\ At.code = "main" <=> Len(frames[current]) = 1
    /\ At.code = "main" => current = Root

(* "simply keep iterating until the instruction pointer points to the end  *)
(* of addressable program space, indicating that the function has          *)
(* returned" (nkx.h:100-103): when it does, it is the function this call   *)
(* waits for that has, in the context it was called in; and native code    *)
(* always runs in that context, where its arguments are.                   *)
NativeAtHome ==
  ~ failed /\ native # <<>> /\ (Top(native).loop => ip[current] = Invalid) =>
    /\ current = Top(native).home
    /\ Len(frames[current]) = Top(native).height

(* "Invalidate every execution context from every coroutine going up to    *)
(* the root execution context" (nkcompil.c:1672-1673): once an error was   *)
(* cleared, no coroutine that was active when it occurred can be resumed.  *)
ErrorsInvalidate ==
  ~ failed => \A c \in struck : state[c] \notin {"created", "running"}

(* The contexts that wait are the chain from the current one to the root:  *)
(* none waits for a context that does not run for it.                      *)
OneChain ==
  LET W == Waiting IN
  /\ Root \in W
  /\ \A c \in Co : parent[c] # None <=> c \in W
  /\ \A c, d \in W : parent[c] = parent[d] => c = d

(* For the abstract specification a coroutine is there when its creation   *)
(* is complete.  The contexts from the current one up are a chain that     *)
(* ends at the root.                                                       *)
InCreation(c) == \E i \in 1 .. Len(native) : native[i].kind = "create" /\ native[i].home = c

Chain ==
  CHOOSE s \in UNION {[1 .. n -> Context] : n \in 1 .. Cardinality(Context)} :
    /\ s[1] = Root
    /\ Top(s) = IF InCreation(current) THEN parent[current] ELSE current
    /\ \A i \in 1 .. Len(s) - 1 : parent[s[i + 1]] = s[i]

StatusOf(c) ==
  IF InCreation(c) THEN "none"
  ELSE IF parent[c] # None THEN "active"
  ELSE IF state[c] = "running" THEN "suspended" ELSE state[c]

Coroutines ==
  INSTANCE NkCoroutineSpec WITH chain <- Chain, status <- [c \in Co |-> StatusOf(c)]

(* Whatever contexts call, yield and fail, coroutines do what they promise *)
(* (README.md:376-456).                                                    *)
ImplementsCoroutines == Coroutines!Spec
=============================================================================
