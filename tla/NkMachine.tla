----------------------------- MODULE NkMachine -----------------------------
(***************************************************************************)
(* The loop that runs instructions (nkvm.c) and the instructions           *)
(* (nkopcode.c), for any code there may be, on the stack of one context.   *)
(* NkRun gives it the code that NkCompile writes; NkTyping says of which   *)
(* code it can be known beforehand that it runs without an error.          *)
(*                                                                         *)
(* Coroutines are only created here, never resumed: NkCoroutine has what   *)
(* the other contexts do.  The stack may be as deep as it gets: NkStack    *)
(* has its capacity.                                                       *)
(***************************************************************************)
EXTENDS Integers, Sequences

CONSTANT IntValues  \* how many integers there are: 2^32 in the code

ASSUME MachineAssumption == IntValues \in Nat \ {0, 1}

VARIABLES
  compiler,  \* what compiling has left, the code and the functions in it
  ip,        \* instructionPointer
  stack,     \* of the root execution context, values from the bottom
  statics,   \* staticSpace
  status     \* "rejected", "running", "failed" (an error), "ended"

machine == <<compiler, ip, stack, statics, status>>

IsImage(image) ==
  /\ image.code \in Seq([op : STRING, v : Int])
  /\ image.functions \in Seq([argumentCount : Nat, firstInstructionIndex : Nat])
  /\ image.staticVariableCount \in Nat

Number(n) == [t |-> "int", v |-> n % IntValues]
Coroutine == [t |-> "object", v |-> 0]

(* The host compiles, finalizes and goes on unless there were errors.      *)
Starts ==
  /\ ip = 0 /\ stack = <<>>
  /\ statics = [i \in 1 .. compiler.staticVariableCount |-> Number(0)]
  /\ status = IF compiler.error THEN "rejected" ELSE "running"

-----------------------------------------------------------------------------
Word(address) == compiler.code[address + 1]

Executes(op) == status = "running" /\ Word(ip).op = op

(* Peeking masks the index, so that a wrong one finds what is left of some *)
(* value or other; Stale is not a value of the language.                   *)
Stale     == [t |-> "stale", v |-> 0]
Peek(i)   == IF i \in 0 .. Len(stack) - 1 THEN stack[i + 1] ELSE Stale
FromTop(n) == Peek(Len(stack) - n)  \* FromTop(1) is the top
Popped(n) == SubSeq(stack, 1, Len(stack) - n)

IsInt(value) == value.t = "int"
Raw(n)       == [t |-> "int", v |-> n]  \* an address or count in the code

(* nkiVmIterate: after the instruction, the pointer is incremented.        *)
Goes(newStack, newIp) ==
  /\ stack' = newStack /\ ip' = newIp + 1
  /\ UNCHANGED <<compiler, statics, status>>

(* After an error nothing is run, and what the instruction left is moot.   *)
Fails == status' = "failed" /\ UNCHANGED <<compiler, ip, stack, statics>>

Does(legal, newStack, newIp) == IF legal THEN Goes(newStack, newIp) ELSE Fails

-----------------------------------------------------------------------------
PushLiteralInt ==
  Executes("PUSHLITERAL_INT") /\ Goes(Append(stack, Raw(Word(ip + 1).v)), ip + 1)

PushLiteralFunctionId ==
  /\ Executes("PUSHLITERAL_FUNCTIONID")
  /\ Goes(Append(stack, [t |-> "function", v |-> Word(ip + 1).v]), ip + 1)

Pop == Executes("POP") /\ Does(stack # <<>>, Popped(1), ip)

PopN ==
  /\ Executes("POPN")
  /\ LET n == FromTop(1)
     IN  Does(IsInt(n) /\ n.v < Len(stack), Popped(1 + n.v), ip)

Add ==
  /\ Executes("ADD")
  /\ LET a == FromTop(2)  b == FromTop(1)
     IN  Does(IsInt(a) /\ IsInt(b), Append(Popped(2), Number(a.v + b.v)), ip)

Not ==
  /\ Executes("NOT")
  /\ LET a == FromTop(1)
     IN  Does(IsInt(a), Append(Popped(1), Raw(IF a.v = 0 THEN 1 ELSE 0)), ip)

(* A negative address is relative to the stack without the address itself. *)
Slot(address) == IF address < 0 THEN Len(stack) - 1 + address ELSE address

StackPeek ==
  /\ Executes("STACKPEEK")
  /\ Does(IsInt(FromTop(1)), Append(Popped(1), Peek(Slot(FromTop(1).v))), ip)

StackPoke ==
  /\ Executes("STACKPOKE")
  /\ LET to == Slot(FromTop(1).v)
     IN  Does(IsInt(FromTop(1)),
              [i \in 1 .. Len(stack) - 1 |-> IF i = to + 1 THEN FromTop(2) ELSE stack[i]], ip)

StaticPeek ==
  /\ Executes("STATICPEEK")
  /\ Does(IsInt(FromTop(1)), Append(Popped(1), statics[FromTop(1).v + 1]), ip)

StaticPoke ==
  /\ Executes("STATICPOKE")
  /\ IF IsInt(FromTop(1))
     THEN /\ stack' = Popped(1) /\ ip' = ip + 1
          /\ statics' = [statics EXCEPT ![FromTop(1).v + 1] = FromTop(2)]
          /\ UNCHANGED <<compiler, status>>
     ELSE Fails

JumpRelative ==
  /\ Executes("JUMP_RELATIVE")
  /\ Does(IsInt(FromTop(1)), Popped(1), ip + FromTop(1).v)

JumpIfZero ==
  /\ Executes("JUMP_IF_ZERO")
  /\ LET test == FromTop(2)  offset == FromTop(1)
     IN  Does(IsInt(test) /\ IsInt(offset), Popped(2), IF test.v = 0 THEN ip + offset.v ELSE ip)

(* The function called is below its arguments and their count.             *)
Callable(f, argumentCount) ==
  /\ f.t = "function" /\ f.v < Len(compiler.functions)
  /\ compiler.functions[f.v + 1].argumentCount = argumentCount

Call ==
  /\ Executes("CALL")
  /\ LET n == FromTop(1).v
         f == FromTop(n + 2)
     IN  IF IsInt(FromTop(1)) /\ Callable(f, n)
         THEN Goes(Append(stack, Raw(ip)), compiler.functions[f.v + 1].firstInstructionIndex - 1)
         ELSE Fails

(* Off the top: the amount to throw away, the value, that many values, the *)
(* return address, the argument count, the arguments, the function.        *)
Return ==
  /\ Executes("RETURN")
  /\ LET thrown == FromTop(1).v
         ret    == FromTop(3 + thrown)
         args   == FromTop(4 + thrown)
     IN  IF /\ IsInt(FromTop(1)) /\ IsInt(ret) /\ IsInt(args)
            /\ 5 + thrown + args.v <= Len(stack)
         THEN Goes(Append(Popped(5 + thrown + args.v), FromTop(2)), ret.v)
         ELSE Fails

CoroutineCreate ==
  /\ Executes("COROUTINE_CREATE")
  /\ LET n == FromTop(1).v
         f == FromTop(n + 2)
     IN  Does(IsInt(FromTop(1)) /\ Callable(f, n), Append(Popped(n + 2), Coroutine), ip)

CoroutineIsFinished ==
  /\ Executes("COROUTINE_ISFINISHED")
  /\ Does(FromTop(1) = Coroutine, Append(Popped(1), Raw(0)), ip)

(* nkxVmIterate stops at it, and it complains of what is left on the stack. *)
End ==
  /\ Executes("END")
  /\ status' = IF stack = <<>> THEN "ended" ELSE "failed"
  /\ UNCHANGED <<compiler, ip, stack, statics>>

Runs ==
  \/ PushLiteralInt \/ PushLiteralFunctionId \/ Pop \/ PopN
  \/ Add \/ Not
  \/ StackPeek \/ StackPoke \/ StaticPeek \/ StaticPoke
  \/ JumpRelative \/ JumpIfZero \/ Call \/ Return
  \/ CoroutineCreate \/ CoroutineIsFinished \/ End

MachineSpec == Starts /\ [][Runs]_machine

-----------------------------------------------------------------------------
(* Properties.                                                             *)

(* Control never gets into the data of an instruction or out of the code:  *)
(* every patched jump, call and return address is right.                   *)
RunsInstructions ==
  status = "running" => ip < Len(compiler.code) /\ Word(ip).op # "data"

(* A program that was accepted runs without an error, none of which is its *)
(* own fault here, and ends with nothing left on the stack.                *)
EndsClean == status # "failed"

=============================================================================
