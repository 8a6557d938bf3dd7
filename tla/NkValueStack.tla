---------------------------- MODULE NkValueStack ----------------------------
(***************************************************************************)
(* What the instructions of a program take a stack to be: a sequence of    *)
(* values.  Room is a matter of the host's limits, which end the program.  *)
(***************************************************************************)
EXTENDS Integers, Sequences

CONSTANTS Values, Zero

VARIABLES
  stack,    \* bottom first
  result,   \* what an instruction got from the stack
  failed,   \* the VM has an error and runs no further
  odd       \* the number of instructions so far is

TypeOK ==
  /\ stack \in Seq(Values)
  /\ result \in Values
  /\ failed \in BOOLEAN
  /\ odd \in BOOLEAN

Init ==
  /\ stack = <<>>
  /\ result = Zero
  /\ failed = FALSE
  /\ odd = FALSE

Push(v) ==
  /\ stack' = Append(stack, v)
  /\ UNCHANGED <<result, failed>>

Pop ==
  /\ stack # <<>>
  /\ result' = stack[Len(stack)]
  /\ stack' = SubSeq(stack, 1, Len(stack) - 1)
  /\ UNCHANGED failed

PopN(count) ==
  /\ count <= Len(stack)
  /\ stack' = SubSeq(stack, 1, Len(stack) - count)
  /\ UNCHANGED <<result, failed>>

Peek(i) ==
  /\ result' = stack[i]
  /\ UNCHANGED <<stack, failed>>

Poke(i, v) ==
  /\ stack' = [stack EXCEPT ![i] = v]
  /\ UNCHANGED <<result, failed>>

(* Too many values, or too few.  What is on the stack then is not promised.*)
Fail ==
  /\ failed' = TRUE
  /\ stack' \in Seq(Values)
  /\ result' \in Values

(* A step that is no instruction changes nothing, or fails.                *)
Next ==
  /\ ~failed
  /\ odd' # odd \/ Fail
  /\ \/ \E v \in Values : Push(v)
     \/ Pop
     \/ \E count \in 0 .. Len(stack) : PopN(count)
     \/ \E i \in 1 .. Len(stack) : Peek(i) \/ \E v \in Values : Poke(i, v)
     \/ Fail

Spec == Init /\ [][Next]_<<stack, result, failed, odd>>
=============================================================================
