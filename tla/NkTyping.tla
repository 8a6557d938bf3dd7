------------------------------ MODULE NkTyping ------------------------------
(***************************************************************************)
(* What code has to be like for NkMachine to run it without an error: at   *)
(* every instruction control can get to one knows, before anything is run, *)
(* what is on the stack of the function that runs.  The compiler relies on *)
(* it with a single number, stackFrameOffset; here the values have kinds.  *)
(* A certificate says what is known, Certifies whether it can be true.     *)
(* NkRun has a certificate for what is compiled, NkMachineProofs what      *)
(* follows from one.                                                       *)
(***************************************************************************)
EXTENDS NkMachine

(* A kind is that of one integer or function, of all integers, of the      *)
(* coroutines, or of the address the call of this function returns to.     *)
Exact(n)    == [t |-> "exact", v |-> n]
Whole       == [t |-> "int", v |-> 0]
OneFunction(f) == [t |-> "function", v |-> f]
Object      == [t |-> "object", v |-> 0]
Back        == [t |-> "back", v |-> 0]

Kinds == [t : {"exact", "function"}, v : Int] \cup {Whole, Object, Back}

IsExact(kind)   == kind.t = "exact"
IsInteger(kind) == kind.t \in {"exact", "int"}

(* A copy of a return address is just an integer.                          *)
Copy(kind) == IF kind = Back THEN Whole ELSE kind

Fits(kind, wider) == kind = wider \/ (IsExact(kind) /\ wider = Whole)

(* What is known at an address: the function it is in, the kinds of the    *)
(* values that function has on the stack, and which static addresses have  *)
(* been given a value.                                                     *)
Nowhere == -1  \* in no function
Point(home, shape, known) == [home |-> home, shape |-> shape, known |-> known]
Points == [home : Nat \cup {Nowhere}, shape : Seq(Kinds), known : SUBSET Nat]

Covers(wider, point) ==
  /\ wider.home = point.home
  /\ wider.known \subseteq point.known
  /\ Len(wider.shape) = Len(point.shape)
  /\ \A i \in 1 .. Len(point.shape) : Fits(point.shape[i], wider.shape[i])

(* A certificate: a point for some addresses, a kind for some static       *)
(* addresses, and one for what each function returns.                      *)
IsCertificate(c, image) ==
  /\ IsImage(image)
  /\ DOMAIN c.points \subseteq 0 .. Len(image.code) - 1
  /\ \A a \in DOMAIN c.points : c.points[a] \in Points
  /\ DOMAIN c.global \subseteq 0 .. image.staticVariableCount - 1
  /\ \A k \in DOMAIN c.global : c.global[k] \in Kinds /\ c.global[k] # Back
  /\ DOMAIN c.result = 0 .. Len(image.functions) - 1
  /\ \A f \in DOMAIN c.result : c.result[f] \in Kinds /\ c.result[f] # Back

-----------------------------------------------------------------------------
(* Shapes, from the top.                                                   *)
Off(shape, n)  == shape[Len(shape) + 1 - n]  \* Off(shape, 1) is the top
Less(shape, n) == SubSeq(shape, 1, Len(shape) - n)

(* The top is known to be this integer.                                    *)
Top(shape)    == Off(shape, 1).v
HasTop(shape) == shape # <<>> /\ IsExact(Off(shape, 1))

(* The function that is below its arguments and their number, and what it  *)
(* is called with.                                                         *)
Callee(shape) == Off(shape, Top(shape) + 2).v
Given(shape)  ==
  [i \in 1 .. Top(shape) + 2 |-> Copy(shape[Len(shape) - Top(shape) - 2 + i])]

MayCall(image, shape) ==
  /\ HasTop(shape) /\ Top(shape) \in 0 .. Len(shape) - 2
  /\ Off(shape, Top(shape) + 2).t = "function"
  /\ Callee(shape) \in 0 .. Len(image.functions) - 1
  /\ image.functions[Callee(shape) + 1].argumentCount = Top(shape)

(* Off the top, as nkiOpcode_return takes them: the amount to throw away,  *)
(* the value, that many values, the return address, the argument count.    *)
MayReturn(c, point) ==
  LET s == point.shape
  IN  /\ point.home \in DOMAIN c.result
      /\ HasTop(s) /\ Top(s) \in 0 .. Len(s) - 5
      /\ Fits(Off(s, 2), c.result[point.home])
      /\ Off(s, 3 + Top(s)) = Back
      /\ Off(s, 4 + Top(s)) = Exact(Len(s) - 5 - Top(s))

(* An address below the top, relative to what is below the address itself. *)
IsLocal(shape) == HasTop(shape) /\ Top(shape) \in 1 - Len(shape) .. -1

(* What an instruction asks for.                                           *)
Legal(image, c, a) ==
  LET point == c.points[a]
      s     == point.shape
      op    == image.code[a + 1].op
  IN  \/ /\ op \in {"PUSHLITERAL_INT", "PUSHLITERAL_FUNCTIONID"}
         /\ a + 1 < Len(image.code)
      \/ op = "POP" /\ s # <<>>
      \/ op = "NOT" /\ s # <<>> /\ IsInteger(Off(s, 1))
      \/ op = "COROUTINE_ISFINISHED" /\ s # <<>> /\ Off(s, 1) = Object
      \/ op = "POPN" /\ HasTop(s) /\ Top(s) \in 0 .. Len(s) - 1
      \/ op = "ADD" /\ Len(s) >= 2 /\ IsInteger(Off(s, 1)) /\ IsInteger(Off(s, 2))
      \/ op \in {"STACKPEEK", "STACKPOKE"} /\ IsLocal(s)
      \/ op = "STATICPEEK" /\ HasTop(s) /\ Top(s) \in point.known \cap DOMAIN c.global
      \/ /\ op = "STATICPOKE" /\ HasTop(s) /\ Top(s) \in DOMAIN c.global
         /\ Len(s) >= 2 /\ Fits(Off(s, 2), c.global[Top(s)])
      \/ op = "JUMP_RELATIVE" /\ HasTop(s)
      \/ op = "JUMP_IF_ZERO" /\ HasTop(s) /\ Len(s) >= 2 /\ IsInteger(Off(s, 2))
      \/ op \in {"CALL", "COROUTINE_CREATE"} /\ MayCall(image, s)
      \/ op = "RETURN" /\ MayReturn(c, point)
      \/ op = "END" /\ s = <<>> /\ point.home = Nowhere

(* Where an instruction leads to in its function, and what is known of the *)
(* stack and the static addresses there.                                   *)
Leads(image, c, a) ==
  LET s  == c.points[a].shape
      op == image.code[a + 1].op
  IN  CASE op = "PUSHLITERAL_INT" -> {<<a + 2, Append(s, Exact(image.code[a + 2].v))>>}
        [] op = "PUSHLITERAL_FUNCTIONID" ->
             {<<a + 2, Append(s, OneFunction(image.code[a + 2].v))>>}
        [] op = "POP"           -> {<<a + 1, Less(s, 1)>>}
        [] op = "POPN"          -> {<<a + 1, Less(s, 1 + Top(s))>>}
        [] op = "ADD"           -> {<<a + 1, Append(Less(s, 2), Whole)>>}
        [] op = "NOT"           -> {<<a + 1, Append(Less(s, 1), Whole)>>}
        [] op = "STACKPEEK"     -> {<<a + 1, Append(Less(s, 1), Copy(s[Len(s) + Top(s)]))>>}
        [] op = "STACKPOKE"     ->
             {<<a + 1, [i \in 1 .. Len(s) - 1 |->
                          IF i = Len(s) + Top(s) THEN Copy(Off(s, 2)) ELSE s[i]]>>}
        [] op = "STATICPEEK"    -> {<<a + 1, Append(Less(s, 1), c.global[Top(s)])>>}
        [] op = "STATICPOKE"    -> {<<a + 1, Less(s, 1)>>}
        [] op = "JUMP_RELATIVE" -> {<<a + 1 + Top(s), Less(s, 1)>>}
        [] op = "JUMP_IF_ZERO"  ->
             {<<a + 1, Less(s, 2)>>, <<a + 1 + Top(s), Less(s, 2)>>}
        [] op = "CALL"          ->
             {<<a + 1, Append(Less(s, 2 + Top(s)), c.result[Callee(s)])>>}
        [] op = "COROUTINE_CREATE"     -> {<<a + 1, Append(Less(s, 2 + Top(s)), Object)>>}
        [] op = "COROUTINE_ISFINISHED" -> {<<a + 1, Append(Less(s, 1), Exact(0))>>}
        [] OTHER                -> {}

KnownAfter(image, c, a) ==
  c.points[a].known \cup
    IF image.code[a + 1].op = "STATICPOKE" THEN {Top(c.points[a].shape)} ELSE {}

Successors(image, c, a) ==
  LET point == c.points[a]
      s     == point.shape
  IN  {<<next[1], Point(point.home, next[2], KnownAfter(image, c, a))>>
         : next \in Leads(image, c, a)}
      \cup IF image.code[a + 1].op = "CALL"
           THEN {<<image.functions[Callee(s) + 1].firstInstructionIndex,
                   Point(Callee(s), Append(Given(s), Back), point.known)>>}
           ELSE {}

Entry == Point(Nowhere, <<>>, {})

Meets(c, a, point) == a \in DOMAIN c.points /\ Covers(c.points[a], point)

(* The certificate is true at the start and stays so.                      *)
Certifies(c, image) ==
  /\ IsCertificate(c, image)
  /\ Meets(c, 0, Entry)
  /\ \A a \in DOMAIN c.points :
       /\ Legal(image, c, a)
       /\ \A next \in Successors(image, c, a) : Meets(c, next[1], next[2])

(* The code the compiler accepted has a certificate.                       *)
Certifiable == ~compiler.error => \E c : Certifies(c, compiler)

=============================================================================
