----------------------------- MODULE NkCompile -----------------------------
(***************************************************************************)
(* The compiler (nkcompil.c, the emitting half of nkexpr.c, nkfse.c): what *)
(* becomes of a program's syntax tree, instruction by instruction.         *)
(*                                                                         *)
(* The compiler makes one pass and keeps no model of the stack but a       *)
(* number, stackFrameOffset: how many values the function has on it at the *)
(* instruction being written.  Local variables are addressed relative to   *)
(* that number, a break and a return pop what it says, jumps are patched   *)
(* when their target is known.  Every operator here is the C function of   *)
(* its name; it takes the compiler's state and returns the state after.    *)
(*                                                                         *)
(* A node of an expression has a kind, a value v and at most two children  *)
(* c, as nkexpr.c builds them; a statement is a record.  The text of a     *)
(* program, so its syntax errors, is not modelled.                         *)
(***************************************************************************)
EXTENDS Integers, Sequences, SequencesExt
(* Operators with an underscore in their names are faulty variants: see    *)
(* NkTable.                                                                *)

CONSTANT RecursionLimit  \* 256 in nkiCompilerPushRecursion

ASSUME RecursionLimitAssumption == RecursionLimit \in Nat

NoFunction == -1  \* the id NK_INVALID_VALUE

NewContext == [variables |-> <<>>, stackFrameOffset |-> 0,
               currentFunctionId |-> NoFunction,
               isLoopContext |-> FALSE, loopContextFixups |-> <<>>]

(* contexts go from the global one to cs->context; ok is what the last C   *)
(* function returned; error is whether any error was added.                *)
NewCompiler == [code |-> <<>>, contexts |-> <<NewContext>>, functions |-> <<>>,
                staticVariableCount |-> 0, globalVariables |-> <<>>, recursionCount |-> 0,
                ok |-> TRUE, error |-> FALSE]

Here(cs)    == Len(cs.code)  \* instructionWriteIndex
Current(cs) == Last(cs.contexts)
IsGlobal(cs) == Len(cs.contexts) = 1

AddError(cs) == [cs EXCEPT !.error = TRUE]

Adjusted(cs, n) ==
  [cs EXCEPT !.contexts[Len(cs.contexts)].stackFrameOffset = @ + n]

-----------------------------------------------------------------------------
(* Writing instructions.  A literal is two words, the second one data.     *)

StackOffsetTable(op) ==
  CASE op \in {"PUSHLITERAL_INT", "PUSHLITERAL_FUNCTIONID",
               "COROUTINE_CREATE", "COROUTINE_ISFINISHED"}     -> 1
    [] op \in {"POP", "ADD", "STACKPOKE", "STATICPOKE", "JUMP_RELATIVE"} -> -1
    [] op = "JUMP_IF_ZERO"                                     -> -2
    [] OTHER                                                   -> 0

AddWord(cs, word) == [cs EXCEPT !.code = Append(@, word)]

AddInstruction(cs, op, adjustStackFrame) ==
  LET added == AddWord(cs, [op |-> op, v |-> 0])
  IN  IF adjustStackFrame /\ cs.contexts # <<>>
      THEN Adjusted(added, StackOffsetTable(op)) ELSE added

EmitLiteral(cs, op, value, adjustStackFrame) ==
  AddWord(AddInstruction(cs, op, adjustStackFrame), [op |-> "data", v |-> value])

EmitPushLiteralInt(cs, value, adjustStackFrame) ==
  EmitLiteral(cs, "PUSHLITERAL_INT", value, adjustStackFrame)

EmitPushLiteralFunctionId(cs, id, adjustStackFrame) ==
  EmitLiteral(cs, "PUSHLITERAL_FUNCTIONID", id, adjustStackFrame)

(* Both return the state; the jump starts where the state before is.       *)
EmitJumpWith(cs, op, target) ==
  AddInstruction(EmitPushLiteralInt(cs, target - Here(cs) - 3, TRUE), op, TRUE)

EmitJump_InPlace(cs, target) == EmitJumpWith(cs, "JUMP_RELATIVE", Here(cs))

EmitJump(cs, target) == EmitJumpWith(cs, "JUMP_RELATIVE", target)
EmitJumpIfZero(cs, target) == EmitJumpWith(cs, "JUMP_IF_ZERO", target)

ModifyJump_OneShort(cs, jump, target) ==
  [cs EXCEPT !.code[jump + 2].v = target - jump - 4]

ModifyJump(cs, jump, target) == [cs EXCEPT !.code[jump + 2].v = target - jump - 3]

-----------------------------------------------------------------------------
(* Contexts and variables.                                                 *)

PushContext(cs) ==
  [cs EXCEPT !.contexts =
     Append(@, [NewContext EXCEPT !.stackFrameOffset = Current(cs).stackFrameOffset])]

PopsOf(context) ==
  Len(SelectSeq(context.variables,
        LAMBDA var : ~var.doNotPopWhenOutOfScope /\ ~var.isGlobal))

(* The instructions are written into the context outside, whose offset     *)
(* never counted these variables.                                          *)
PopContext(cs) ==
  LET outside == [cs EXCEPT !.contexts = Front(@)]
      n       == PopsOf(Current(cs))
  IN  IF n = 0 THEN outside
      ELSE AddInstruction(EmitPushLiteralInt(outside, n, FALSE), "POPN", FALSE)

PushLoopContext(cs) ==
  PushContext([PushContext(cs) EXCEPT !.contexts[Len(cs.contexts) + 1].isLoopContext = TRUE])

PopContextCount(cs, n) == FoldLeft(LAMBDA c, k : PopContext(c), cs, [k \in 1 .. n |-> k])

AllocateStaticSpace(cs) == [cs EXCEPT !.staticVariableCount = @ + 1]

WithVariable(cs, var) ==
  [cs EXCEPT !.contexts[Len(cs.contexts)].variables = <<var>> \o @]

Variable(name, isGlobal, position) ==
  [name |-> name, isGlobal |-> isGlobal, position |-> position,
   doNotPopWhenOutOfScope |-> FALSE]

Declares(context, name) ==
  \E i \in DOMAIN context.variables : context.variables[i].name = name

(* What is on top of the stack goes to the next free static address.       *)
MoveToStatic(cs) ==
  LET address == EmitPushLiteralInt(AllocateStaticSpace(cs), cs.staticVariableCount, TRUE)
  IN  AddInstruction(AddInstruction(address, "STATICPOKE", TRUE), "POP", TRUE)

AddVariable(cs, name, useValueAtStackTop) ==
  LET made == IF useValueAtStackTop THEN cs ELSE EmitPushLiteralInt(cs, 0, TRUE)
  IN  CASE Declares(Current(cs), name) -> AddError(cs)
        [] ~Declares(Current(cs), name) /\ IsGlobal(cs) ->
             WithVariable(MoveToStatic(made), Variable(name, TRUE, cs.staticVariableCount))
        [] OTHER ->
             WithVariable(made, Variable(name, FALSE, Current(made).stackFrameOffset - 1))

(* An argument is on the stack already, and stays for RETURN to pop.       *)
AddArgument(cs, name) ==
  LET added == AddVariable(cs, name, TRUE)
  IN  IF added.error THEN added
      ELSE [added EXCEPT !.contexts[Len(cs.contexts)].variables[1].doNotPopWhenOutOfScope = TRUE]

Missing == [isGlobal |-> FALSE, position |-> 0, missing |-> TRUE]

LookupVariable(cs, name) ==
  LET inside == SelectLastInSeq(cs.contexts, LAMBDA context : Declares(context, name))
      vars   == cs.contexts[inside].variables
  IN  IF inside = 0 THEN Missing
      ELSE vars[SelectInSeq(vars, LAMBDA var : var.name = name)]

FunctionContext_Nested(cs, id) ==
  [cs EXCEPT !.contexts = Append(@, [NewContext EXCEPT !.currentFunctionId = id])]

(* The context goes up to the global one, not to what is around it.        *)
FunctionContext(cs, id) ==
  [cs EXCEPT !.contexts = <<Head(@), [NewContext EXCEPT !.currentFunctionId = id]>>]

-----------------------------------------------------------------------------
(* The count of nested C calls.                                            *)

TooDeep(cs)       == cs.recursionCount > RecursionLimit
PushRecursion(cs) == [cs EXCEPT !.recursionCount = @ + 1]
PopRecursion(cs)  == [cs EXCEPT !.recursionCount = @ - 1]
Fail(cs)          == [cs EXCEPT !.ok = FALSE]
Succeed(cs)       == [cs EXCEPT !.ok = TRUE]

(* A C function that counts itself, and leaves the count by every return.  *)
Counted(cs, Compile(_)) ==
  IF TooDeep(cs) THEN Fail(AddError(cs)) ELSE PopRecursion(Compile(PushRecursion(cs)))

(* The next step of a C function, unless the last one made it return.      *)
Then(cs, Compile(_)) == IF cs.ok THEN Compile(cs) ELSE cs

-----------------------------------------------------------------------------
(* Expressions.                                                            *)

RECURSIVE CompileStatement(_, _), CompileExpression(_, _), EmitExpression(_, _),
          CountCallArguments(_)

CountCallArguments(nodes) ==
  IF nodes = <<>> THEN 0 ELSE 1 + CountCallArguments(Tail(nodes[1].c))

Rest(node) == Tail(node.c)  \* children[1], if there is one

EmitAccess(cs, name, globalOp, localOp, adjust) ==
  LET var == LookupVariable(cs, name)
  IN  CASE var = Missing -> AddError(cs)
        [] var # Missing /\ var.isGlobal ->
             AddInstruction(EmitPushLiteralInt(cs, var.position, TRUE), globalOp, adjust)
        [] OTHER ->
             AddInstruction(
               EmitPushLiteralInt(cs, var.position - Current(cs).stackFrameOffset, TRUE),
               localOp, adjust)

EmitFetchVariable(cs, name) == EmitAccess(cs, name, "STATICPEEK", "STACKPEEK", FALSE)
EmitSetVariable(cs, name)   == EmitAccess(cs, name, "STATICPOKE", "STACKPOKE", TRUE)

EmitExpressionAssignment(cs, node) ==
  Counted(cs, LAMBDA c :
    Succeed(EmitSetVariable(EmitExpression(c, node.c[2]), node.c[1].v)))

EmitCall_Unadjusted(cs, argumentCount) ==
  AddInstruction(EmitPushLiteralInt(cs, argumentCount, FALSE), "CALL", FALSE)

EmitCall(cs, argumentCount) ==
  Adjusted(AddInstruction(EmitPushLiteralInt(cs, argumentCount, FALSE), "CALL", FALSE),
           -argumentCount)

(* argumentCount counts the function among the arguments.                  *)
FSE_coroutineCreate(cs, argumentCount) ==
  AddInstruction(EmitPushLiteralInt(Adjusted(cs, -argumentCount), argumentCount - 1, FALSE),
                 "COROUTINE_CREATE", TRUE)

FSE_coroutineIsFinished(cs) == AddInstruction(cs, "COROUTINE_ISFINISHED", TRUE)

EmitNode(cs, node) ==
  CASE node.k = "int"         -> EmitPushLiteralInt(cs, node.v, TRUE)
    [] node.k = "function"    -> EmitPushLiteralFunctionId(cs, node.v, TRUE)
    [] node.k = "name"        -> EmitFetchVariable(cs, node.v)
    [] node.k = "plus"        -> AddInstruction(cs, "ADD", TRUE)
    [] node.k = "call"        -> EmitCall(cs, CountCallArguments(Rest(node)))
    [] node.k = "coroutine"   -> FSE_coroutineCreate(cs, CountCallArguments(node.c))
    [] node.k = "is_finished" -> FSE_coroutineIsFinished(cs)
    [] node.k = "argument"    -> cs  \* not the root of the call

EmitExpression(cs, node) ==
  IF node.k = "assign" /\ ~TooDeep(cs) THEN EmitExpressionAssignment(cs, node)
  ELSE Counted(cs, LAMBDA c :
         Then(FoldLeft(LAMBDA d, child : Then(d, LAMBDA e : EmitExpression(e, child)), c, node.c),
              LAMBDA d : EmitNode(d, node)))

-----------------------------------------------------------------------------
(* Functions.                                                              *)

FunctionAt(cs) ==
  LET i == SelectLastInSeq(cs.contexts, LAMBDA context : context.currentFunctionId # NoFunction)
  IN  IF i = 0 THEN NoFunction ELSE cs.contexts[i].currentFunctionId

EmitReturn_KeepsFunction(cs) ==
  LET func == cs.functions[FunctionAt(cs) + 1]
  IN  IF FunctionAt(cs) = NoFunction THEN AddError(cs)
      ELSE AddInstruction(
             EmitPushLiteralInt(cs, Current(cs).stackFrameOffset - func.argumentCount - 2, FALSE),
             "RETURN", FALSE)

EmitReturn(cs) ==
  LET func == cs.functions[FunctionAt(cs) + 1]
  IN  IF FunctionAt(cs) = NoFunction THEN AddError(cs)
      ELSE AddInstruction(
             EmitPushLiteralInt(cs, Current(cs).stackFrameOffset - func.argumentCount - 3, FALSE),
             "RETURN", FALSE)

(* A function is an anonymous one when its name is empty.                  *)
CreateFunction(cs, f) ==
  LET created == [cs EXCEPT !.functions =
                    Append(@, [argumentCount |-> 0, firstInstructionIndex |-> 0])]
  IN  IF f.name = "" THEN created
      ELSE AddVariable(EmitPushLiteralFunctionId(created, Len(cs.functions), TRUE), f.name, TRUE)

StartFunction(cs, id, f) ==
  [cs EXCEPT !.functions[id + 1] =
     [argumentCount |-> Len(f.params), firstInstructionIndex |-> Here(cs)]]

(* What is on the stack when the function starts, its variables.           *)
EnterFunction(cs, id, f) ==
  LET listed == FoldLeft(LAMBDA c, name : Adjusted(AddArgument(c, name), 1),
                         FunctionContext(cs, id), <<"_functionId">> \o f.params)
      counted == AddArgument(StartFunction(listed, id, f), "_argumentCount")
  IN  AddArgument(Adjusted(counted, 1), "_returnPointer")

(* A function that reaches its end returns 0.                              *)
ReturnZero(cs) == EmitReturn(Adjusted(EmitPushLiteralInt(cs, 0, FALSE), 1))

(* The jump around the function is the last instruction of jumped.         *)
LeaveFunction(cs, jumped) ==
  LET skip == Here(jumped) - 2
  IN  [PopContext([cs EXCEPT !.code[skip + 1].v = Here(cs) - skip - 2]) EXCEPT
         !.contexts = jumped.contexts]

CompileBody(jumped, id, f) ==
  LeaveFunction(ReturnZero(CompileStatement(EnterFunction(jumped, id, f), f.body)), jumped)

CompileFunctionDefinition(cs, f) ==
  Counted(cs, LAMBDA c :
    CompileBody(AddInstruction(EmitPushLiteralInt(CreateFunction(c, f), 0, FALSE),
                               "JUMP_RELATIVE", FALSE),
                Len(c.functions), f))

(* A function in an expression is compiled as it is parsed.                *)
ParseExpression(cs, node) ==
  IF node.k = "lambda" THEN CompileFunctionDefinition(cs, node.v) ELSE Succeed(cs)

OkUnlessError(cs) == [cs EXCEPT !.ok = ~cs.error]

CompileExpressionWithoutEmit(cs, node) ==
  Counted(cs, LAMBDA c : OkUnlessError(Counted(c, LAMBDA d : ParseExpression(d, node))))

CompileExpression(cs, node) ==
  Counted(cs, LAMBDA c :
    Then(CompileExpressionWithoutEmit(c, node),
      LAMBDA d : EmitExpression(d, IF node.k = "lambda"
                                   THEN [k |-> "function", v |-> Len(c.functions), c |-> <<>>]
                                   ELSE node)))

-----------------------------------------------------------------------------
(* Statements.                                                             *)

CompileStatements(cs, ss) ==
  FoldLeft(LAMBDA c, s : Then(c, LAMBDA d : CompileStatement(d, s)), Succeed(cs), ss)

CompileBlock(cs, ss, noBracesOrContext) ==
  Counted(cs, LAMBDA c : IF noBracesOrContext THEN CompileStatements(c, ss)
                         ELSE PopContext(CompileStatements(PushContext(c), ss)))

CompileVariableDeclaration(cs, s) ==
  Counted(cs, LAMBDA c :
    IF s.init = <<>> THEN AddVariable(Succeed(c), s.name, FALSE)
    ELSE Then(CompileExpression(c, s.init[1]), LAMBDA d : AddVariable(d, s.name, TRUE)))

CompileReturnStatement(cs, s) ==
  Counted(cs, LAMBDA c : Then(CompileExpression(c, s.value), EmitReturn))

CompileNested(cs, s) == PopContext(CompileStatement(PushContext(cs), s))

(* The jump at the state before is patched to go where the state after is. *)
Patched(cs, jump) == ModifyJump(cs, Here(jump), Here(cs))

CompileIfStatement(cs, s) ==
  Counted(cs, LAMBDA c :
    Then(CompileExpression(c, s.test), LAMBDA test :
      Then(CompileNested(EmitJumpIfZero(test, 0), s.body), LAMBDA yes :
        IF s.else = <<>> THEN Patched(yes, test)
        ELSE Then(CompileNested(Patched(EmitJump(yes, 0), test), s.else[1]),
               LAMBDA no : Patched(no, yes)))))

FixupBreakJumpForContext(cs) ==
  LET patched == FoldLeft(LAMBDA c, jump : ModifyJump(c, jump, Here(c)),
                          cs, Current(cs).loopContextFixups)
  IN  [patched EXCEPT !.contexts[Len(cs.contexts)].loopContextFixups = <<>>]

(* Out of the middle of a loop, both its contexts are popped.              *)
LeaveLoop(cs) ==
  IF cs.ok THEN PopContext(FixupBreakJumpForContext(PopContext(cs)))
  ELSE PopContextCount(cs, 2)

InLoop(cs, Compile(_)) == Counted(cs, LAMBDA c : LeaveLoop(Compile(PushLoopContext(c))))

CompileWhileStatement(cs, s) ==
  InLoop(cs, LAMBDA c :
    Then(CompileExpression(c, s.test), LAMBDA test :
      Then(CompileNested(EmitJumpIfZero(test, 0), s.body),
        LAMBDA d : Patched(EmitJump(d, Here(cs)), test))))

CompileDoWhileStatement(cs, s) ==
  InLoop(cs, LAMBDA c :
    Then(CompileNested(c, s.body), LAMBDA d :
      Then(CompileExpression(d, s.test), LAMBDA e :
        EmitJumpIfZero(AddInstruction(e, "NOT", TRUE), Here(cs)))))

CompileStep_Left(cs, s) == cs

CompileStep(cs, s) ==
  Then(EmitExpression(cs, s.step), LAMBDA c : AddInstruction(c, "POP", TRUE))

CompileForStatement(cs, s) ==
  InLoop(cs, LAMBDA c :
    Then(CompileStatement(c, s.init), LAMBDA start :
      Then(CompileExpression(start, s.test), LAMBDA test :
        Then(CompileExpressionWithoutEmit(EmitJumpIfZero(test, 0), s.step), LAMBDA d :
          Then(CompileNested(d, s.body), LAMBDA e :
            Then(CompileStep(e, s),
              LAMBDA f : Patched(EmitJump(f, Here(start)), test)))))))

CompileBreakStatement(cs) ==
  Counted(cs, LAMBDA c :
    LET loop   == SelectLastInSeq(c.contexts, LAMBDA context : context.isLoopContext)
        excess == Current(c).stackFrameOffset - c.contexts[loop].stackFrameOffset
        popped == AddInstruction(EmitPushLiteralInt(c, excess, FALSE), "POPN", FALSE)
    IN  IF loop = 0 THEN Fail(AddError(c))
        ELSE [EmitJump(popped, 0) EXCEPT
                !.contexts[loop].loopContextFixups = Append(@, Here(popped)),
                !.ok = TRUE])

CompileExpressionStatement(cs, s) ==
  Then(CompileExpression(cs, s.value), LAMBDA c : AddInstruction(c, "POP", TRUE))

CompileByKind(cs, s) ==
  CASE s.k = "var"      -> CompileVariableDeclaration(cs, s)
    [] s.k = "return"   -> CompileReturnStatement(cs, s)
    [] s.k = "block"    -> CompileBlock(cs, s.body, FALSE)
    [] s.k = "if"       -> CompileIfStatement(cs, s)
    [] s.k = "while"    -> CompileWhileStatement(cs, s)
    [] s.k = "do"       -> CompileDoWhileStatement(cs, s)
    [] s.k = "for"      -> CompileForStatement(cs, s)
    [] s.k = "break"    -> CompileBreakStatement(cs)
    [] s.k = "function" -> CompileFunctionDefinition(cs, s)
    [] s.k = "expr"     -> CompileExpressionStatement(cs, s)

(* Two cases return what they call returns, without popping the count, and *)
(* so does every case that fails.                                          *)
LeaveStatement(cs, s) ==
  IF s.k \in {"var", "return"} \/ ~cs.ok THEN cs ELSE PopRecursion(cs)

CompileStatement(cs, s) ==
  IF TooDeep(cs) THEN Fail(AddError(cs))
  ELSE LeaveStatement(CompileByKind(PushRecursion(cs), s), s)

CompileScript(cs, program) == Counted(cs, LAMBDA c : CompileBlock(c, program, TRUE))

GenerateGlobalVariables(cs) ==
  [cs EXCEPT !.globalVariables = Head(cs.contexts).variables]

(* Global variables are not popped: they are not on the stack.             *)
Finalize(cs) == AddInstruction(PopContext(GenerateGlobalVariables(cs)), "END", TRUE)

=============================================================================
