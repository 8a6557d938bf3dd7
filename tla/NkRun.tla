------------------------------- MODULE NkRun -------------------------------
(***************************************************************************)
(* A program compiled by NkCompile and run by NkMachine:                   *)
(* nkiCompilerCompileScript and nkiCompilerFinalize, then nkxVmIterate.    *)
(* What it leaves behind is compared with what NkLanguage says the program *)
(* means, and the code with what NkTyping asks of it.                      *)
(***************************************************************************)
EXTENDS NkCompile, NkTyping, FiniteSetsExt
(* Operators with an underscore in their names are faulty variants: see    *)
(* NkTable.                                                                *)

CONSTANTS Programs, Fuel

ASSUME RunAssumption == Fuel \in Nat

VARIABLES
  program,   \* the syntax tree
  meaning    \* what it means, if it is well-formed

vars == <<program, meaning, machine>>

L == INSTANCE NkLanguage

Compiled(tree) == Finalize(CompileScript(NewCompiler, tree))

NoMeaning == [out |-> "none"]

Init ==
  /\ program \in Programs
  /\ meaning = IF L!WellFormed(program) THEN L!Meaning(program) ELSE NoMeaning
  /\ compiler = Compiled(program)
  /\ Starts

Next == Runs /\ UNCHANGED <<program, meaning>>

Spec == Init /\ [][Next]_vars

(* Once called, nkxVmIterate iterates as often as the host asked for.      *)
FairSpec == Spec /\ WF_vars(Next)

-----------------------------------------------------------------------------
(* A certificate for the code, found by following it from the start and    *)
(* from each call, with every integer a static address is given and every  *)
(* value a function returns taken for any integer.                         *)
Widened(kind) == IF IsInteger(kind) THEN Whole ELSE kind

Joined(one, other) ==
  Point(one.home,
        [i \in 1 .. Len(one.shape) |->
           IF one.shape[i] = other.shape[i] THEN one.shape[i] ELSE Widened(one.shape[i])],
        one.known \cap other.known)

With(f, x, value) == [y \in DOMAIN f \cup {x} |-> IF y = x THEN value ELSE f[y]]

Learned(image, c, a) ==
  LET s == c.points[a].shape
  IN  IF image.code[a + 1].op = "STATICPOKE" /\ Top(s) \notin DOMAIN c.global
      THEN [c EXCEPT !.global = With(@, Top(s), Widened(Off(s, 2)))] ELSE c

RECURSIVE Followed(_, _, _, _)
Followed(image, c, a, point) ==
  IF Meets(c, a, point) THEN c
  ELSE LET seen == IF a \in DOMAIN c.points THEN Joined(c.points[a], point) ELSE point
           d    == Learned(image, [c EXCEPT !.points = With(@, a, seen)], a)
       IN  IF ~Legal(image, d, a) THEN d
           ELSE FoldSet(LAMBDA next, e : Followed(image, e, next[1], next[2]),
                        d, Successors(image, d, a))

Certificate(image) ==
  Followed(image, [points |-> <<>>, global |-> <<>>,
                   result |-> [f \in 0 .. Len(image.functions) - 1 |-> Whole]],
           0, Entry)

-----------------------------------------------------------------------------
(* Properties.                                                             *)

(* The type of every variable.                                             *)
TypeOK ==
  /\ compiler.staticVariableCount \in Nat /\ compiler.ok \in BOOLEAN
  /\ ip \in 0 .. Len(compiler.code)
  /\ \A i \in DOMAIN stack : stack[i].t \in {"int", "function", "object", "stale"}
  /\ \A i \in DOMAIN statics : statics[i].t \in {"int", "function", "object", "stale"}
  /\ status \in {"rejected", "running", "failed", "ended"}

(* The compiler adds an error to exactly the programs that are not         *)
(* well-formed: those that use a name out of its scope or declare it       *)
(* twice in one, that break outside of a loop or return outside of a       *)
(* function.                                                               *)
RejectsIllFormed ==
  status = "rejected" <=> meaning = NoMeaning

(* The compiler's one number is right: whatever way control gets to an     *)
(* instruction, the function has as many values on the stack as were       *)
(* counted when it was written, of the kinds it wants.  NkMachineProofs    *)
(* has what follows for any code of which this is true.                    *)
CompilesToCertified ==
  status = "running" /\ ip = 0 /\ stack = <<>> => Certifies(Certificate(compiler), compiler)

(* When a program ends, every global variable has the value that the       *)
(* meaning of the program gives it, however its blocks, loops, breaks,     *)
(* calls and returns were nested: each access of a local variable, which   *)
(* is an offset into the stack, was to that variable.                      *)
Same(value, meant) == value.t = meant.t /\ (value.t = "int" => value.v = meant.v)

KeepsMeaning ==
  status = "ended" =>
    LET globals == compiler.globalVariables
    IN  meaning.out = "next" =>
          \A i \in DOMAIN globals :
            Same(statics[globals[i].position + 1], Head(meaning.scopes)[globals[i].name])

(* A program whose meaning is to end does end: no loop of the code goes on *)
(* where the loop of the program does not.                                 *)
EndsWhenMeant == meaning.out = "next" ~> status = "ended"

(* "Recursion counter to prevent the stack from getting too big"           *)
(* (nkcompil.h:235): after a script, no C function of the compiler is      *)
(* active and the count is what it was.                                    *)
RecursionBalanced == compiler.recursionCount = 0

=============================================================================
