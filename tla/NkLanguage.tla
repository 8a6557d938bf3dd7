----------------------------- MODULE NkLanguage -----------------------------
(***************************************************************************)
(* What a program means, by its structure alone: which programs are        *)
(* well-formed, and what evaluating one does to its global variables.      *)
(* There is no code, no stack and no position of a variable in here: the   *)
(* reference that NkRun compares the compiled program with.                *)
(*                                                                         *)
(* Blocks are scopes.  A function sees its own variables and the global    *)
(* ones, not those around it.                                              *)
(***************************************************************************)
EXTENDS Integers, Sequences, SequencesExt

CONSTANTS
  IntValues,  \* how many integers there are: 2^32 in the code
  Fuel        \* bound: loop iterations and calls of a program

Number(n)   == [t |-> "int", v |-> n % IntValues]
Fn(v)    == [t |-> "function", v |-> v]
Coroutine == [t |-> "object", v |-> 0]

-----------------------------------------------------------------------------
(* Scoping: scopes go from the global one inwards, each the set of names   *)
(* it declares so far.                                                     *)

RECURSIVE NamesOf(_)
NamesOf(e) ==
  (IF e.k = "name" THEN {e.v} ELSE {})
    \cup (IF e.k = "lambda" THEN {} ELSE UNION {NamesOf(e.c[i]) : i \in DOMAIN e.c})

IllFormed == <<>>  \* not a list of scopes

Declare(scopes, name) ==
  IF scopes = IllFormed \/ name \in Last(scopes) THEN IllFormed
  ELSE [scopes EXCEPT ![Len(scopes)] = @ \cup {name}]

RECURSIVE Scoped(_, _, _, _)

ScopedBody(f, scopes) ==
  /\ \A i, j \in DOMAIN f.params : f.params[i] = f.params[j] => i = j
  /\ Scoped(f.body, <<Head(scopes), Range(f.params)>>, FALSE, TRUE) # IllFormed

ScopedExpr(e, scopes) ==
  /\ NamesOf(e) \subseteq UNION Range(scopes)
  /\ e.k = "lambda" => ScopedBody(e.v, scopes)

(* Is s well-formed as a statement of its own, in a new scope?             *)
Inside(s, scopes, inLoop, inFunction) ==
  Scoped(s, Append(scopes, {}), inLoop, inFunction) # IllFormed

(* The scopes after the statement.                                         *)
Scoped(s, scopes, inLoop, inFunction) ==
  LET When(test) == IF test THEN scopes ELSE IllFormed
  IN CASE s.k = "expr"     -> When(ScopedExpr(s.value, scopes))
       [] s.k = "var"      -> IF s.init # <<>> /\ ~ScopedExpr(s.init[1], scopes) THEN IllFormed
                              ELSE Declare(scopes, s.name)
       [] s.k = "return"   -> When(inFunction /\ ScopedExpr(s.value, scopes))
       [] s.k = "break"    -> When(inLoop)
       [] s.k = "block"    -> When(FoldLeft(LAMBDA sc, b : IF sc = IllFormed THEN sc
                                              ELSE Scoped(b, sc, inLoop, inFunction),
                                            Append(scopes, {}), s.body) # IllFormed)
       [] s.k = "if"       -> When(/\ ScopedExpr(s.test, scopes)
                                   /\ Inside(s.body, scopes, inLoop, inFunction)
                                   /\ s.else = <<>> \/ Inside(s.else[1], scopes, inLoop, inFunction))
       [] s.k \in {"while", "do"} ->
            When(ScopedExpr(s.test, scopes) /\ Inside(s.body, scopes, TRUE, inFunction))
       [] s.k = "for"      ->
            LET inner == Scoped(s.init, Append(scopes, {}), TRUE, inFunction)
            IN  When(/\ inner # IllFormed
                     /\ ScopedExpr(s.test, inner) /\ ScopedExpr(s.step, inner)
                     /\ Inside(s.body, inner, TRUE, inFunction))
       [] s.k = "function" -> LET named == Declare(scopes, s.name)
                              IN  IF named # IllFormed /\ ScopedBody(s, named)
                                  THEN named ELSE IllFormed

WellFormed(program) ==
  FoldLeft(LAMBDA sc, s : IF sc = IllFormed THEN sc ELSE Scoped(s, sc, FALSE, FALSE),
           <<{}>>, program) # IllFormed

-----------------------------------------------------------------------------
(* Evaluation.  The state has the scopes, each a function from the names   *)
(* it declares to values, what is left of the fuel, how the last statement *)
(* ended (out) and the last value.                                         *)

Empty == [name \in {} |-> Number(0)]

Bind(scope, name, value) ==
  [n \in DOMAIN scope \cup {name} |-> IF n = name THEN value ELSE scope[n]]

Owner(st, name) == SelectLastInSeq(st.scopes, LAMBDA scope : name \in DOMAIN scope)
Fetch(st, name) == st.scopes[Owner(st, name)][name]
Assign(st, name) == [st EXCEPT !.scopes[Owner(st, name)] = Bind(@, name, st.value)]

Valued(st, value) == [st EXCEPT !.value = value]
Enter(st) == [st EXCEPT !.scopes = Append(@, Empty)]
Leave(st) == [st EXCEPT !.scopes = Front(@)]
Burn(st)  == IF st.fuel = 0 THEN [st EXCEPT !.out = "stuck"] ELSE [st EXCEPT !.fuel = @ - 1]

RECURSIVE Eval(_, _), Exec(_, _), Loop(_, _, _, _, _)

(* The arguments of a call, from left to right, bound to the parameters.   *)
RECURSIVE Args(_, _)
Args(st, nodes) ==
  IF nodes = <<>> THEN <<st, <<>> >>
  ELSE LET first == Eval(st, nodes[1].c[1])
           rest  == Args(first, Tail(nodes[1].c))
       IN  <<rest[1], <<first.value>> \o rest[2]>>

Apply(st, f, values) ==
  LET bound == [n \in Range(f.params) |-> values[SelectInSeq(f.params, LAMBDA p : p = n)]]
      done  == Exec([Burn(st) EXCEPT !.scopes = <<Head(@), bound>>], f.body)
  IN  [done EXCEPT !.scopes = <<Head(@)>> \o Tail(st.scopes),
                   !.out    = IF @ = "stuck" THEN @ ELSE "next",
                   !.value  = IF done.out = "return" THEN @ ELSE Number(0)]

Eval(st, e) ==
  CASE st.out = "stuck"    -> st
    [] st.out # "stuck" /\ e.k = "int"    -> Valued(st, Number(e.v))
    [] st.out # "stuck" /\ e.k = "lambda" -> Valued(st, Fn(e.v))
    [] st.out # "stuck" /\ e.k = "name"   -> Valued(st, Fetch(st, e.v))
    [] st.out # "stuck" /\ e.k = "plus"   ->
         LET left == Eval(st, e.c[1])  right == Eval(left, e.c[2])
         IN  IF right.out = "stuck" THEN right
             ELSE Valued(right, Number(left.value.v + right.value.v))
    [] st.out # "stuck" /\ e.k = "assign" ->
         LET right == Eval(st, e.c[2])
         IN  IF right.out = "stuck" THEN right ELSE Assign(right, e.c[1].v)
    [] st.out # "stuck" /\ e.k = "call"   ->
         LET f == Eval(st, e.c[1])  args == Args(f, Tail(e.c))
         IN  IF args[1].out = "stuck" THEN args[1] ELSE Apply(args[1], f.value.v, args[2])
    [] st.out # "stuck" /\ e.k = "coroutine"   -> Valued(Args(st, e.c)[1], Coroutine)
    [] st.out # "stuck" /\ e.k = "is_finished" -> Valued(Args(st, e.c)[1], Number(0))

IsZero(st) == st.value.v = 0

(* One scope around a loop's variables, a new one for every iteration.     *)
Loop(st, test, step, body, testFirst) ==
  LET tested == IF testFirst THEN Eval(st, test) ELSE st
      done   == Leave(Exec(Enter(Burn(tested)), body))
      stepped == FoldLeft(Eval, done, step)
      again  == IF testFirst THEN stepped ELSE Eval(stepped, test)
  IN  CASE tested.out = "stuck"            -> tested
        [] tested.out # "stuck" /\ testFirst /\ IsZero(tested) -> tested
        [] OTHER ->
             CASE done.out = "break"       -> [done EXCEPT !.out = "next"]
               [] done.out \in {"return", "stuck"} -> done
               [] done.out = "next" ->
                    IF again.out = "stuck" \/ (~testFirst /\ IsZero(again)) THEN again
                    ELSE Loop(again, test, step, body, testFirst)

ExecAll(st, ss) == FoldLeft(LAMBDA d, s : IF d.out = "next" THEN Exec(d, s) ELSE d, st, ss)

DeclareVar(st, name) ==
  [st EXCEPT !.scopes[Len(st.scopes)] = Bind(@, name, st.value)]

Unless(st, Go(_)) == IF st.out = "stuck" THEN st ELSE Go(st)

Exec(st, s) ==
  CASE st.out = "stuck"   -> st
    [] st.out # "stuck" /\ s.k = "expr"   -> Eval(st, s.value)
    [] st.out # "stuck" /\ s.k = "var"    ->
         Unless(FoldLeft(Eval, Valued(st, Number(0)), s.init), LAMBDA d : DeclareVar(d, s.name))
    [] st.out # "stuck" /\ s.k = "return" ->
         Unless(Eval(st, s.value), LAMBDA d : [d EXCEPT !.out = "return"])
    [] st.out # "stuck" /\ s.k = "break"  -> [st EXCEPT !.out = "break"]
    [] st.out # "stuck" /\ s.k = "block"  -> Leave(ExecAll(Enter(st), s.body))
    [] st.out # "stuck" /\ s.k = "if"     ->
         Unless(Eval(st, s.test), LAMBDA d :
           IF ~IsZero(d) THEN Leave(Exec(Enter(d), s.body))
           ELSE IF s.else = <<>> THEN d ELSE Leave(Exec(Enter(d), s.else[1])))
    [] st.out # "stuck" /\ s.k = "while"  -> Loop(st, s.test, <<>>, s.body, TRUE)
    [] st.out # "stuck" /\ s.k = "do"     -> Loop(st, s.test, <<>>, s.body, FALSE)
    [] st.out # "stuck" /\ s.k = "for"    ->
         Leave(Unless(Exec(Enter(st), s.init), LAMBDA d :
                 Loop(d, s.test, <<s.step>>, s.body, TRUE)))
    [] st.out # "stuck" /\ s.k = "function" ->
         DeclareVar(Valued(st, Fn([params |-> s.params, body |-> s.body])), s.name)

(* What running the program comes to.  Its out is "stuck" when it does not *)
(* end within the fuel.                                                    *)
Meaning(program) ==
  ExecAll([scopes |-> <<Empty>>, fuel |-> Fuel, out |-> "next", value |-> Number(0)], program)

=============================================================================
