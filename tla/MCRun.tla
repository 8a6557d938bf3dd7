------------------------------- MODULE MCRun -------------------------------
(***************************************************************************)
(* Programs for NkRun.  A statement S of at most two levels is put where   *)
(* x and y are global variables, where they are variables of a block, and  *)
(* where x is the argument and y a variable of a function; f is a function *)
(* of one argument in each case.                                           *)
(***************************************************************************)
EXTENDS NkRun

CONSTANT Unusual  \* kinds of statements beyond the usual

Node(kind, value, children) == [k |-> kind, v |-> value, c |-> children]
Lit(n)       == Node("int", n, <<>>)
Name(n)      == Node("name", n, <<>>)
Plus(a, b)   == Node("plus", 0, <<a, b>>)
Set(n, e)    == Node("assign", 0, <<Name(n), e>>)
Argument(e)  == Node("argument", 0, <<e>>)
CallOf(f, e) == Node("call", 0, <<Name(f), Argument(e)>>)
New(f, e)    == Node("coroutine", 0, <<Node("argument", 0, <<Name(f), Argument(e)>>)>>)
Finished(e)  == Node("is_finished", 0, <<Argument(e)>>)

Do(e)        == [k |-> "expr", value |-> e]
Var(n, e)    == [k |-> "var", name |-> n, init |-> <<e>>]
Plain(n)     == [k |-> "var", name |-> n, init |-> <<>>]
Give(e)      == [k |-> "return", value |-> e]
Break        == [k |-> "break"]
Block(ss)    == [k |-> "block", body |-> ss]
If(e, s)     == [k |-> "if", test |-> e, body |-> s, else |-> <<>>]
IfElse(e, s, t) == [k |-> "if", test |-> e, body |-> s, else |-> <<t>>]
While(e, s)  == [k |-> "while", test |-> e, body |-> s]
DoWhile(s, e) == [k |-> "do", body |-> s, test |-> e]
For(i, e, d, s) == [k |-> "for", init |-> i, test |-> e, step |-> d, body |-> s]
Function(f, p, s) == [k |-> "function", name |-> f, params |-> <<p>>, body |-> s]

Next1(n) == Set(n, Plus(Name(n), Lit(1)))  \* n = n + 1

Lambda(p, s) == Node("lambda", [name |-> "", params |-> <<p>>, body |-> s], <<>>)

Simple == {Do(Next1("x")), Do(Set("x", Plus(Name("y"), CallOf("f", Name("x"))))),
           Var("z", Name("x")), Give(Name("x")), Break}

Around(s) == {If(Name("x"), s), While(Name("x"), s), DoWhile(s, Name("x")),
              For(Plain("w"), Plus(Name("w"), Name("x")), Next1("w"), s)}

(* Between other variables; as the body of a function of this block.       *)
Among(s) == {Block(<<Var("z", Name("y")), s, Do(Next1("z"))>>)}
Called(s) == {Block(<<Function("k", "y", Block(<<s>>)), Do(Set("x", CallOf("k", Name("x"))))>>),
              Block(<<Var("k", Lambda("y", Block(<<s>>))), Do(Set("x", CallOf("k", Name("x"))))>>)}

Level1 == UNION {Around(s) \cup Among(s) : s \in Simple}
            \cup {IfElse(Name("x"), s, t) : s, t \in Simple}

Level2 == UNION {Around(s) \cup Among(s) \cup Called(s) : s \in Level1}

(* Where is_finished is called, the count of values is one too many: of    *)
(* consequence where a variable of the function or a break follows.        *)
Checking == {Do(Finished(New("f", Name("x")))), Do(Set("x", Finished(New("f", Name("x"))))),
             While(Finished(New("f", Name("x"))), Do(Next1("x")))}
CheckingBreak == While(Finished(New("f", Name("x"))), Break)

Bare == {Block(<<Function("k", "y", s), Do(Set("x", CallOf("k", Name("x"))))>>)
           : s \in {Var("z", Name("y")), Give(Name("y")), Do(Next1("y"))}}

Header == Function("f", "x", Block(<<Var("y", Plus(Name("x"), Lit(1))),
                                     If(Name("x"), Give(Name("y"))), Give(Lit(2))>>))

Globally(n, s) == <<Header, Var("x", Lit(n)), Var("y", Lit(1)), s, Do(Set("x", CallOf("f", Name("x"))))>>
InBlock(n, s)  == <<Header, Plain("r"),
                    Block(<<Var("x", Lit(n)), Var("y", Lit(1)), s,
                            Do(Set("r", Plus(Name("x"), Name("y"))))>>)>>
InFunction(n, s) == <<Header, Function("m", "x", Block(<<Var("y", Lit(1)), s,
                                                        Give(Plus(Name("x"), Name("y")))>>)),
                      Var("r", CallOf("m", Lit(n)))>>

Statements == Simple \cup Level1 \cup Level2
                \cup (IF "is_finished" \in Unusual THEN Checking \cup {CheckingBreak} ELSE {})
                \cup (IF "bare body" \in Unusual THEN Bare ELSE {})

AllPrograms ==
  UNION {{Globally(n, s), InBlock(n, s), InFunction(n, s)} : n \in {0, 1}, s \in Statements}
    \cup {Globally(0, s) : s \in Checking}
=============================================================================
