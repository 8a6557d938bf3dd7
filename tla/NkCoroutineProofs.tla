-------------------------- MODULE NkCoroutineProofs --------------------------
(***************************************************************************)
(* Proofs about NkCoroutine.                                               *)
(*                                                                         *)
(* First what every action does to the stack of a context and to the list  *)
(* of native calls (the lemmas ...Does); then the chain of the contexts    *)
(* that wait (IsChain), from which the types and OneChain follow in every  *)
(* program; then the inductive invariant IInv of the usual program, with   *)
(* one lemma for each action (...Inv); last what follows from it, the      *)
(* coroutines of NkCoroutineSpec among it (...Maps).                       *)
(***************************************************************************)
EXTENDS NkCoroutine, SequenceTheorems, FiniteSetTheorems, NaturalsInduction, WellFoundedInduction, TLAPS

(* What a native call in progress is, and what a stack is.                 *)
Calls  == [kind : {"host", "call", "create"}, loop : BOOLEAN, old : Address,
           home : Context, height : Nat \ {0}]
Stacks == {s \in Seq(Frame) : s # <<>>}

LEMMA Ranges ==
  /\ Point \subseteq Address /\ Invalid \in Address /\ NativeReturn \in Address
  /\ Start \in Point /\ FunctionStart \in Point
  /\ Root \in Context /\ Co \subseteq Context /\ Root \notin Co /\ None \notin Context
  /\ DepthBound \in Nat \ {0} /\ FrameBound \in Nat \ {0} /\ NativeBound \in Nat
<1>1. /\ Root \notin Co /\ None \notin Context
      /\ DepthBound \in Nat \ {0} /\ FrameBound \in Nat \ {0} /\ NativeBound \in Nat
  BY ContextAssumption
<1>2. Start \in Point /\ FunctionStart \in Point
  BY <1>1 DEF Point, Start, FunctionStart
<1> QED BY <1>1, <1>2 DEF Address, Context

LEMMA PointIs ==
  ASSUME NEW a \in Point, NEW d \in 0 .. DepthBound
  PROVE  LET b == [a EXCEPT !.depth = d] IN b \in Point /\ b.code = a.code /\ b.depth = d
BY DEF Point

LEMMA PointHas ==
  ASSUME NEW a \in Point
  PROVE  /\ a.depth \in Nat /\ a.code \in {"main", "function"} /\ a # Invalid /\ a # NativeReturn
         /\ a.depth <= DepthBound
<1>1. a # Invalid /\ a # NativeReturn
  BY ContextAssumption
<1> QED BY <1>1, Ranges DEF Point

LEMMA IncrementedIs ==
  /\ \A a \in Point : Incremented(a) = a
  /\ Incremented(Invalid) = Start /\ Incremented(NativeReturn) = Invalid
  /\ \A a \in Address : Incremented(a) \in Address
BY Ranges, ContextAssumption DEF Incremented, Address

(* Sequences that grow and shrink at their end.                            *)
LEMMA AppendHas ==
  ASSUME NEW S, NEW s \in Seq(S), NEW e \in S
  PROVE  LET t == Append(s, e) IN
         /\ t \in Seq(S) /\ Len(t) = Len(s) + 1 /\ t # <<>>
         /\ \A i \in 1 .. Len(s) : t[i] = s[i]
         /\ t[Len(s) + 1] = e /\ Top(t) = e
BY DEF Top

LEMMA RestHas ==
  ASSUME NEW S, NEW s \in Seq(S), s # <<>>
  PROVE  LET t == Rest(s) IN
         /\ t \in Seq(S) /\ Len(t) = Len(s) - 1
         /\ \A i \in 1 .. Len(s) - 1 : t[i] = s[i]
         /\ t = <<>> <=> Len(s) = 1
         /\ Len(s) > 1 => Top(t) = s[Len(s) - 1]
<1>1. /\ Len(s) \in Nat \ {0} /\ Len(s) - 1 \in Int /\ 1 \in Int
      /\ \A i \in 1 .. Len(s) - 1 : s[i] \in S
  OBVIOUS
<1>2. Len(Rest(s)) = Len(s) - 1 /\ Rest(s) \in Seq(S) /\ \A i \in 1 .. Len(s) - 1 : Rest(s)[i] = s[i]
  <2> DEFINE n == Len(s) - 1
  <2>1. /\ SubSeq(s, 1, n) \in Seq(S)
        /\ Len(SubSeq(s, 1, n)) = IF 1 <= n THEN n - 1 + 1 ELSE 0
        /\ \A i \in 1 .. n - 1 + 1 : SubSeq(s, 1, n)[i] = s[1 + i - 1]
    <3> HIDE DEF n
    <3>1. n \in Int /\ 1 \in Int /\ \A i \in 1 .. n : s[i] \in S
      BY <1>1 DEF n
    <3> QED BY <3>1, SubSeqProperties
  <2>2. n \in Nat /\ n - 1 + 1 = n /\ (IF 1 <= n THEN n - 1 + 1 ELSE 0) = n
    <3>1. \A m \in Nat : m - 1 + 1 = m /\ (IF 1 <= m THEN m - 1 + 1 ELSE 0) = m
      OBVIOUS
    <3>2. n \in Nat
      BY <1>1
    <3> HIDE DEF n
    <3> QED BY <3>1, <3>2
  <2> HIDE DEF n
  <2>3. \A i \in 1 .. n : 1 + i - 1 = i /\ i \in 1 .. n - 1 + 1
    BY <2>2
  <2>4. \A i \in 1 .. n : SubSeq(s, 1, n)[i] = s[i]
    BY <2>1, <2>3
  <2>5. Len(SubSeq(s, 1, n)) = n
    BY <2>1, <2>2
  <2> QED BY <2>1, <2>4, <2>5 DEF Rest, n
<1> HIDE DEF Rest
<1>3. Rest(s) = <<>> <=> Len(s) = 1
  BY <1>1, <1>2
<1> QED BY <1>1, <1>2, <1>3 DEF Top

LEMMA TopHas ==
  ASSUME NEW S, NEW s \in Seq(S), s # <<>>
  PROVE  Top(s) = s[Len(s)] /\ Len(s) \in 1 .. Len(s) /\ Len(s) \in Nat \ {0} /\ Top(s) \in S
BY DEF Top

LEMMA StackHas ==
  ASSUME NEW s \in Stacks
  PROVE  /\ Len(s) \in Nat \ {0}
         /\ \A i \in 1 .. Len(s) : s[i] \in Frame /\ s[i].ret \in Address /\ s[i].depth \in Nat
         /\ Top(s) = s[Len(s)] /\ Top(s) \in Frame /\ Top(s).depth \in Nat /\ Top(s).ret \in Address
<1>1. Len(s) \in Nat \ {0} /\ \A i \in 1 .. Len(s) : s[i] \in Frame
  BY DEF Stacks
<1>2. \A f \in Frame : f.ret \in Address /\ f.depth \in Nat
  BY DEF Frame
<1> QED BY <1>1, <1>2 DEF Top

LEMMA EmptyIs ==
  Empty \in Stacks /\ Len(Empty) = 1 /\ Empty[1].ret = Invalid /\ Empty[1].depth = 0 /\ Top(Empty) = Empty[1]
BY Ranges DEF Empty, Stacks, Frame, Top

LEMMA GrownIs ==
  ASSUME NEW s \in Stacks, NEW n \in Int, Top(s).depth + n >= 0
  PROVE  LET t == Grown(s, n) IN
         /\ t \in Stacks /\ Len(t) = Len(s)
         /\ \A i \in 1 .. Len(s) : t[i].ret = s[i].ret
         /\ \A i \in 1 .. Len(s) - 1 : t[i] = s[i]
         /\ t[Len(s)].depth = s[Len(s)].depth + n
         /\ Top(t) = t[Len(s)]
<1> DEFINE f == s[Len(s)]  g == [f EXCEPT !.depth = @ + n]
<1>1. f \in Frame /\ f.depth + n \in Nat /\ Len(s) \in 1 .. Len(s) /\ s \in Seq(Frame)
  BY StackHas DEF Stacks
<1>2. g \in Frame /\ g.ret = f.ret /\ g.depth = f.depth + n
  BY <1>1 DEF Frame
<1>3. Grown(s, n) = [s EXCEPT ![Len(s)] = g]
  BY DEF Grown
<1> HIDE DEF f, g
<1>4. \A i \in 1 .. Len(s) : Grown(s, n)[i] = IF i = Len(s) THEN g ELSE s[i]
  BY <1>1, <1>3
<1>5. Grown(s, n) \in Seq(Frame) /\ Len(Grown(s, n)) = Len(s)
  BY <1>1, <1>2, <1>3
<1>6. Grown(s, n) # <<>>
  BY <1>1, <1>5
<1> QED BY <1>1, <1>2, <1>4, <1>5, <1>6 DEF Stacks, Top, f

LEMMA CalledIs ==
  ASSUME NEW s \in Stacks, NEW a \in Address
  PROVE  LET t == Called(s, a) IN
         /\ t \in Stacks /\ Len(t) = Len(s) + 1
         /\ \A i \in 1 .. Len(s) : t[i] = s[i]
         /\ t[Len(s) + 1] = [ret |-> a, depth |-> 0]
         /\ Top(t).depth = 0 /\ Top(t).ret = a
<1>1. [ret |-> a, depth |-> 0] \in Frame /\ s \in Seq(Frame)
  BY DEF Frame, Stacks
<1> QED BY <1>1 DEF Called, Stacks, Top

LEMMA RestIs ==
  ASSUME NEW s \in Stacks, Len(s) > 1
  PROVE  LET t == Rest(s) IN
         /\ t \in Stacks /\ Len(t) = Len(s) - 1
         /\ \A i \in 1 .. Len(s) - 1 : t[i] = s[i]
         /\ Top(t) = s[Len(s) - 1]
<1>1. s \in Seq(Frame) /\ s # <<>> /\ Len(s) \in Nat
  BY DEF Stacks
<1>2. Rest(s) \in Seq(Frame) /\ Len(Rest(s)) = Len(s) - 1 /\ Rest(s) # <<>>
  BY <1>1, RestHas
<1> QED BY <1>1, <1>2, RestHas DEF Stacks, Top

LEMMA ReturnedIs ==
  ASSUME NEW s \in Stacks, Len(s) > 1
  PROVE  LET t == Returned(s) IN
         /\ t \in Stacks /\ Len(t) = Len(s) - 1
         /\ \A i \in 1 .. Len(s) - 1 : t[i].ret = s[i].ret
         /\ \A i \in 1 .. Len(s) - 2 : t[i] = s[i]
         /\ t[Len(s) - 1].depth = s[Len(s) - 1].depth + 1
         /\ Top(t) = t[Len(s) - 1]
<1>1. s[Len(s) - 1].depth \in Nat /\ Len(s) \in Nat
  BY StackHas
<1>2. Rest(s) \in Stacks /\ Top(Rest(s)).depth + 1 >= 0
  BY <1>1, RestIs
<1>3. Len(Rest(s)) = Len(s) - 1 /\ \A i \in 1 .. Len(s) - 1 : Rest(s)[i] = s[i]
  BY RestIs
<1>4. Len(s) - 1 - 1 = Len(s) - 2 /\ Len(s) - 1 \in 1 .. Len(s) - 1 /\ 1 \in Int
  BY <1>1
<1> DEFINE r == Rest(s)
           t == Grown(r, 1)
<1>5. /\ t \in Stacks /\ Len(t) = Len(r)
      /\ \A i \in 1 .. Len(r) : t[i].ret = r[i].ret
      /\ \A i \in 1 .. Len(r) - 1 : t[i] = r[i]
      /\ t[Len(r)].depth = r[Len(r)].depth + 1
      /\ Top(t) = t[Len(r)]
  <2> HIDE DEF r
  <2>1. r \in Stacks /\ 1 \in Int /\ Top(r).depth + 1 >= 0
    BY <1>2 DEF r
  <2> QED BY <2>1, GrownIs
<1>6. Returned(s) = t
  BY DEF Returned
<1>7. Len(r) = Len(s) - 1 /\ Len(r) - 1 = Len(s) - 2
  BY <1>1, <1>3
<1>8. \A i \in 1 .. Len(s) - 1 : r[i] = s[i]
  BY <1>3
<1>9. \A i \in 1 .. Len(s) - 2 : i \in 1 .. Len(s) - 1
  BY <1>1
<1> HIDE DEF r, t
<1>10. /\ t \in Stacks /\ Len(t) = Len(s) - 1
       /\ \A i \in 1 .. Len(s) - 1 : t[i].ret = s[i].ret
  BY <1>5, <1>7, <1>8
<1>11. \A i \in 1 .. Len(s) - 2 : t[i] = s[i]
  BY <1>5, <1>7, <1>8, <1>9
<1>12. t[Len(s) - 1].depth = s[Len(s) - 1].depth + 1 /\ Top(t) = t[Len(s) - 1]
  BY <1>4, <1>5, <1>7, <1>8
<1> QED BY <1>6, <1>10, <1>11, <1>12

LEMMA PoppedIs ==
  ASSUME NEW s \in Stacks
  PROVE  LET t == Popped(s) IN
         /\ t \in Stacks /\ Len(t) = Len(s)
         /\ \A i \in 1 .. Len(s) : t[i].ret = s[i].ret
         /\ \A i \in 1 .. Len(s) - 1 : t[i] = s[i]
         /\ s[Len(s)].depth > 0 => t[Len(s)].depth = s[Len(s)].depth - 1
         /\ Top(t) = t[Len(s)]
<1>1. CASE Top(s).depth = 0
  BY <1>1, StackHas DEF Popped
<1>2. CASE Top(s).depth # 0
  <2>1. Top(s).depth + (-1) >= 0 /\ Top(s) = s[Len(s)] /\ Top(s).depth \in Nat
    BY <1>2, StackHas
  <2>2. Popped(s) = Grown(s, -1)
    BY <1>2 DEF Popped
  <2> HIDE DEF Popped
  <2>3. s[Len(s)].depth + (-1) = s[Len(s)].depth - 1
    BY <2>1
  <2> QED BY <2>1, <2>2, <2>3, GrownIs
<1> QED BY <1>1, <1>2


States == {"none", "created", "running", "finished", "invalid"}

Typed ==
  /\ frames \in [Context -> Stacks] /\ ip \in [Context -> Address]
  /\ parent \in [Context -> Context \cup {None}] /\ state \in [Context -> States]
  /\ current \in Context /\ native \in Seq(Calls)
  /\ failed \in BOOLEAN /\ struck \in SUBSET Co

LEMMA TypedIs == TypeOK <=> Typed
<1>1. frames \in [Context -> Stacks] <=>
        frames \in [Context -> Seq(Frame)] /\ \A c \in Context : frames[c] # <<>>
  <2>1. ASSUME frames \in [Context -> Seq(Frame)], \A c \in Context : frames[c] # <<>>
        PROVE  frames \in [Context -> Stacks]
    BY <2>1 DEF Stacks
  <2>2. ASSUME frames \in [Context -> Stacks]
        PROVE  frames \in [Context -> Seq(Frame)] /\ \A c \in Context : frames[c] # <<>>
    BY <2>2 DEF Stacks
  <2> QED BY <2>1, <2>2
<1> QED BY <1>1 DEF TypeOK, Typed, Calls, States

LEMMA TypedStep ==
  ASSUME frames' \in [Context -> Stacks], ip' \in [Context -> Address],
         parent' \in [Context -> Context \cup {None}], state' \in [Context -> States],
         current' \in Context, native' \in Seq(Calls), failed' \in BOOLEAN, struck' \in SUBSET Co
  PROVE  TypeOK'
<1>1. Typed'
  BY DEF Typed
<1>2. TypeOK' <=> Typed'
  BY TypedIs, PTL
<1> QED BY <1>1, <1>2

(* How an action leaves a stack.                                           *)
IsGrown(s, t, n) ==
  /\ Len(t) = Len(s)
  /\ \A i \in 1 .. Len(s) : t[i].ret = s[i].ret
  /\ \A i \in 1 .. Len(s) - 1 : t[i] = s[i]
  /\ Top(t) = t[Len(s)] /\ Top(t).depth = Top(s).depth + n

IsCalled(s, t, a) ==
  /\ Len(t) = Len(s) + 1
  /\ \A i \in 1 .. Len(s) : t[i] = s[i]
  /\ t[Len(s) + 1] = [ret |-> a, depth |-> 0] /\ Top(t).depth = 0 /\ Top(t).ret = a

IsReturned(s, t) ==
  /\ Len(t) = Len(s) - 1
  /\ \A i \in 1 .. Len(s) - 1 : t[i].ret = s[i].ret
  /\ \A i \in 1 .. Len(s) - 2 : t[i] = s[i]
  /\ Top(t) = t[Len(s) - 1] /\ Top(t).depth = s[Len(s) - 1].depth + 1

(* What most actions leave alone.                                          *)
OthersKept(C) == \A c \in Context \ C : frames'[c] = frames[c] /\ ip'[c] = ip[c]

LEMMA Unpacked ==
  ASSUME TypeOK
  PROVE  /\ Typed
         /\ frames[current] \in Stacks /\ ip[current] \in Address
         /\ Top(frames[current]).depth \in Nat /\ Top(frames[current]).ret \in Address
         /\ Len(frames[current]) \in Nat \ {0}
         /\ Top(frames[current]) = frames[current][Len(frames[current])]
BY TypedIs, StackHas DEF Typed

(* The instruction at which a script goes on after n values more.          *)
LEMMA AfterIs ==
  ASSUME TypeOK, Running, Room
  PROVE  /\ After(1) \in Point /\ After(1).code = At.code /\ After(1).depth = At.depth + 1
         /\ At \in Point /\ At = ip[current]
<1>1. At \in Point /\ At.depth + 1 \in 0 .. DepthBound
  BY PointHas, Ranges DEF Running, Room, At
<1> QED BY <1>1, PointIs DEF After, At

LEMMA ComputeDoes ==
  ASSUME TypeOK, NEW d \in 0 .. DepthBound, Compute(d)
  PROVE  /\ TypeOK' /\ OthersKept({current})
         /\ IsGrown(frames[current], frames'[current], d - At.depth)
         /\ ip'[current] \in Point /\ ip'[current].depth = d /\ ip'[current].code = At.code
<1>1. At \in Point /\ At.depth \in Nat /\ d \in Nat /\ At = ip[current] /\ Typed
  BY Unpacked, PointHas, Ranges DEF Compute, Running, At
<1>2. Top(frames[current]).depth + (d - At.depth) >= 0 /\ d - At.depth \in Int
  BY <1>1, Unpacked DEF Compute
<1>3. Grown(frames[current], d - At.depth) \in Stacks /\ IsGrown(frames[current], Grown(frames[current], d - At.depth), d - At.depth)
  BY <1>2, Unpacked, GrownIs DEF IsGrown
<1>4. LET b == [At EXCEPT !.depth = d] IN b \in Point /\ b.code = At.code /\ b.depth = d
  BY <1>1, PointIs
<1>5. /\ ip' = [ip EXCEPT ![current] = [At EXCEPT !.depth = d]]
      /\ frames' = [frames EXCEPT ![current] = Grown(@, d - At.depth)]
  BY <1>1 DEF Compute
<1>6. /\ ip' \in [Context -> Address] /\ ip'[current] = [At EXCEPT !.depth = d]
      /\ frames' \in [Context -> Stacks] /\ frames'[current] = Grown(frames[current], d - At.depth)
  BY <1>1, <1>3, <1>4, <1>5, Ranges DEF Typed
<1>7. TypeOK'
  BY <1>1, <1>6, TypedStep DEF Compute, Typed, errorVars
<1> QED BY <1>1, <1>3, <1>4, <1>5, <1>6, <1>7 DEF OthersKept, Typed

LEMMA CallFunctionDoes ==
  ASSUME TypeOK, CallFunction
  PROVE  /\ TypeOK' /\ OthersKept({current})
         /\ IsCalled(frames[current], frames'[current], After(1))
         /\ ip'[current] = FunctionStart
<1>1. After(1) \in Address /\ FunctionStart \in Address /\ Typed
  BY AfterIs, Unpacked, Ranges DEF CallFunction
<1>2. /\ Called(frames[current], After(1)) \in Stacks
      /\ IsCalled(frames[current], Called(frames[current], After(1)), After(1))
  BY <1>1, Unpacked, CalledIs DEF IsCalled
<1>3. /\ ip' \in [Context -> Address] /\ ip'[current] = FunctionStart
      /\ frames' \in [Context -> Stacks] /\ frames'[current] = Called(frames[current], After(1))
  BY <1>1, <1>2 DEF Typed, CallFunction
<1>4. TypeOK'
  BY <1>1, <1>3, TypedStep DEF CallFunction, Typed, errorVars
<1> QED BY <1>1, <1>2, <1>3, <1>4 DEF OthersKept, Typed, CallFunction

LEMMA GrownByOne ==
  ASSUME NEW s \in Stacks
  PROVE  Grown(s, 1) \in Stacks /\ IsGrown(s, Grown(s, 1), 1)
<1>1. Top(s).depth + 1 >= 0 /\ 1 \in Int /\ Top(s) = s[Len(s)]
  BY StackHas
<1> QED BY <1>1, GrownIs DEF IsGrown

LEMMA ReturnDoes ==
  ASSUME TypeOK, Return
  PROVE  /\ TypeOK' /\ OthersKept({current})
         /\ IsReturned(frames[current], frames'[current])
         /\ ip'[current] = Incremented(Top(frames[current]).ret)
<1>1. /\ frames[current] \in Stacks /\ Len(frames[current]) > 1 /\ Typed
      /\ Incremented(Top(frames[current]).ret) \in Address
  BY Unpacked, IncrementedIs DEF Return
<1>2. /\ Returned(frames[current]) \in Stacks
      /\ IsReturned(frames[current], Returned(frames[current]))
  BY <1>1, ReturnedIs DEF IsReturned
<1>3. /\ ip' \in [Context -> Address] /\ ip'[current] = Incremented(Top(frames[current]).ret)
      /\ frames' \in [Context -> Stacks] /\ frames'[current] = Returned(frames[current])
  BY <1>1, <1>2 DEF Typed, Return
<1>4. TypeOK'
  BY <1>1, <1>3, TypedStep DEF Return, Typed, errorVars
<1> QED BY <1>1, <1>2, <1>3, <1>4 DEF OthersKept, Typed, Return

(* The context gives way to the one that resumed it.                       *)
Gives(p) ==
  /\ parent' = [parent EXCEPT ![current] = None]
  /\ current' = p /\ OthersKept({current, p})
  /\ IsGrown(frames[p], frames'[p], 1) /\ ip'[p] = Incremented(ip[p])

LEMMA SwitchDoes ==
  ASSUME TypeOK, NEW stacks \in [Context -> Stacks], NEW pointers \in [Context -> Address],
         SwitchToParent(stacks, pointers), parent[current] # current,
         \A c \in Context \ {current} : stacks[c] = frames[c] /\ pointers[c] = ip[c]
  PROVE  /\ frames' \in [Context -> Stacks] /\ ip' \in [Context -> Address]
         /\ parent' \in [Context -> Context \cup {None}] /\ current' \in Context
         /\ frames'[current] = stacks[current] /\ ip'[current] = pointers[current]
         /\ parent[current] \in Context /\ Gives(parent[current])
<1> DEFINE p == parent[current]
<1>1. p \in Context /\ p # current /\ current \in Context /\ Typed
  BY Unpacked DEF SwitchToParent, PopExecutionContext, Typed
<1>2. /\ frames' = [stacks EXCEPT ![p] = Grown(@, 1)] /\ ip' = [pointers EXCEPT ![p] = Incremented(@)]
      /\ current' = p /\ parent' = [parent EXCEPT ![current] = None]
  BY DEF SwitchToParent, PopExecutionContext
<1> HIDE DEF p
<1>3. /\ stacks[p] = frames[p] /\ pointers[p] = ip[p]
      /\ Grown(frames[p], 1) \in Stacks /\ IsGrown(frames[p], Grown(frames[p], 1), 1)
      /\ Incremented(ip[p]) \in Address
  BY <1>1, GrownByOne, IncrementedIs DEF Typed
<1>4. /\ frames' \in [Context -> Stacks] /\ ip' \in [Context -> Address]
      /\ frames'[p] = Grown(frames[p], 1) /\ ip'[p] = Incremented(ip[p])
      /\ frames'[current] = stacks[current] /\ ip'[current] = pointers[current]
  BY <1>1, <1>2, <1>3
<1>5. OthersKept({current, p})
  BY <1>1, <1>2 DEF OthersKept
<1>6. Gives(p) /\ parent' \in [Context -> Context \cup {None}] /\ current' \in Context
  BY <1>1, <1>2, <1>3, <1>4, <1>5 DEF Gives, Typed
<1> QED BY <1>1, <1>4, <1>6 DEF p

LEMMA FinishDoes ==
  ASSUME TypeOK, Finish, parent[current] # current
  PROVE  /\ TypeOK' /\ parent[current] \in Context /\ Gives(parent[current])
         /\ frames'[current] = Rest(frames[current]) /\ frames'[current] \in Stacks
         /\ Len(frames'[current]) = Len(frames[current]) - 1
         /\ \A i \in 1 .. Len(frames[current]) - 1 : frames'[current][i] = frames[current][i]
         /\ ip'[current] = Invalid
<1> DEFINE stacks == [frames EXCEPT ![current] = Rest(@)]  pointers == [ip EXCEPT ![current] = Invalid]
<1>1. Typed /\ frames[current] \in Stacks /\ Len(frames[current]) > 1 /\ SwitchToParent(stacks, pointers)
  BY Unpacked DEF Finish
<1>2. Rest(frames[current]) \in Stacks
  BY <1>1, RestIs
<1>3. /\ stacks \in [Context -> Stacks] /\ pointers \in [Context -> Address]
      /\ stacks[current] = Rest(frames[current]) /\ pointers[current] = Invalid
      /\ \A c \in Context \ {current} : stacks[c] = frames[c] /\ pointers[c] = ip[c]
  BY <1>1, <1>2, Ranges DEF Typed
<1> HIDE DEF stacks, pointers
<1>4. /\ frames' \in [Context -> Stacks] /\ ip' \in [Context -> Address]
      /\ parent' \in [Context -> Context \cup {None}] /\ current' \in Context
      /\ frames'[current] = stacks[current] /\ ip'[current] = pointers[current]
      /\ parent[current] \in Context /\ Gives(parent[current])
  BY <1>1, <1>3, SwitchDoes
<1>5. state' \in [Context -> States]
  BY <1>1 DEF Finish, Typed, States
<1>6. TypeOK'
  BY <1>1, <1>4, <1>5, TypedStep DEF Finish, Typed, errorVars
<1> QED BY <1>1, <1>2, <1>3, <1>4, <1>6, RestIs

LEMMA YieldDoes ==
  ASSUME TypeOK, Yield, parent[current] # current
  PROVE  /\ TypeOK' /\ parent[current] \in Context /\ Gives(parent[current])
         /\ frames'[current] = frames[current] /\ ip'[current] = After(1)
<1> DEFINE pointers == [ip EXCEPT ![current] = After(1)]
<1>1. Typed /\ SwitchToParent(frames, pointers) /\ After(1) \in Address
  BY Unpacked, AfterIs, Ranges DEF Yield
<1>2. /\ frames \in [Context -> Stacks] /\ pointers \in [Context -> Address]
      /\ pointers[current] = After(1)
      /\ \A c \in Context \ {current} : pointers[c] = ip[c]
  BY <1>1 DEF Typed
<1> HIDE DEF pointers
<1>3. /\ frames' \in [Context -> Stacks] /\ ip' \in [Context -> Address]
      /\ parent' \in [Context -> Context \cup {None}] /\ current' \in Context
      /\ frames'[current] = frames[current] /\ ip'[current] = pointers[current]
      /\ parent[current] \in Context /\ Gives(parent[current])
  BY <1>1, <1>2, SwitchDoes
<1>4. TypeOK'
  BY <1>1, <1>3, TypedStep DEF Yield, Typed, errorVars
<1> QED BY <1>2, <1>3, <1>4

LEMMA CreateCoroutineDoes ==
  ASSUME TypeOK, NEW c \in Co, CreateCoroutine(c), c # current
  PROVE  /\ TypeOK' /\ OthersKept({current, c})
         /\ IsGrown(frames[current], frames'[current], 1) /\ ip'[current] = After(1)
         /\ IsCalled(Empty, frames'[c], Invalid) /\ ip'[c] = FunctionStart
<1>1. /\ After(1) \in Address /\ FunctionStart \in Address /\ Invalid \in Address
      /\ Typed /\ c \in Context /\ current \in Context
  BY AfterIs, Unpacked, Ranges DEF CreateCoroutine, Typed
<1>2. /\ Called(Empty, Invalid) \in Stacks /\ IsCalled(Empty, Called(Empty, Invalid), Invalid)
      /\ Grown(frames[current], 1) \in Stacks /\ IsGrown(frames[current], Grown(frames[current], 1), 1)
  BY <1>1, EmptyIs, CalledIs, GrownByOne, Unpacked DEF IsCalled
<1>3. /\ frames' = [frames EXCEPT ![c] = Called(Empty, Invalid), ![current] = Grown(@, 1)]
      /\ ip' = [ip EXCEPT ![c] = FunctionStart, ![current] = After(1)]
      /\ state' = [state EXCEPT ![c] = "created"]
  BY DEF CreateCoroutine
<1>4. /\ ip' \in [Context -> Address] /\ ip'[current] = After(1) /\ ip'[c] = FunctionStart
      /\ frames' \in [Context -> Stacks] /\ frames'[current] = Grown(frames[current], 1)
      /\ frames'[c] = Called(Empty, Invalid) /\ state' \in [Context -> States]
  BY <1>1, <1>2, <1>3 DEF Typed, States
<1>5. TypeOK'
  BY <1>1, <1>4, TypedStep DEF CreateCoroutine, Typed, errorVars
<1>6. OthersKept({current, c})
  BY <1>1, <1>3 DEF OthersKept, Typed
<1> QED BY <1>2, <1>4, <1>5, <1>6

LEMMA ResumeFinishedDoes ==
  ASSUME TypeOK, NEW c \in Co, ResumeFinished(c)
  PROVE  /\ TypeOK' /\ OthersKept({current})
         /\ IsGrown(frames[current], frames'[current], 1) /\ ip'[current] = After(1)
<1>1. After(1) \in Address /\ Typed
  BY AfterIs, Unpacked, Ranges DEF ResumeFinished
<1>2. Grown(frames[current], 1) \in Stacks /\ IsGrown(frames[current], Grown(frames[current], 1), 1)
  BY <1>1, GrownByOne, Unpacked
<1>3. /\ ip' \in [Context -> Address] /\ ip'[current] = After(1)
      /\ frames' \in [Context -> Stacks] /\ frames'[current] = Grown(frames[current], 1)
  BY <1>1, <1>2 DEF Typed, ResumeFinished
<1>4. TypeOK'
  BY <1>1, <1>3, TypedStep DEF ResumeFinished, Typed, errorVars
<1> QED BY <1>1, <1>2, <1>3, <1>4 DEF OthersKept, Typed, ResumeFinished

LEMMA ResumeDoes ==
  ASSUME TypeOK, NEW c \in Co, Resume(c), c # current
  PROVE  /\ TypeOK' /\ OthersKept({current, c})
         /\ frames'[current] = frames[current] /\ ip'[current] = After(1)
         /\ ip'[c] = Incremented(ip[c])
         /\ state[c] = "created" => frames'[c] = frames[c]
         /\ state[c] # "created" => IsGrown(frames[c], frames'[c], 1)
<1>1. /\ After(1) \in Address /\ Typed /\ c \in Context /\ current \in Context
      /\ Incremented(ip[c]) \in Address
  BY AfterIs, IncrementedIs, Unpacked, Ranges DEF Resume, Typed
<1>2. Grown(frames[c], 1) \in Stacks /\ IsGrown(frames[c], Grown(frames[c], 1), 1)
  BY <1>1, GrownByOne DEF Typed
<1>3. /\ frames' = [frames EXCEPT ![c] = Received(c)]
      /\ ip' = [ip EXCEPT ![current] = After(1), ![c] = Incremented(@)]
      /\ state' = [state EXCEPT ![c] = "running"]
      /\ parent' = [parent EXCEPT ![c] = current]
  BY DEF Resume
<1>4. Received(c) \in Stacks
  BY <1>1, <1>2 DEF Received, Typed
<1>5. /\ ip' \in [Context -> Address] /\ ip'[current] = After(1) /\ ip'[c] = Incremented(ip[c])
      /\ frames' \in [Context -> Stacks] /\ frames'[c] = Received(c)
      /\ state' \in [Context -> States] /\ parent' \in [Context -> Context \cup {None}]
  BY <1>1, <1>3, <1>4 DEF Typed, States
<1>6. TypeOK'
  BY <1>1, <1>5, TypedStep DEF Resume, Typed, errorVars
<1>7. OthersKept({current, c}) /\ frames'[current] = frames[current]
  BY <1>1, <1>3 DEF OthersKept, Typed
<1> QED BY <1>2, <1>5, <1>6, <1>7 DEF Received

(* The entries of native calls, and how actions change their list.         *)
LEMMA EntryIs ==
  ASSUME TypeOK, NEW kind \in {"host", "call", "create"}, NEW loop \in BOOLEAN,
         NEW c \in Context, NEW height \in Nat \ {0}
  PROVE  LET e == Entry(kind, loop, c, height) IN
         /\ e \in Calls /\ e.kind = kind /\ e.loop = loop /\ e.old = ip[c]
         /\ e.home = c /\ e.height = height
<1>1. ip[c] \in Address
  BY Unpacked DEF Typed
<1> QED BY <1>1 DEF Entry, Calls

LEMMA CallHas ==
  ASSUME NEW e \in Calls
  PROVE  /\ e.kind \in {"host", "call", "create"} /\ e.loop \in BOOLEAN /\ e.old \in Address
         /\ e.home \in Context /\ e.height \in Nat \ {0}
BY DEF Calls

LEMMA EntriesAre ==
  ASSUME TypeOK, NEW c \in Context, NEW height \in Nat \ {0}
  PROVE  /\ Entry("call", FALSE, c, height) \in Calls
         /\ Entry("create", FALSE, c, height) \in Calls
         /\ Entry("host", TRUE, c, height) \in Calls
<1>1. FALSE \in BOOLEAN /\ TRUE \in BOOLEAN
  OBVIOUS
<1>2. "call" \in {"host", "call", "create"} /\ "create" \in {"host", "call", "create"}
      /\ "host" \in {"host", "call", "create"}
  OBVIOUS
<1> QED BY ZenonT(40), <1>1, <1>2, EntryIs

LEMMA ReplacedHas ==
  ASSUME NEW S, NEW s \in Seq(S), NEW n \in 1 .. Len(s), NEW e \in S
  PROVE  LET t == [s EXCEPT ![n] = e] IN
         /\ t \in Seq(S) /\ Len(t) = Len(s) /\ t[n] = e
         /\ \A i \in 1 .. Len(s) : i # n => t[i] = s[i]
OBVIOUS

(* t is s with its last entry in or out of a loop.                         *)
IsRelooped(s, t, loop, old) ==
  /\ Len(t) = Len(s) /\ \A i \in 1 .. Len(s) - 1 : t[i] = s[i]
  /\ t[Len(s)] = [s[Len(s)] EXCEPT !.loop = loop, !.old = old]

LEMMA ReloopedHas ==
  ASSUME NEW s \in Seq(Calls), s # <<>>, NEW t \in Seq(Calls), NEW loop \in BOOLEAN, NEW old \in Address,
         IsRelooped(s, t, loop, old)
  PROVE  LET e == t[Len(s)]
             d == s[Len(s)] IN
         /\ e.kind = d.kind /\ e.loop = loop /\ e.old = old /\ e.home = d.home /\ e.height = d.height
         /\ Top(t) = e /\ Top(s) = d /\ t # <<>> /\ Len(s) \in Nat \ {0}
<1>1. s[Len(s)] \in Calls /\ Len(s) \in Nat \ {0} /\ Len(t) = Len(s)
  BY DEF IsRelooped
<1>2. t # <<>>
  BY <1>1
<1>3. t[Len(s)] = [s[Len(s)] EXCEPT !.loop = loop, !.old = old]
  BY DEF IsRelooped
<1> QED BY <1>1, <1>2, <1>3 DEF Top, Calls

LEMMA LoopingIs ==
  ASSUME TypeOK, native # <<>>
  PROVE  Looping(native) \in Seq(Calls) /\ IsRelooped(native, Looping(native), TRUE, ip[current])
<1> DEFINE n == Len(native)  e == [native[n] EXCEPT !.loop = TRUE, !.old = ip[current]]
<1>1. native \in Seq(Calls) /\ n \in 1 .. n /\ native[n] \in Calls /\ ip[current] \in Address
  BY Unpacked DEF Typed
<1>2. e \in Calls
  BY <1>1 DEF Calls
<1>3. Looping(native) = [native EXCEPT ![n] = e]
  BY <1>1 DEF Looping
<1> HIDE DEF e
<1>4. Looping(native) \in Seq(Calls) /\ Len(Looping(native)) = n
      /\ Looping(native)[n] = e /\ \A i \in 1 .. n - 1 : Looping(native)[i] = native[i]
  BY <1>1, <1>2, <1>3
<1> QED BY <1>4 DEF IsRelooped, e

LEMMA LeaveLoopIs ==
  ASSUME TypeOK, native # <<>>, LeaveLoop
  PROVE  /\ native' \in Seq(Calls)
         /\ Top(native).kind = "host" => native' = Rest(native)
         /\ Top(native).kind # "host" => IsRelooped(native, native', FALSE, Top(native).old)
<1> DEFINE n == Len(native)  e == [native[n] EXCEPT !.loop = FALSE]
<1>1. native \in Seq(Calls) /\ n \in 1 .. n /\ native[n] \in Calls /\ Top(native) = native[n]
  BY Unpacked DEF Typed, Top
<1>2. e = [native[n] EXCEPT !.loop = FALSE, !.old = native[n].old]
  BY <1>1 DEF Calls
<1>5. e \in Calls
  BY <1>1 DEF Calls
<1>3. CASE Top(native).kind = "host"
  BY <1>1, <1>3, RestHas DEF LeaveLoop
<1>4. CASE Top(native).kind # "host"
  <2>1. native' = [native EXCEPT ![n] = e]
    BY <1>1, <1>4 DEF LeaveLoop
  <2> HIDE DEF e, n
  <2>2. /\ native' \in Seq(Calls) /\ Len(native') = Len(native) /\ native'[n] = e
        /\ \A i \in 1 .. Len(native) : i # n => native'[i] = native[i]
    <3>1. n \in 1 .. Len(native)
      BY <1>1 DEF n
    <3> QED BY <1>1, <1>5, <2>1, <3>1, ReplacedHas
  <2>3. \A i \in 1 .. n - 1 : i \in 1 .. Len(native) /\ i # n
    BY <1>1 DEF n
  <2>4. Len(native') = n /\ \A i \in 1 .. n - 1 : native'[i] = native[i]
    BY <2>2, <2>3 DEF n
  <2> QED BY <1>1, <1>2, <1>4, <2>2, <2>4 DEF IsRelooped, n
<1> QED BY <1>3, <1>4

LEMMA CallNativeDoes ==
  ASSUME TypeOK, CallNative
  PROVE  /\ TypeOK' /\ OthersKept({current})
         /\ IsGrown(frames[current], frames'[current], 1) /\ ip'[current] = After(1)
         /\ Entry("call", FALSE, current, Len(frames[current])) \in Calls
<1>1. After(1) \in Address /\ Typed /\ Len(frames[current]) \in Nat \ {0}
  BY AfterIs, Unpacked, Ranges DEF CallNative
<1>2. Grown(frames[current], 1) \in Stacks /\ IsGrown(frames[current], Grown(frames[current], 1), 1)
  BY <1>1, GrownByOne, Unpacked
<1>3. /\ ip' \in [Context -> Address] /\ ip'[current] = After(1)
      /\ frames' \in [Context -> Stacks] /\ frames'[current] = Grown(frames[current], 1)
  BY <1>1, <1>2 DEF Typed, CallNative
<1>4. Entry("call", FALSE, current, Len(frames[current])) \in Calls
  BY <1>1, EntriesAre DEF Typed
<1>5. native' \in Seq(Calls)
  <2>1. native' = Append(native, Entry("call", FALSE, current, Len(frames[current])))
    BY DEF CallNative
  <2> QED BY <1>1, <1>4, <2>1, AppendHas DEF Typed
<1>6. TypeOK'
  BY <1>1, <1>3, <1>5, TypedStep DEF CallNative, Typed, errorVars
<1> QED BY <1>1, <1>2, <1>3, <1>4, <1>6 DEF OthersKept, Typed, CallNative

LEMMA CreateNativeCoroutineDoes ==
  ASSUME TypeOK, NEW c \in Co, CreateNativeCoroutine(c), c # current
  PROVE  /\ TypeOK' /\ OthersKept({current, c})
         /\ IsGrown(frames[current], frames'[current], 1) /\ ip'[current] = After(1)
         /\ IsGrown(Empty, frames'[c], 1) /\ ip'[c] = Invalid
         /\ Entry("create", FALSE, c, 1) \in Calls
<1>1. /\ After(1) \in Address /\ Invalid \in Address
      /\ Typed /\ c \in Context /\ current \in Context
  BY AfterIs, Unpacked, Ranges DEF CreateNativeCoroutine, Typed
<1>2. /\ Grown(Empty, 1) \in Stacks /\ IsGrown(Empty, Grown(Empty, 1), 1)
      /\ Grown(frames[current], 1) \in Stacks /\ IsGrown(frames[current], Grown(frames[current], 1), 1)
  BY <1>1, EmptyIs, GrownByOne, Unpacked
<1>3. /\ frames' = [frames EXCEPT ![c] = Grown(Empty, 1), ![current] = Grown(@, 1)]
      /\ ip' = [ip EXCEPT ![c] = Invalid, ![current] = After(1)]
      /\ state' = [state EXCEPT ![c] = "created"] /\ parent' = [parent EXCEPT ![c] = current]
  BY DEF CreateNativeCoroutine
<1>4. /\ ip' \in [Context -> Address] /\ ip'[current] = After(1) /\ ip'[c] = Invalid
      /\ frames' \in [Context -> Stacks] /\ frames'[current] = Grown(frames[current], 1)
      /\ frames'[c] = Grown(Empty, 1)
      /\ state' \in [Context -> States] /\ parent' \in [Context -> Context \cup {None}]
  BY <1>1, <1>2, <1>3 DEF Typed, States
<1>5. Entry("create", FALSE, c, 1) \in Calls
  <2>1. 1 \in Nat \ {0}
    OBVIOUS
  <2> QED BY <1>1, <2>1, EntriesAre
<1>6. native' \in Seq(Calls)
  <2>1. native' = Append(native, Entry("create", FALSE, c, 1))
    BY DEF CreateNativeCoroutine
  <2> QED BY <1>1, <1>5, <2>1, AppendHas DEF Typed
<1>7. TypeOK'
  BY <1>1, <1>4, <1>6, TypedStep DEF CreateNativeCoroutine, Typed, errorVars
<1>8. OthersKept({current, c})
  BY <1>1, <1>3 DEF OthersKept, Typed
<1> QED BY <1>2, <1>4, <1>5, <1>7, <1>8

LEMMA CallBackDoes ==
  ASSUME TypeOK, CallBack
  PROVE  /\ TypeOK' /\ OthersKept({current})
         /\ IsCalled(frames[current], frames'[current], NativeReturn) /\ ip'[current] = FunctionStart
         /\ IsRelooped(native, native', TRUE, ip[current])
<1>1. Typed /\ native # <<>> /\ NativeReturn \in Address /\ FunctionStart \in Address
  BY Unpacked, Ranges DEF CallBack, MayCallBack, NativeRuns
<1>2. /\ Called(frames[current], NativeReturn) \in Stacks
      /\ IsCalled(frames[current], Called(frames[current], NativeReturn), NativeReturn)
  BY <1>1, CalledIs, Unpacked DEF IsCalled
<1>3. /\ ip' \in [Context -> Address] /\ ip'[current] = FunctionStart
      /\ frames' \in [Context -> Stacks] /\ frames'[current] = Called(frames[current], NativeReturn)
  BY <1>1, <1>2 DEF Typed, CallBack
<1>4. native' \in Seq(Calls) /\ IsRelooped(native, native', TRUE, ip[current])
  BY <1>1, LoopingIs DEF CallBack
<1>5. TypeOK'
  BY <1>1, <1>3, <1>4, TypedStep DEF CallBack, Typed, errorVars
<1> QED BY <1>1, <1>2, <1>3, <1>4, <1>5 DEF OthersKept, Typed, CallBack

LEMMA CallBackNativeDoes ==
  ASSUME TypeOK, CallBackNative
  PROVE  /\ TypeOK' /\ OthersKept({current})
         /\ IsGrown(frames[current], frames'[current], 1) /\ ip'[current] = NativeReturn
         /\ Looping(native) \in Seq(Calls) /\ IsRelooped(native, Looping(native), TRUE, ip[current])
         /\ Entry("call", FALSE, current, Len(frames[current])) \in Calls
<1>1. Typed /\ native # <<>> /\ NativeReturn \in Address /\ Len(frames[current]) \in Nat \ {0}
  BY Unpacked, Ranges DEF CallBackNative, MayCallBack, NativeRuns
<1>2. Grown(frames[current], 1) \in Stacks /\ IsGrown(frames[current], Grown(frames[current], 1), 1)
  BY <1>1, GrownByOne, Unpacked
<1>3. /\ ip' \in [Context -> Address] /\ ip'[current] = NativeReturn
      /\ frames' \in [Context -> Stacks] /\ frames'[current] = Grown(frames[current], 1)
  BY <1>1, <1>2 DEF Typed, CallBackNative
<1>4. Looping(native) \in Seq(Calls) /\ IsRelooped(native, Looping(native), TRUE, ip[current])
  BY <1>1, LoopingIs
<1>5. Entry("call", FALSE, current, Len(frames[current])) \in Calls
  BY <1>1, EntriesAre DEF Typed
<1>6. native' \in Seq(Calls)
  <2>1. native' = Append(Looping(native), Entry("call", FALSE, current, Len(frames[current])))
    BY DEF CallBackNative
  <2> QED BY <1>4, <1>5, <2>1, AppendHas
<1>7. TypeOK'
  BY <1>1, <1>3, <1>6, TypedStep DEF CallBackNative, Typed, errorVars
<1> QED BY <1>1, <1>2, <1>3, <1>4, <1>5, <1>7 DEF OthersKept, Typed, CallBackNative

LEMMA HostCallDoes ==
  ASSUME TypeOK, HostCall
  PROVE  /\ TypeOK' /\ OthersKept({current})
         /\ IsCalled(frames[current], frames'[current], NativeReturn) /\ ip'[current] = FunctionStart
         /\ Entry("host", TRUE, current, Len(frames[current])) \in Calls
<1>1. Typed /\ NativeReturn \in Address /\ FunctionStart \in Address /\ Len(frames[current]) \in Nat \ {0}
  BY Unpacked, Ranges
<1>2. /\ Called(frames[current], NativeReturn) \in Stacks
      /\ IsCalled(frames[current], Called(frames[current], NativeReturn), NativeReturn)
  BY <1>1, CalledIs, Unpacked DEF IsCalled
<1>3. /\ ip' \in [Context -> Address] /\ ip'[current] = FunctionStart
      /\ frames' \in [Context -> Stacks] /\ frames'[current] = Called(frames[current], NativeReturn)
  BY <1>1, <1>2 DEF Typed, HostCall
<1>4. Entry("host", TRUE, current, Len(frames[current])) \in Calls
  BY <1>1, EntriesAre DEF Typed
<1>5. native' \in Seq(Calls)
  <2>1. native' = <<Entry("host", TRUE, current, Len(frames[current]))>>
    BY DEF HostCall
  <2> HIDE DEF Entry
  <2>2. \A e \in Calls : <<e>> \in Seq(Calls)
    OBVIOUS
  <2> QED BY <1>4, <2>1, <2>2
<1>6. TypeOK'
  BY <1>1, <1>3, <1>5, TypedStep DEF HostCall, Typed, errorVars
<1> QED BY <1>1, <1>2, <1>3, <1>4, <1>6 DEF OthersKept, Typed, HostCall

LEMMA FunctionReturnedDoes ==
  ASSUME TypeOK, FunctionReturned
  PROVE  /\ TypeOK' /\ OthersKept({current})
         /\ frames'[current] = Popped(frames[current]) /\ ip'[current] = Top(native).old
<1>1. Typed /\ native # <<>> /\ Top(native) \in Calls /\ Top(native).old \in Address
  BY Unpacked, TopHas, CallHas DEF FunctionReturned, Typed
<1>2. Popped(frames[current]) \in Stacks
  BY <1>1, PoppedIs, Unpacked
<1>3. /\ ip' \in [Context -> Address] /\ ip'[current] = Top(native).old
      /\ frames' \in [Context -> Stacks] /\ frames'[current] = Popped(frames[current])
  BY <1>1, <1>2 DEF Typed, FunctionReturned
<1>4. native' \in Seq(Calls)
  BY <1>1, LeaveLoopIs DEF FunctionReturned
<1>5. TypeOK'
  BY <1>1, <1>3, <1>4, TypedStep DEF FunctionReturned, Typed, errorVars
<1> QED BY <1>1, <1>3, <1>5 DEF OthersKept, Typed, FunctionReturned

LEMMA FunctionFailedDoes ==
  ASSUME TypeOK, FunctionFailed
  PROVE  /\ TypeOK' /\ OthersKept({current})
         /\ frames'[current] \in {frames[current], Popped(frames[current])}
<1>1. Typed /\ native # <<>> /\ Top(native) \in Calls /\ Top(native).old \in Address
  BY Unpacked, TopHas, CallHas DEF FunctionFailed, Typed
<1>2. Popped(frames[current]) \in Stacks
  BY <1>1, PoppedIs, Unpacked
<1>3. native' \in Seq(Calls)
  BY <1>1, LeaveLoopIs DEF FunctionFailed
<1>4. /\ ip' \in [Context -> Address] /\ frames' \in [Context -> Stacks]
      /\ frames'[current] \in {frames[current], Popped(frames[current])} /\ OthersKept({current})
  <2>1. CASE UNCHANGED <<ip, frames>>
    BY <1>1, <2>1 DEF Typed, OthersKept
  <2>2. CASE ip' = [ip EXCEPT ![current] = Top(native).old] /\ frames' = [frames EXCEPT ![current] = Popped(@)]
    BY <1>1, <1>2, <2>2 DEF Typed, OthersKept
  <2> QED BY <2>1, <2>2 DEF FunctionFailed
<1>5. TypeOK'
  BY <1>1, <1>3, <1>4, TypedStep DEF FunctionFailed, Typed, errorVars
<1> QED BY <1>4, <1>5

LEMMA NativeReturnsDoes ==
  ASSUME TypeOK, NativeReturns
  PROVE  TypeOK' /\ OthersKept({current}) /\ ip'[current] = Incremented(ip[current])
<1>1. Typed /\ native # <<>> /\ Incremented(ip[current]) \in Address
  BY Unpacked, IncrementedIs DEF NativeReturns, NativeRuns, Typed
<1>2. native' \in Seq(Calls) /\ ip' \in [Context -> Address]
  BY <1>1, RestHas DEF NativeReturns, Typed
<1>3. TypeOK'
  BY <1>1, <1>2, TypedStep DEF NativeReturns, Typed, errorVars
<1> QED BY <1>1, <1>3 DEF OthersKept, Typed, NativeReturns

LEMMA NativeCoroutineReturnsDoes ==
  ASSUME TypeOK, NativeCoroutineReturns
  PROVE  /\ TypeOK' /\ parent[current] \in Context /\ OthersKept({parent[current]})
         /\ ip'[parent[current]] = Incremented(ip[parent[current]])
<1>1. Typed /\ native # <<>> /\ parent[current] \in Context /\ Incremented(ip[parent[current]]) \in Address
  BY Unpacked, IncrementedIs DEF NativeCoroutineReturns, NativeRuns, Typed, PopExecutionContext
<1>2. native' \in Seq(Calls) /\ ip' \in [Context -> Address]
  BY <1>1, RestHas DEF NativeCoroutineReturns, Typed
<1>3. state' \in [Context -> States]
  BY <1>1 DEF NativeCoroutineReturns, Typed, States
<1>4. /\ parent' \in [Context -> Context \cup {None}] /\ current' \in Context /\ struck' \in SUBSET Co
      /\ frames' = frames /\ failed' = failed
  BY <1>1 DEF NativeCoroutineReturns, Typed, PopExecutionContext
<1>5. TypeOK'
  BY <1>1, <1>2, <1>3, <1>4, TypedStep DEF Typed
<1> QED BY <1>1, <1>5 DEF OthersKept, Typed, NativeCoroutineReturns

LEMMA RuntimeErrorDoes ==
  ASSUME TypeOK, RuntimeError
  PROVE  /\ TypeOK' /\ OthersKept({current}) /\ Len(frames'[current]) = Len(frames[current])
         /\ \A i \in 1 .. Len(frames[current]) : frames'[current][i].ret = frames[current][i].ret
         /\ \A i \in 1 .. Len(frames[current]) - 1 : frames'[current][i] = frames[current][i]
<1>1. Typed /\ After(1) \in Address /\ frames[current] \in Stacks
  BY Unpacked, AfterIs, Ranges DEF RuntimeError
<1>2. PICK lost \in 0 .. Top(frames[current]).depth : frames' = [frames EXCEPT ![current] = Grown(@, -lost)]
  BY DEF RuntimeError
<1>3. -lost \in Int /\ Top(frames[current]).depth + (-lost) >= 0
  <2>1. \A d \in Nat : \A l \in 0 .. d : -l \in Int /\ d + (-l) >= 0
    OBVIOUS
  <2> QED BY <2>1, Unpacked
<1>4. Grown(frames[current], -lost) \in Stacks /\ IsGrown(frames[current], Grown(frames[current], -lost), -lost)
  <2> DEFINE m == -lost
  <2>1. m \in Int /\ Top(frames[current]).depth + m >= 0
    BY <1>3
  <2>2. Top(frames[current]) = frames[current][Len(frames[current])]
    BY Unpacked
  <2> HIDE DEF m
  <2>3. Grown(frames[current], m) \in Stacks /\ IsGrown(frames[current], Grown(frames[current], m), m)
    BY <1>1, <2>1, <2>2, GrownIs DEF IsGrown
  <2> QED BY <2>3 DEF m
<1>5. /\ frames' \in [Context -> Stacks] /\ frames'[current] = Grown(frames[current], -lost)
      /\ ip' \in [Context -> Address] /\ OthersKept({current})
  BY <1>1, <1>2, <1>4 DEF Typed, RuntimeError, OthersKept
<1>6. failed' \in BOOLEAN /\ struck' \in SUBSET Co
  BY <1>1 DEF RuntimeError, Fail, Typed, Waiting, Context
<1>7. TypeOK'
  BY <1>1, <1>5, <1>6, TypedStep DEF RuntimeError, Typed
<1> QED BY <1>4, <1>5, <1>7 DEF IsGrown

LEMMA NativeErrorDoes ==
  ASSUME TypeOK, NativeError
  PROVE  TypeOK'
<1>1. Typed
  BY Unpacked
<1>2. failed' \in BOOLEAN /\ struck' \in SUBSET Co
  BY <1>1 DEF NativeError, Fail, Typed, Waiting, Context
<1> QED BY <1>1, <1>2, TypedStep DEF NativeError, Typed

LEMMA ClearReplErrorStateDoes ==
  ASSUME TypeOK, ClearReplErrorState
  PROVE  TypeOK'
<1>1. Typed /\ Root \in Context /\ Empty \in Stacks /\ Start \in Address
  BY Unpacked, Ranges, EmptyIs
<1>2. frames' \in [Context -> Stacks] /\ ip' \in [Context -> Address]
  BY <1>1 DEF ClearReplErrorState, Typed
<1>3. parent' \in [Context -> Context \cup {None}] /\ state' \in [Context -> States]
  BY <1>1 DEF ClearReplErrorState, Typed, States, Cleared
<1> QED BY <1>1, <1>2, <1>3, TypedStep DEF ClearReplErrorState, Typed

LEMMA CollectDoes ==
  ASSUME TypeOK, NEW c \in Co, Collect(c)
  PROVE  TypeOK' /\ OthersKept({c}) /\ frames'[c] = Empty /\ ip'[c] = Start
<1>1. Typed /\ c \in Context /\ Empty \in Stacks /\ Start \in Address
  BY Unpacked, Ranges, EmptyIs
<1>2. frames' \in [Context -> Stacks] /\ ip' \in [Context -> Address] /\ state' \in [Context -> States]
      /\ frames'[c] = Empty /\ ip'[c] = Start /\ struck' \in SUBSET Co
  BY <1>1 DEF Collect, Typed, States
<1>3. TypeOK'
  BY <1>1, <1>2, TypedStep DEF Collect, Typed
<1> QED BY <1>2, <1>3 DEF OthersKept, Collect, Typed

(***************************************************************************)
(* The contexts that wait for one another are a chain.                     *)
(***************************************************************************)
IsChain(s) ==
  /\ s # <<>> /\ s[1] = Root /\ s[Len(s)] = current
  /\ \A i \in 1 .. Len(s) - 1 : parent[s[i + 1]] = s[i]
  /\ \A i, j \in 1 .. Len(s) : s[i] = s[j] => i = j
  /\ \A c \in Co : parent[c] # None => (\E i \in 1 .. Len(s) : s[i] = c) /\ state[c] # "none"
  /\ parent[Root] = None

LEMMA SmallestNat ==
  ASSUME NEW S \in SUBSET Nat, S # {}
  PROVE  \E n \in S : \A m \in S : n <= m
<1> DEFINE R == OpToRel(<, Nat)
<1>1. IsWellFoundedOn(R, Nat)
  BY NatLessThanWellFounded
<1>2. ASSUME NEW x \in Nat, NEW y \in Nat, y < x
      PROVE  <<y, x>> \in R
  BY <1>2 DEF OpToRel
<1> HIDE DEF R
<1>3. PICK x \in S : \A y \in S : ~ (<<y, x>> \in R)
  BY <1>1, WFMin
<1>4. ASSUME NEW y \in S PROVE x <= y
  <2>1. ~ (y < x) /\ x \in Nat /\ y \in Nat
    BY <1>2, <1>3
  <2> QED BY <2>1
<1> QED BY <1>4

LEMMA ChainHas ==
  ASSUME TypeOK, NEW s \in Seq(Context), IsChain(s)
  PROVE  /\ Len(s) \in Nat \ {0} /\ \A i \in 1 .. Len(s) : s[i] \in Context
         /\ \A i \in 2 .. Len(s) : s[i] \in Co /\ parent[s[i]] = s[i - 1] /\ parent[s[i]] # None
         /\ \A c \in Context : parent[c] # None =>
              c \in Co /\ state[c] # "none" /\ \E i \in 2 .. Len(s) : s[i] = c
         /\ \A c \in Co : parent[c] = None => \A i \in 1 .. Len(s) : s[i] # c
         /\ \A i, j \in 1 .. Len(s) : s[i] = s[j] => i = j
         /\ s[1] = Root /\ s[Len(s)] = current /\ parent[Root] = None
         /\ parent[current] # None => Len(s) > 1 /\ parent[current] = s[Len(s) - 1]
         /\ parent[current] = None => Len(s) = 1 /\ current = Root
         /\ parent[current] # current /\ Root \notin Co /\ None \notin Context
<1>1. Len(s) \in Nat \ {0} /\ \A i \in 1 .. Len(s) : s[i] \in Context
  BY DEF IsChain
<1>2. /\ s[1] = Root /\ s[Len(s)] = current /\ parent[Root] = None
      /\ \A i, j \in 1 .. Len(s) : s[i] = s[j] => i = j
      /\ \A i \in 1 .. Len(s) - 1 : parent[s[i + 1]] = s[i]
      /\ \A c \in Co : parent[c] # None => (\E i \in 1 .. Len(s) : s[i] = c) /\ state[c] # "none"
  BY DEF IsChain
<1>3. /\ Root \notin Co /\ None \notin Context /\ Root \in Context
      /\ \A c \in Context : c # Root => c \in Co
  BY Ranges DEF Context
<1>4. ASSUME NEW i \in 2 .. Len(s)
      PROVE  s[i] \in Co /\ parent[s[i]] = s[i - 1] /\ parent[s[i]] # None
  <2>1. i - 1 \in 1 .. Len(s) - 1 /\ i - 1 \in 1 .. Len(s) /\ i - 1 + 1 = i
        /\ i \in 1 .. Len(s) /\ 1 \in 1 .. Len(s) /\ i # 1
    BY <1>1
  <2>2. parent[s[i]] = s[i - 1]
    BY <1>2, <2>1
  <2>3. s[i] # Root
    BY <1>2, <2>1
  <2> QED BY <1>1, <1>3, <2>1, <2>2, <2>3
<1>5. ASSUME NEW c \in Context, parent[c] # None
      PROVE  c \in Co /\ state[c] # "none" /\ \E i \in 2 .. Len(s) : s[i] = c
  <2>1. c \in Co
    BY <1>2, <1>3, <1>5
  <2>2. PICK i \in 1 .. Len(s) : s[i] = c
    BY <1>2, <1>5, <2>1
  <2>3. i # 1
    BY <1>2, <1>5, <2>2
  <2>4. i \in 2 .. Len(s)
    BY <1>1, <2>3
  <2> QED BY <1>2, <1>5, <2>1, <2>2, <2>4
<1>6. ASSUME NEW c \in Co, parent[c] = None, NEW i \in 1 .. Len(s)
      PROVE  s[i] # c
  <2>1. i = 1 \/ i \in 2 .. Len(s)
    BY <1>1
  <2> QED BY <1>2, <1>3, <1>4, <1>6, <2>1
<1>7. parent[current] # None => Len(s) > 1 /\ parent[current] = s[Len(s) - 1]
  <2>1. Len(s) = 1 \/ Len(s) \in 2 .. Len(s)
    BY <1>1
  <2> QED BY <1>1, <1>2, <1>4, <2>1
<1>8. parent[current] = None => Len(s) = 1 /\ current = Root
  <2>1. Len(s) = 1 \/ Len(s) \in 2 .. Len(s)
    BY <1>1
  <2> QED BY <1>1, <1>2, <1>4, <2>1
<1>9. parent[current] # current
  <2>1. CASE parent[current] = None
    BY <1>1, <1>2, <1>3, <1>8, <2>1
  <2>2. CASE parent[current] # None
    <3>1. Len(s) - 1 \in 1 .. Len(s) /\ Len(s) \in 1 .. Len(s) /\ Len(s) - 1 # Len(s)
      BY <1>1, <1>7, <2>2
    <3> QED BY <1>2, <1>7, <2>2, <3>1
  <2> QED BY <2>1, <2>2
<1> QED BY <1>1, <1>2, <1>3, <1>4, <1>5, <1>6, <1>7, <1>8, <1>9

LEMMA ChainKept ==
  ASSUME TypeOK, NEW s \in Seq(Context), IsChain(s), parent' = parent, current' = current,
         \A c \in Co : parent[c] # None /\ state[c] # "none" => state'[c] # "none"
  PROVE  IsChain(s)'
BY DEF IsChain

LEMMA ChainResumed ==
  ASSUME TypeOK, NEW s \in Seq(Context), IsChain(s), NEW c \in Co, parent[c] = None,
         parent' = [parent EXCEPT ![c] = current], current' = c, state'[c] # "none",
         \A d \in Context \ {c} : state'[d] = state[d]
  PROVE  IsChain(Append(s, c))' /\ Append(s, c) \in Seq(Context)
<1> DEFINE t == Append(s, c)
<1>1. /\ Len(s) \in Nat \ {0} /\ \A i \in 1 .. Len(s) : s[i] \in Context
      /\ \A i \in 2 .. Len(s) : s[i] \in Co /\ parent[s[i]] = s[i - 1]
      /\ \A d \in Context : parent[d] # None => state[d] # "none" /\ \E i \in 2 .. Len(s) : s[i] = d
      /\ \A i \in 1 .. Len(s) : s[i] # c
      /\ \A i, j \in 1 .. Len(s) : s[i] = s[j] => i = j
      /\ s[1] = Root /\ s[Len(s)] = current /\ parent[Root] = None
  BY ChainHas
<1>2. c \in Context /\ Root \notin Co /\ Root \in Context /\ Co \subseteq Context
  BY Ranges
<1>3. /\ t \in Seq(Context) /\ Len(t) = Len(s) + 1 /\ t # <<>>
      /\ \A i \in 1 .. Len(s) : t[i] = s[i]
      /\ t[Len(s) + 1] = c
  BY <1>2, AppendHas
<1>4. parent'[c] = current /\ \A d \in Context \ {c} : parent'[d] = parent[d]
  BY <1>2, TypedIs DEF Typed
<1> HIDE DEF t
<1>5. t[1] = Root /\ t[Len(t)] = c
  <2>1. 1 \in 1 .. Len(s)
    BY <1>1
  <2> QED BY <1>1, <1>3, <2>1
<1>6. ASSUME NEW i \in 1 .. Len(t) - 1
      PROVE  parent'[t[i + 1]] = t[i]
  <2>1. i \in 1 .. Len(s) /\ i \in Int
    BY <1>1, <1>3
  <2>2. CASE i = Len(s)
    BY <1>1, <1>3, <1>4, <2>1, <2>2
  <2>3. CASE i # Len(s)
    <3>1. i + 1 \in 2 .. Len(s) /\ i + 1 - 1 = i /\ i + 1 \in 1 .. Len(s)
      BY <1>1, <2>1, <2>3
    <3>2. parent[s[i + 1]] = s[i] /\ s[i + 1] # c /\ s[i + 1] \in Context
      BY <1>1, <3>1
    <3>3. t[i + 1] = s[i + 1] /\ t[i] = s[i]
      BY <1>3, <2>1, <3>1
    <3> QED BY <1>4, <3>2, <3>3
  <2> QED BY <2>2, <2>3
<1>7. ASSUME NEW i \in 1 .. Len(t), NEW j \in 1 .. Len(t), t[i] = t[j]
      PROVE  i = j
  <2>1. (i = Len(s) + 1 \/ i \in 1 .. Len(s)) /\ (j = Len(s) + 1 \/ j \in 1 .. Len(s))
    BY <1>1, <1>3
  <2> QED BY <1>1, <1>3, <1>7, <2>1
<1>8. ASSUME NEW d \in Co, parent'[d] # None
      PROVE  (\E i \in 1 .. Len(t) : t[i] = d) /\ state'[d] # "none"
  <2>1. CASE d = c
    <3>1. Len(s) + 1 \in 1 .. Len(t)
      BY <1>1, <1>3
    <3> QED BY <1>3, <2>1, <3>1
  <2>2. CASE d # c
    <3>1. d \in Context /\ parent[d] # None /\ state'[d] = state[d]
      BY <1>2, <1>4, <1>8, <2>2
    <3>2. PICK i \in 2 .. Len(s) : s[i] = d
      BY <1>1, <3>1
    <3>3. i \in 1 .. Len(s) /\ i \in 1 .. Len(t)
      BY <1>1, <1>3
    <3> QED BY <1>1, <1>3, <3>1, <3>2, <3>3
  <2> QED BY <2>1, <2>2
<1>9. parent'[Root] = None
  BY <1>1, <1>2, <1>4
<1>10. IsChain(t)'
  BY <1>3, <1>5, <1>6, <1>7, <1>8, <1>9 DEF IsChain
<1> QED BY <1>3, <1>10 DEF t

LEMMA ChainPopped ==
  ASSUME TypeOK, NEW s \in Seq(Context), IsChain(s), parent[current] # None,
         parent' = [parent EXCEPT ![current] = None], current' = parent[current],
         \A d \in Context \ {current} : state[d] # "none" => state'[d] # "none"
  PROVE  IsChain(Rest(s))' /\ Rest(s) \in Seq(Context)
<1> DEFINE t == Rest(s)
<1>1. /\ Len(s) \in Nat \ {0} /\ \A i \in 1 .. Len(s) : s[i] \in Context
      /\ \A i \in 2 .. Len(s) : s[i] \in Co /\ parent[s[i]] = s[i - 1]
      /\ \A d \in Context : parent[d] # None => state[d] # "none" /\ \E i \in 2 .. Len(s) : s[i] = d
      /\ \A i, j \in 1 .. Len(s) : s[i] = s[j] => i = j
      /\ s[1] = Root /\ s[Len(s)] = current /\ parent[Root] = None
      /\ Len(s) > 1 /\ parent[current] = s[Len(s) - 1]
  BY ChainHas
<1>2. /\ t \in Seq(Context) /\ Len(t) = Len(s) - 1
      /\ \A i \in 1 .. Len(s) - 1 : t[i] = s[i]
  <2>1. s # <<>>
    BY DEF IsChain
  <2> QED BY <1>1, <2>1, RestHas
<1>3. /\ parent'[current] = None /\ \A d \in Context \ {current} : parent'[d] = parent[d]
      /\ current \in Context /\ Co \subseteq Context /\ Root \in Context
  BY TypedIs, Ranges DEF Typed
<1> HIDE DEF t
<1>4. t # <<>> /\ t[1] = Root /\ t[Len(t)] = current'
  <2>1. 1 \in 1 .. Len(s) - 1 /\ Len(s) - 1 \in 1 .. Len(s) - 1
    BY <1>1
  <2> QED BY <1>1, <1>2, <2>1
<1>5. \A i \in 1 .. Len(s) - 1 : s[i] # current /\ s[i] \in Context
  <2>1. \A i \in 1 .. Len(s) - 1 : i \in 1 .. Len(s) /\ Len(s) \in 1 .. Len(s) /\ i # Len(s)
    BY <1>1
  <2> QED BY <1>1, <2>1
<1>6. ASSUME NEW i \in 1 .. Len(t) - 1
      PROVE  parent'[t[i + 1]] = t[i]
  <2>1. /\ i + 1 \in 2 .. Len(s) /\ i + 1 \in 1 .. Len(s) - 1 /\ i \in 1 .. Len(s) - 1
        /\ i + 1 - 1 = i
    BY <1>1, <1>2
  <2>2. parent[s[i + 1]] = s[i]
    BY <1>1, <2>1
  <2> QED BY <1>2, <1>3, <1>5, <2>1, <2>2
<1>7. ASSUME NEW i \in 1 .. Len(t), NEW j \in 1 .. Len(t), t[i] = t[j]
      PROVE  i = j
  <2>1. i \in 1 .. Len(s) - 1 /\ j \in 1 .. Len(s) - 1 /\ i \in 1 .. Len(s) /\ j \in 1 .. Len(s)
    BY <1>1, <1>2
  <2> QED BY <1>1, <1>2, <1>7, <2>1
<1>8. ASSUME NEW d \in Co, parent'[d] # None
      PROVE  (\E i \in 1 .. Len(t) : t[i] = d) /\ state'[d] # "none"
  <2>1. d # current /\ d \in Context /\ parent[d] # None
    BY <1>3, <1>8
  <2>2. PICK i \in 2 .. Len(s) : s[i] = d
    BY <1>1, <2>1
  <2>3. i \in 1 .. Len(s) - 1 /\ i \in 1 .. Len(t)
    BY <1>1, <1>2, <2>1, <2>2
  <2> QED BY <1>1, <1>2, <2>1, <2>2, <2>3
<1>9. parent'[Root] = None
  BY <1>1, <1>3
<1>10. IsChain(t)'
  BY <1>4, <1>6, <1>7, <1>8, <1>9 DEF IsChain
<1> QED BY <1>2, <1>10 DEF t

(* Waiting is the least set with the current context in it that parents do *)
(* not lead out of: what is on the chain.                                  *)
LEMMA WaitingIs ==
  ASSUME TypeOK, NEW s \in Seq(Context), IsChain(s)
  PROVE  Waiting = {s[i] : i \in 1 .. Len(s)}
<1> DEFINE R == {s[i] : i \in 1 .. Len(s)}
<1>1. /\ Len(s) \in Nat \ {0} /\ \A i \in 1 .. Len(s) : s[i] \in Context
      /\ \A i \in 2 .. Len(s) : parent[s[i]] = s[i - 1]
      /\ s[1] = Root /\ s[Len(s)] = current /\ parent[Root] = None /\ None \notin Context
  BY ChainHas
<1>2. R \in SUBSET Context /\ current \in R
  <2>1. Len(s) \in 1 .. Len(s)
    BY <1>1
  <2> QED BY <1>1, <2>1
<1>3. ASSUME NEW o \in R PROVE parent[o] \in R \cup {None}
  <2>1. PICK i \in 1 .. Len(s) : s[i] = o
    OBVIOUS
  <2>2. i = 1 \/ (i \in 2 .. Len(s) /\ i - 1 \in 1 .. Len(s))
    BY <1>1
  <2> QED BY <1>1, <2>1, <2>2
<1>4. ASSUME NEW S \in SUBSET Context, current \in S, \A o \in S : parent[o] \in S \cup {None}
      PROVE  R \subseteq S
  <2> DEFINE Out == {k \in Nat : k < Len(s) /\ s[Len(s) - k] \notin S}
  <2>1. SUFFICES ASSUME NEW i \in 1 .. Len(s), s[i] \notin S PROVE FALSE
    OBVIOUS
  <2>2. Len(s) - i \in Out
    <3>1. Len(s) - i \in Nat /\ Len(s) - i < Len(s) /\ Len(s) - (Len(s) - i) = i
      BY <1>1
    <3> QED BY <2>1, <3>1
  <2>3. Out \in SUBSET Nat /\ Out # {}
    BY <2>2
  <2>4. PICK k \in Out : \A m \in Out : k <= m
    <3> HIDE DEF Out
    <3> QED BY <2>3, SmallestNat
  <2>5. k \in Nat /\ k < Len(s) /\ s[Len(s) - k] \notin S
    OBVIOUS
  <2>6. k # 0
    <3>1. Len(s) - 0 = Len(s)
      BY <1>1
    <3> QED BY <1>1, <1>4, <2>5, <3>1
  <2>7. k - 1 \in Nat /\ k - 1 < Len(s) /\ ~(k <= k - 1)
    BY <1>1, <2>5, <2>6
  <2>8. s[Len(s) - (k - 1)] \in S
    BY <2>4, <2>7
  <2>9. Len(s) - (k - 1) \in 2 .. Len(s) /\ Len(s) - (k - 1) - 1 = Len(s) - k
        /\ Len(s) - k \in 1 .. Len(s)
    BY <1>1, <2>5, <2>6
  <2>10. parent[s[Len(s) - (k - 1)]] = s[Len(s) - k] /\ s[Len(s) - k] \in Context
    BY <1>1, <2>9
  <2>11. s[Len(s) - k] \in S \cup {None}
    BY <1>4, <2>8, <2>10
  <2> QED BY <1>1, <2>5, <2>10, <2>11
<1> HIDE DEF R
<1>5. Waiting \subseteq R
  BY <1>2, <1>3 DEF Waiting
<1>6. R \subseteq Waiting
  BY <1>2, <1>4 DEF Waiting
<1> QED BY <1>5, <1>6 DEF R

(* There is only one chain.                                                *)
LEMMA ChainUnique ==
  ASSUME TypeOK, NEW x, parent[Root] = None,
         NEW s \in Seq(Context), s # <<>>, s[1] = Root, s[Len(s)] = x,
         \A i \in 1 .. Len(s) - 1 : parent[s[i + 1]] = s[i],
         NEW t \in Seq(Context), t # <<>>, t[1] = Root, t[Len(t)] = x,
         \A i \in 1 .. Len(t) - 1 : parent[t[i + 1]] = t[i],
         Len(s) <= Len(t)
  PROVE  s = t
<1> DEFINE n == Len(s)  m == Len(t)
           Apart == {k \in Nat : k < n /\ s[n - k] # t[m - k]}
<1>1. n \in Nat \ {0} /\ m \in Nat \ {0} /\ n <= m
  OBVIOUS
<1>2. ASSUME NEW k \in Nat, k < n PROVE s[n - k] = t[m - k]
  <2>1. SUFFICES ASSUME Apart # {} PROVE FALSE
    BY <1>2
  <2>2. Apart \in SUBSET Nat
    OBVIOUS
  <2>3. PICK k1 \in Apart : \A k2 \in Apart : k1 <= k2
    <3> HIDE DEF Apart
    <3> QED BY <2>1, <2>2, SmallestNat
  <2>4. k1 \in Nat /\ k1 < n /\ s[n - k1] # t[m - k1]
    OBVIOUS
  <2>5. k1 # 0
    <3>1. n - 0 = n /\ m - 0 = m
      BY <1>1
    <3> QED BY <2>4, <3>1
  <2>6. k1 - 1 \in Nat /\ k1 - 1 < n /\ ~(k1 <= k1 - 1)
    BY <1>1, <2>4, <2>5
  <2>7. s[n - (k1 - 1)] = t[m - (k1 - 1)]
    BY <2>3, <2>6
  <2>8. /\ n - k1 \in 1 .. n - 1 /\ n - (k1 - 1) = n - k1 + 1
        /\ m - k1 \in 1 .. m - 1 /\ m - (k1 - 1) = m - k1 + 1
    BY <1>1, <2>4, <2>5
  <2> QED BY <2>4, <2>7, <2>8
<1>3. n = m
  <2>1. SUFFICES ASSUME n < m PROVE FALSE
    BY <1>1
  <2>2. n - 1 \in Nat /\ n - 1 < n /\ n - (n - 1) = 1 /\ m - (n - 1) = m - n + 1 /\ m - n \in 1 .. m - 1
        /\ m - n \in 1 .. m
    BY <1>1, <2>1
  <2>3. t[m - n + 1] = Root
    BY <1>2, <2>2
  <2>4. t[m - n] = None /\ t[m - n] \in Context
    BY <2>2, <2>3
  <2> QED BY <2>4, Ranges
<1>4. ASSUME NEW i \in 1 .. n PROVE s[i] = t[i]
  <2>1. n - i \in Nat /\ n - i < n /\ n - (n - i) = i /\ m - (n - i) = i
    BY <1>1, <1>3
  <2> QED BY <1>2, <2>1
<1> HIDE DEF n, m
<1> QED BY <1>3, <1>4, SeqEqual DEF n, m

LEMMA NotActive ==
  ASSUME TypeOK, NEW s \in Seq(Context), IsChain(s), NEW c \in Co, state[c] = "none" \/ parent[c] = None
  PROVE  parent[c] = None /\ c # current /\ c # Root /\ c \in Context /\ \A i \in 1 .. Len(s) : s[i] # c
<1>1. c \in Context /\ c # Root
  BY Ranges
<1>2. parent[c] = None
  BY <1>1, ChainHas
<1>3. \A i \in 1 .. Len(s) : s[i] # c
  BY <1>2, ChainHas
<1>4. Len(s) \in 1 .. Len(s) /\ s[Len(s)] = current
  <2>1. Len(s) \in Nat \ {0} /\ s[Len(s)] = current
    BY ChainHas
  <2> QED BY <2>1
<1> QED BY <1>1, <1>2, <1>3, <1>4

(* What every action does to the chain of contexts.                        *)
LEMMA ResumeChains ==
  ASSUME TypeOK, NEW s \in Seq(Context), IsChain(s), NEW c \in Co,
         Resume(c) \/ CreateNativeCoroutine(c)
  PROVE  IsChain(Append(s, c))' /\ Append(s, c) \in Seq(Context) /\ c # current /\ parent[c] = None
<1>1. parent[c] = None /\ c # current /\ c \in Context
  BY NotActive DEF Resume, CreateNativeCoroutine
<1>2. /\ parent' = [parent EXCEPT ![c] = current] /\ current' = c
      /\ \E x \in {"running", "created"} : state' = [state EXCEPT ![c] = x]
  BY DEF Resume, CreateNativeCoroutine
<1>3. state'[c] # "none" /\ \A d \in Context \ {c} : state'[d] = state[d]
  BY <1>1, <1>2, TypedIs DEF Typed
<1> QED BY <1>1, <1>2, <1>3, ChainResumed

LEMMA GiveWayChains ==
  ASSUME TypeOK, NEW s \in Seq(Context), IsChain(s), Finish \/ Yield \/ NativeCoroutineReturns
  PROVE  IsChain(Rest(s))' /\ Rest(s) \in Seq(Context) /\ parent[current] # None
<1>1. /\ parent[current] # None /\ current' = parent[current]
      /\ parent' = [parent EXCEPT ![current] = None]
  BY DEF Finish, Yield, NativeCoroutineReturns, SwitchToParent, PopExecutionContext
<1>2. ASSUME NEW d \in Context \ {current} PROVE state'[d] = state[d]
  BY TypedIs DEF Typed, Finish, Yield, NativeCoroutineReturns, Unfinished
<1>3. \A d \in Context \ {current} : state[d] # "none" => state'[d] # "none"
  BY <1>2
<1> QED BY <1>1, <1>3, ChainPopped

LEMMA ClearChains ==
  ASSUME TypeOK, NEW s \in Seq(Context), IsChain(s), ClearReplErrorState
  PROVE  IsChain(<<Root>>)' /\ <<Root>> \in Seq(Context)
<1>1. Root \in Context /\ Co \subseteq Context /\ <<Root>> \in Seq(Context)
  BY Ranges
<1>2. \A c \in Context : parent[c] # None => c \in Waiting
  <2>1. ASSUME NEW c \in Context, parent[c] # None PROVE c \in {s[i] : i \in 1 .. Len(s)}
    <3>1. Len(s) \in Nat \ {0} /\ \E i \in 2 .. Len(s) : s[i] = c
      BY <2>1, ChainHas
    <3> QED BY <3>1
  <2> QED BY <2>1, WaitingIs
<1>3. \A c \in Context : parent'[c] = None
  BY <1>2 DEF ClearReplErrorState
<1>4. current' = Root
  BY DEF ClearReplErrorState
<1> DEFINE t == <<Root>>
<1>5. t # <<>> /\ Len(t) = 1 /\ t[1] = Root
  OBVIOUS
<1> HIDE DEF t
<1>6. IsChain(t)'
  BY <1>1, <1>3, <1>4, <1>5 DEF IsChain
<1> QED BY <1>1, <1>6 DEF t

LEMMA OtherChains ==
  ASSUME TypeOK, NEW s \in Seq(Context), IsChain(s),
         \/ \E d \in 0 .. DepthBound : Compute(d)
         \/ CallFunction \/ Return \/ CallNative \/ RuntimeError
         \/ \E c \in Co : CreateCoroutine(c) \/ ResumeFinished(c) \/ Collect(c)
         \/ CallBack \/ CallBackNative \/ FunctionReturned \/ FunctionFailed
         \/ NativeReturns \/ NativeError \/ HostCall \/ UNCHANGED vars
  PROVE  IsChain(s)'
<1>1. parent' = parent /\ current' = current
  BY DEF Compute, CallFunction, Return, CallNative, RuntimeError, CreateCoroutine, ResumeFinished,
         Collect, CallBack, CallBackNative, FunctionReturned, FunctionFailed, NativeReturns,
         NativeError, HostCall, vars
<1>2. ASSUME NEW d \in Co, parent[d] # None, state[d] # "none" PROVE state'[d] # "none"
  <2>1. d \in Context
    BY Ranges
  <2>2. CASE \E c \in Co : CreateCoroutine(c)
    BY <1>2, <2>1, <2>2, TypedIs DEF CreateCoroutine, Typed
  <2>3. CASE \E c \in Co : Collect(c)
    BY <1>2, <2>1, <2>3, TypedIs DEF Collect, Typed
  <2>4. CASE state' = state
    BY <1>2, <2>4
  <2> QED BY <2>2, <2>3, <2>4
      DEF Compute, CallFunction, Return, CallNative, RuntimeError, ResumeFinished,
          CallBack, CallBackNative, FunctionReturned, FunctionFailed, NativeReturns,
          NativeError, HostCall, vars
<1> QED BY <1>1, <1>2, ChainKept

LEMMA NextIs ==
  ASSUME [Next]_vars
  PROVE  \/ \E d \in 0 .. DepthBound : Compute(d)
         \/ CallFunction \/ Return \/ CallNative \/ RuntimeError
         \/ \E c \in Co : CreateCoroutine(c) \/ ResumeFinished(c) \/ Collect(c)
         \/ CallBack \/ CallBackNative \/ FunctionReturned \/ FunctionFailed
         \/ NativeReturns \/ NativeError \/ HostCall \/ UNCHANGED vars
         \/ Finish \/ Yield \/ NativeCoroutineReturns \/ ClearReplErrorState
         \/ \E c \in Co : Resume(c) \/ CreateNativeCoroutine(c)
BY DEF Next, Script, NativeCode, Host

LEMMA ChainStep ==
  ASSUME TypeOK, NEW s \in Seq(Context), IsChain(s), [Next]_vars
  PROVE  \E t \in Seq(Context) : IsChain(t)'
BY NextIs, ResumeChains, GiveWayChains, ClearChains, OtherChains

LEMMA TypeStep ==
  ASSUME TypeOK, NEW s \in Seq(Context), IsChain(s), [Next]_vars
  PROVE  TypeOK'
<1>1. parent[current] # current
  BY ChainHas
<1>2. \A c \in Co : CreateCoroutine(c) \/ Resume(c) \/ CreateNativeCoroutine(c) => c # current
  BY NotActive DEF CreateCoroutine, Resume, CreateNativeCoroutine
<1>3. CASE UNCHANGED vars
  <2>1. Typed'
    BY <1>3, TypedIs DEF Typed, vars, errorVars
  <2> QED BY <2>1, TypedStep DEF Typed
<1>4. CASE \E d \in 0 .. DepthBound : Compute(d)
  BY <1>4, ComputeDoes
<1>5. CASE \E c \in Co : \/ CreateCoroutine(c) \/ ResumeFinished(c) \/ Collect(c)
                         \/ Resume(c) \/ CreateNativeCoroutine(c)
  BY <1>2, <1>5, CreateCoroutineDoes, ResumeFinishedDoes, CollectDoes, ResumeDoes, CreateNativeCoroutineDoes
<1>6. CASE CallFunction \/ Return \/ CallNative \/ RuntimeError
  BY <1>6, CallFunctionDoes, ReturnDoes, CallNativeDoes, RuntimeErrorDoes
<1>7. CASE Finish \/ Yield \/ NativeCoroutineReturns \/ ClearReplErrorState
  BY <1>1, <1>7, FinishDoes, YieldDoes, NativeCoroutineReturnsDoes, ClearReplErrorStateDoes
<1>8. CASE \/ CallBack \/ CallBackNative \/ FunctionReturned \/ FunctionFailed
           \/ NativeReturns \/ NativeError \/ HostCall
  BY <1>8, CallBackDoes, CallBackNativeDoes, FunctionReturnedDoes, FunctionFailedDoes,
     NativeReturnsDoes, NativeErrorDoes, HostCallDoes
<1> QED BY <1>3, <1>4, <1>5, <1>6, <1>7, <1>8, NextIs

ChainInv == TypeOK /\ \E s \in Seq(Context) : IsChain(s)

LEMMA InitChains == Init => TypeOK /\ IsChain(<<Root>>)
<1> SUFFICES ASSUME Init PROVE TypeOK /\ IsChain(<<Root>>)
  OBVIOUS
<1>1. Root \in Context /\ Start \in Address /\ Co \subseteq Context /\ Empty \in Stacks /\ None \notin Context /\ Root \notin Co
  BY Ranges, EmptyIs
<1>2. Typed
  <2>1. frames \in [Context -> Stacks] /\ ip \in [Context -> Address]
    BY <1>1 DEF Init
  <2>2. parent \in [Context -> Context \cup {None}] /\ state \in [Context -> States]
    BY DEF Init, States
  <2>3. current \in Context /\ struck \in SUBSET Co
    BY <1>1 DEF Init
  <2>4. failed \in BOOLEAN
    BY DEF Init
  <2>5. native \in Seq(Calls)
    BY DEF Init
  <2> QED BY <2>1, <2>2, <2>3, <2>4, <2>5 DEF Typed
<1> DEFINE t == <<Root>>
<1>3. t # <<>> /\ Len(t) = 1 /\ t[1] = Root
  OBVIOUS
<1>4. current = Root /\ \A c \in Context : parent[c] = None
  BY DEF Init
<1> HIDE DEF t
<1>5. IsChain(t)
  BY <1>1, <1>3, <1>4 DEF IsChain
<1> QED BY <1>2, <1>5, TypedIs DEF t

LEMMA ChainInvariant == Spec => []ChainInv
<1>1. Init => ChainInv
  <2>1. <<Root>> \in Seq(Context)
    BY Ranges
  <2> QED BY <2>1, InitChains DEF ChainInv
<1>2. ChainInv /\ [Next]_vars => ChainInv'
  <2> SUFFICES ASSUME ChainInv, [Next]_vars PROVE ChainInv'
    OBVIOUS
  <2>1. PICK s \in Seq(Context) : IsChain(s)
    BY DEF ChainInv
  <2>2. TypeOK /\ TypeOK'
    BY <2>1, TypeStep DEF ChainInv
  <2>3. PICK t \in Seq(Context) : IsChain(t)'
    BY <2>1, <2>2, ChainStep
  <2> QED BY <2>2, <2>3 DEF ChainInv
<1> QED BY <1>1, <1>2, PTL DEF Spec

(* The variables are of their types: whatever the program does, no stack   *)
(* becomes empty, no frame has fewer values than none, and pointers are    *)
(* in the program or at one of its two ends (nkvm.c, nkfunc.c, nkcorout.c).*)
THEOREM TypesAreKept == Spec => []TypeOK
<1>1. ChainInv => TypeOK
  BY DEF ChainInv
<1> QED BY <1>1, ChainInvariant, PTL

(* The contexts that wait for one another are one chain from the current   *)
(* context to the root, with every context in it that was resumed and none *)
(* twice (nkiVmPushExecutionContext, nkiVmPopExecutionContext), also in    *)
(* the programs that do what is unusual.                                   *)
THEOREM ContextsWaitInOneChain == Spec => []OneChain
<1>1. ChainInv => OneChain
  <2> SUFFICES ASSUME ChainInv PROVE OneChain
    OBVIOUS
  <2>1. PICK s \in Seq(Context) : IsChain(s)
    BY DEF ChainInv
  <2>2. TypeOK /\ Waiting = {s[i] : i \in 1 .. Len(s)}
    BY <2>1, WaitingIs DEF ChainInv
  <2>3. /\ Len(s) \in Nat \ {0}
        /\ \A i \in 2 .. Len(s) : s[i] \in Co /\ parent[s[i]] = s[i - 1]
        /\ \A i \in 1 .. Len(s) : s[i] \in Context
        /\ \A c \in Context : parent[c] # None => \E i \in 2 .. Len(s) : s[i] = c
        /\ \A c \in Co : parent[c] = None => \A i \in 1 .. Len(s) : s[i] # c
        /\ \A i, j \in 1 .. Len(s) : s[i] = s[j] => i = j
        /\ s[1] = Root /\ parent[Root] = None /\ None \notin Context /\ Co \subseteq Context
    BY <2>1, <2>2, ChainHas, Ranges
  <2>4. Root \in Waiting
    <3>1. 1 \in 1 .. Len(s)
      BY <2>3
    <3> QED BY <2>2, <2>3, <3>1
  <2>5. \A c \in Co : parent[c] # None <=> c \in Waiting
    <3>1. \A i \in 2 .. Len(s) : i \in 1 .. Len(s)
      BY <2>3
    <3> QED BY <2>2, <2>3, <3>1
  <2>6. ASSUME NEW i \in 1 .. Len(s), NEW j \in 1 .. Len(s), parent[s[i]] = parent[s[j]]
        PROVE  s[i] = s[j]
    <3>1. /\ i = 1 \/ (i \in 2 .. Len(s) /\ i - 1 \in 1 .. Len(s))
          /\ j = 1 \/ (j \in 2 .. Len(s) /\ j - 1 \in 1 .. Len(s))
      BY <2>3
    <3>2. CASE i = 1 \/ j = 1
      BY <2>3, <2>6, <3>1, <3>2
    <3>3. CASE i # 1 /\ j # 1
      <4>1. s[i - 1] = s[j - 1]
        BY <2>3, <2>6, <3>1, <3>3
      <4>2. i - 1 = j - 1
        BY <2>3, <3>1, <3>3, <4>1
      <4>3. i = j
        BY <3>1, <3>3, <4>2
      <4> QED BY <4>3
    <3> QED BY <3>2, <3>3
  <2>7. \A c, d \in Waiting : parent[c] = parent[d] => c = d
    BY <2>2, <2>6
  <2> QED BY <2>4, <2>5, <2>7 DEF OneChain
<1> QED BY <1>1, ChainInvariant, PTL

(***************************************************************************)
(* The inductive invariant.                                                *)
(*                                                                         *)
(* StackAsCompiled is about the current context while a script runs in it. *)
(* To know that it holds there after a return, a yield, a resume or the    *)
(* end of a native call, every pointer that is kept somewhere must fit the *)
(* stack it will be used with: the addresses in frames (FrameOK), the      *)
(* pointers of contexts that are suspended (Suspended) or wait for the one *)
(* they resumed (WaitingOK), and those that native calls have saved        *)
(* (LevelOK), which are found again through the NativeReturn addresses in  *)
(* frames.  After an error little of this is true until the error is       *)
(* cleared: Sound is what is always true, Calm what is true without one.   *)
(***************************************************************************)
(* The programs that do nothing unusual: the native function of a          *)
(* coroutine does not call back, no coroutine of a native function is      *)
(* resumed, and none yields across native code.                            *)
Usual == Unusual = {}

(* The current context, and those that wait.                               *)
OnChain(c) == c = Root \/ parent[c] # None

(* The pointer a fits a context c with n frames, the last of them d deep.  *)
Fits(c, a, n, d) ==
  /\ a \in Point /\ a.depth = d
  /\ a.code = "main" <=> n = 1
  /\ a.code = "main" => c = Root

(* The bottom of a stack holds no address, and that of a coroutine's       *)
(* function says that it finishes there; every other address a frame holds *)
(* is one of native code or fits the frame below it.                       *)
FrameOK(c, s) ==
  \A i \in 1 .. Len(s) :
    /\ s[i].ret = Invalid <=> i = 1 \/ (i = 2 /\ c # Root)
    /\ s[i].ret \in Point => Fits(c, s[i].ret, i - 1, s[i - 1].depth + 1)

FramesOK == \A c \in Context : FrameOK(c, frames[c])

(* What a coroutine that does not run is found like when it is resumed.    *)
Suspended(c) ==
  /\ state[c] = "created" /\ ip[c] # Invalid =>
       Len(frames[c]) = 2 /\ Fits(c, ip[c], 2, Top(frames[c]).depth)
  /\ state[c] = "running" =>
       /\ Len(frames[c]) > 1 /\ ~ AwaitedIn(c)
       /\ Fits(c, ip[c], Len(frames[c]), Top(frames[c]).depth + 1)

SuspendedOK == \A c \in Co : parent[c] = None => Suspended(c)

(* A native function is called in the coroutine it is to become.           *)
Creating == native # <<>> /\ Top(native).kind = "create"

ActiveOK ==
  \A c \in Co : parent[c] # None =>
    state[c] = "running" \/ (state[c] = "created" /\ Creating /\ c = current)

CreateOK ==
  \A i \in 1 .. Len(native) : native[i].kind = "create" =>
    /\ i = Len(native) /\ ~ native[i].loop /\ native[i].height = 1
    /\ native[i].home = current /\ current \in Co
    /\ state[current] = "created" /\ Len(frames[current]) = 1 /\ ip[current] = Invalid

(* What was active when an error occurred is, or is yet to be, invalid.    *)
StruckOK == \A c \in struck : state[c] = "invalid" \/ (failed /\ parent[c] # None)

(* Native calls: from the same frame; one whose frame has called a function *)
(* that will return to native code; the pointer it goes on with; and what  *)
(* the last one does.                                                      *)
SamePlace(i, j) == native[i].home = native[j].home /\ native[i].height = native[j].height
Open(i) ==
  /\ Len(frames[native[i].home]) > native[i].height
  /\ frames[native[i].home][native[i].height + 1].ret = NativeReturn
Resumes(i) == IF native[i].loop THEN native[i].old ELSE ip[current]
BackIn == native # <<>> /\ Top(native).loop /\ ip[current] = Invalid
Scripted == native # <<>> => Top(native).loop /\ ip[current] # Invalid

CurrentOK == Scripted => Fits(current, ip[current], Len(frames[current]), Top(frames[current]).depth)

(* A context that waits gets a value when it goes on, but for the one that *)
(* creates a native coroutine, which has got it.                           *)
WaitingOK(s) ==
  \A i \in 1 .. Len(s) - 1 :
    Fits(s[i], ip[s[i]], Len(frames[s[i]]),
         Top(frames[s[i]]).depth + IF Creating /\ i = Len(s) - 1 THEN 0 ELSE 1)

(* All native calls but the last are in a loop, and the host's is the first. *)
KindsOK ==
  \A i \in 1 .. Len(native) :
    /\ i < Len(native) => native[i].loop
    /\ native[i].kind = "host" => i = 1 /\ native[i].loop
    /\ OnChain(native[i].home)

(* Native calls are in the order of the frames they were made from: along  *)
(* the chain, and up each stack.                                           *)
Ordered(s, i, j) ==
  \A p, q \in 1 .. Len(s) : native[i].home = s[p] /\ native[j].home = s[q] =>
    p <= q /\ (p = q => native[i].height <= native[j].height)

OrderOK(s) ==
  \A i, j \in 1 .. Len(native) : i < j => (Open(i) \/ SamePlace(i, j)) /\ Ordered(s, i, j)

(* While a script runs the last native call waits for a function, and else *)
(* native code is where it was called.                                     *)
TopOK ==
  native # <<>> =>
    IF Scripted THEN Open(Len(native))
    ELSE Top(native).home = current /\ Top(native).height = Len(frames[current])

(* Of the native calls from one frame the first goes on in the program;    *)
(* the others, called back by the one before, at the end of it.            *)
ResumesOK ==
  \A j \in 1 .. Len(native) :
    \/ /\ Resumes(j) \in Point \/ native[j].kind = "create"
       /\ j > 1 => ~ SamePlace(j - 1, j)
    \/ Resumes(j) = NativeReturn /\ j > 1 /\ SamePlace(j - 1, j)

(* The pointer of the first fits the frame without what the others are     *)
(* still to return.                                                        *)
Level(i, j, above) ==
  Fits(native[i].home, Resumes(i), native[i].height,
       frames[native[i].home][native[i].height].depth - (j - i) - above)

LevelOK ==
  \A i, j \in 1 .. Len(native) :
    i <= j /\ SamePlace(i, j) /\ Resumes(i) \in Point /\ (j < Len(native) => ~ SamePlace(j, j + 1)) =>
      Level(i, j, IF j = Len(native) /\ BackIn THEN 1 ELSE 0)

(* There is a first one.                                                   *)
BaseOK ==
  \A j \in 1 .. Len(native) : native[j].kind # "create" =>
    \E i \in 1 .. j : SamePlace(i, j) /\ Resumes(i) \in Point

(* Some native call waits at every frame that returns to native code.      *)
AwaitedOK ==
  \A c \in Context : OnChain(c) =>
    \A g \in 1 .. Len(frames[c]) - 1 : frames[c][g + 1].ret = NativeReturn =>
      \E i \in 1 .. Len(native) : native[i].home = c /\ native[i].height = g

NativeOK(s) == KindsOK /\ OrderOK(s) /\ TopOK /\ ResumesOK /\ LevelOK /\ BaseOK

Calm(s) == CurrentOK /\ WaitingOK(s) /\ NativeOK(s) /\ AwaitedOK

Sound == FramesOK /\ SuspendedOK /\ ActiveOK /\ CreateOK /\ StruckOK

IInv(s) == TypeOK /\ IsChain(s) /\ Sound /\ (~ failed => Calm(s))

(* Frames.                                                                 *)
SameBelow(s, t) ==
  /\ Len(t) = Len(s)
  /\ \A i \in 1 .. Len(s) : t[i].ret = s[i].ret
  /\ \A i \in 1 .. Len(s) - 1 : t[i] = s[i]

LEMMA FrameSame ==
  ASSUME NEW s \in Stacks, NEW t \in Stacks, NEW c, FrameOK(c, s), SameBelow(s, t)
  PROVE  FrameOK(c, t)
<1>1. Len(s) \in Nat \ {0} /\ Len(t) = Len(s)
  BY StackHas DEF SameBelow
<1>2. ASSUME NEW i \in 1 .. Len(t)
      PROVE  /\ t[i].ret = Invalid <=> i = 1 \/ (i = 2 /\ c # Root)
             /\ t[i].ret \in Point => Fits(c, t[i].ret, i - 1, t[i - 1].depth + 1)
  <2>1. /\ i \in 1 .. Len(s) /\ t[i].ret = s[i].ret
        /\ s[i].ret = Invalid <=> i = 1 \/ (i = 2 /\ c # Root)
        /\ s[i].ret \in Point => Fits(c, s[i].ret, i - 1, s[i - 1].depth + 1)
    BY <1>1 DEF SameBelow, FrameOK
  <2>2. CASE i = 1
    BY <2>1, <2>2, PointHas
  <2>3. CASE i # 1
    <3>1. i - 1 \in 1 .. Len(s) - 1
      BY <1>1, <2>1, <2>3
    <3>2. t[i - 1] = s[i - 1]
      BY <3>1 DEF SameBelow
    <3> QED BY <2>1, <3>2
  <2> QED BY <2>2, <2>3
<1> QED BY <1>2 DEF FrameOK

LEMMA FrameGrown ==
  ASSUME NEW s \in Stacks, NEW t \in Stacks, NEW c, FrameOK(c, s), NEW n, IsGrown(s, t, n)
  PROVE  FrameOK(c, t)
BY FrameSame DEF IsGrown, SameBelow

LEMMA FrameCalled ==
  ASSUME NEW s \in Stacks, NEW t \in Stacks, NEW c, FrameOK(c, s), NEW a, IsCalled(s, t, a),
         \/ a = NativeReturn /\ (c # Root => Len(s) > 1)
         \/ a \in Point /\ Fits(c, a, Len(s), Top(s).depth + 1) /\ (c # Root => Len(s) > 1)
         \/ a = Invalid /\ c # Root /\ Len(s) = 1
  PROVE  FrameOK(c, t)
<1>1. Len(s) \in Nat \ {0} /\ Len(t) = Len(s) + 1 /\ Top(s) = s[Len(s)] /\ NativeReturn # Invalid
  BY StackHas, ContextAssumption DEF IsCalled
<1>2. t[Len(s) + 1].ret = a
  BY DEF IsCalled
<1>3. ASSUME NEW i \in 1 .. Len(t)
      PROVE  /\ t[i].ret = Invalid <=> i = 1 \/ (i = 2 /\ c # Root)
             /\ t[i].ret \in Point => Fits(c, t[i].ret, i - 1, t[i - 1].depth + 1)
  <2>1. CASE i = Len(s) + 1
    <3>1. t[i].ret = a /\ i - 1 = Len(s) /\ t[i - 1] = s[Len(s)] /\ i # 1
      BY <1>1, <1>2, <2>1 DEF IsCalled
    <3>2. a # Invalid => ~(i = 2 /\ c # Root)
      BY <1>1, <2>1
    <3>3. a = Invalid => i = 2 /\ c # Root
      BY <1>1, <2>1, PointHas
    <3>4. a \in Point => Fits(c, a, i - 1, t[i - 1].depth + 1)
      BY <1>1, <3>1, PointHas
    <3> QED BY <3>1, <3>2, <3>3, <3>4
  <2>2. CASE i # Len(s) + 1
    <3>1. /\ i \in 1 .. Len(s) /\ t[i] = s[i]
          /\ s[i].ret = Invalid <=> i = 1 \/ (i = 2 /\ c # Root)
          /\ s[i].ret \in Point => Fits(c, s[i].ret, i - 1, s[i - 1].depth + 1)
      BY <1>1, <2>2 DEF IsCalled, FrameOK
    <3>2. i # 1 => i - 1 \in 1 .. Len(s)
      BY <3>1
    <3>3. i # 1 => t[i - 1] = s[i - 1]
      BY <3>2 DEF IsCalled
    <3>4. i = 1 => t[i].ret \notin Point
      BY <3>1, PointHas
    <3> QED BY <3>1, <3>3, <3>4
  <2> QED BY <2>1, <2>2
<1> QED BY <1>3 DEF FrameOK

LEMMA FrameReturned ==
  ASSUME NEW s \in Stacks, NEW t \in Stacks, NEW c, FrameOK(c, s),
         Len(t) = Len(s) - 1,
         \A i \in 1 .. Len(s) - 1 : t[i].ret = s[i].ret,
         \A i \in 1 .. Len(s) - 2 : t[i] = s[i]
  PROVE  FrameOK(c, t)
<1>1. Len(s) \in Nat \ {0} /\ Len(t) \in Nat \ {0}
  BY StackHas
<1>2. ASSUME NEW i \in 1 .. Len(t)
      PROVE  /\ t[i].ret = Invalid <=> i = 1 \/ (i = 2 /\ c # Root)
             /\ t[i].ret \in Point => Fits(c, t[i].ret, i - 1, t[i - 1].depth + 1)
  <2>1. /\ i \in 1 .. Len(s) /\ i \in 1 .. Len(s) - 1 /\ t[i].ret = s[i].ret
        /\ s[i].ret = Invalid <=> i = 1 \/ (i = 2 /\ c # Root)
        /\ s[i].ret \in Point => Fits(c, s[i].ret, i - 1, s[i - 1].depth + 1)
    BY <1>1 DEF FrameOK
  <2>2. CASE i = 1
    BY <2>1, <2>2, PointHas
  <2>3. CASE i # 1
    <3>1. i - 1 \in 1 .. Len(s) - 2
      BY <1>1, <2>1, <2>3
    <3>2. t[i - 1] = s[i - 1]
      BY <3>1
    <3> QED BY <2>1, <3>2
  <2> QED BY <2>2, <2>3
<1> QED BY <1>2 DEF FrameOK

LEMMA FrameEmpty == \A c : FrameOK(c, Empty)
<1>1. Len(Empty) = 1 /\ Empty[1].ret = Invalid
  BY EmptyIs
<1>2. \A i \in 1 .. Len(Empty) : i = 1
  BY <1>1
<1>3. Invalid \notin Point
  BY PointHas
<1> QED BY <1>1, <1>2, <1>3 DEF FrameOK

(***************************************************************************)
(* What the actions have in common.                                        *)
(***************************************************************************)
LEMMA NoCreate ==
  ASSUME TypeOK, CreateOK, native # <<>> => Top(native).loop \/ Top(native).kind # "create"
  PROVE  ~ Creating /\ \A i \in 1 .. Len(native) : native[i].kind # "create"
<1>1. native \in Seq(Calls)
  BY TypedIs DEF Typed
<1>2. ASSUME NEW i \in 1 .. Len(native), native[i].kind = "create" PROVE FALSE
  <2>1. i = Len(native) /\ ~ native[i].loop
    BY <1>2 DEF CreateOK
  <2>2. native # <<>> /\ Top(native) = native[i]
    BY <1>1, <2>1 DEF Top
  <2> QED BY <1>2, <2>1, <2>2
<1>3. Creating => \E i \in 1 .. Len(native) : native[i].kind = "create"
  BY <1>1, TopHas DEF Creating
<1> QED BY <1>2, <1>3

LEMMA CreateNone ==
  ASSUME native' \in Seq(Calls), \A i \in 1 .. Len(native') : native'[i].kind # "create"
  PROVE  CreateOK' /\ ~ Creating'
<1>1. CreateOK'
  BY DEF CreateOK
<1>2. native' # <<>> => Top(native)' = native'[Len(native')] /\ Len(native') \in 1 .. Len(native')
  BY DEF Top
<1> QED BY <1>1, <1>2 DEF Creating

LEMMA SuspendedKept ==
  ASSUME NEW c \in Context, frames'[c] = frames[c], ip'[c] = ip[c], state'[c] = state[c], Suspended(c)
  PROVE  Suspended(c)'
BY DEF Suspended, AwaitedIn, Top, Fits

(* An action of the current context alone.                                 *)
LEMMA Quiet ==
  ASSUME TypeOK, TypeOK', NEW s \in Seq(Context), IsChain(s), Sound,
         OthersKept({current}), FrameOK(current, frames'[current]),
         parent' = parent, state' = state, current' = current,
         ~ Creating,
         \A c \in struck' : c \in struck \/ (failed' /\ parent[c] # None), failed => failed'
  PROVE  FramesOK' /\ SuspendedOK' /\ ActiveOK' /\ StruckOK'
<1>1. FramesOK'
  <2>1. ASSUME NEW c \in Context PROVE FrameOK(c, frames'[c])
    BY DEF Sound, FramesOK, OthersKept
  <2> QED BY <2>1 DEF FramesOK, FrameOK, Fits
<1>2. SuspendedOK'
  <2>1. ASSUME NEW c \in Co, parent[c] = None PROVE Suspended(c)'
    <3>1. c \in Context /\ c # current /\ Suspended(c)
      BY <2>1, NotActive DEF Sound, SuspendedOK
    <3> QED BY <3>1, SuspendedKept DEF OthersKept
  <2> QED BY <2>1 DEF SuspendedOK
<1>3. ActiveOK'
  BY DEF ActiveOK, Sound
<1>4. StruckOK'
  BY DEF StruckOK, Sound
<1> QED BY <1>1, <1>2, <1>3, <1>4

(* Entries of native calls and the frames they were called from.           *)
LEMMA NativeHas ==
  ASSUME TypeOK, NEW i \in 1 .. Len(native)
  PROVE  /\ native[i] \in Calls /\ native[i].home \in Context /\ native[i].height \in Nat \ {0}
         /\ native[i].old \in Address /\ native[i].loop \in BOOLEAN
         /\ frames[native[i].home] \in Stacks /\ Len(frames[native[i].home]) \in Nat
         /\ native # <<>> /\ Top(native) = native[Len(native)] /\ Len(native) \in 1 .. Len(native)
<1>1. native \in Seq(Calls)
  BY TypedIs DEF Typed
<1>2. native[i] \in Calls /\ native # <<>>
  BY <1>1
<1>3. native[i].home \in Context
  BY <1>2, CallHas
<1>4. frames[native[i].home] \in Stacks
  BY <1>3, TypedIs DEF Typed
<1>5. Len(frames[native[i].home]) \in Nat
  BY <1>4, StackHas
<1> QED BY <1>1, <1>2, <1>3, <1>4, <1>5, CallHas, TopHas

(* While a script runs every native call in progress waits for a function  *)
(* it called, and all of them are in a loop.                               *)
LEMMA ScriptedHas ==
  ASSUME TypeOK, NEW s, NativeOK(s), Scripted
  PROVE  \A i \in 1 .. Len(native) : Open(i) /\ native[i].loop /\ Resumes(i) = native[i].old
<1> SUFFICES ASSUME NEW i \in 1 .. Len(native)
             PROVE  Open(i) /\ native[i].loop /\ Resumes(i) = native[i].old
  OBVIOUS
<1>1. native # <<>> /\ Top(native) = native[Len(native)] /\ Len(native) \in 1 .. Len(native) /\ native[i] \in Calls
  BY NativeHas
<1>2. Open(Len(native)) /\ native[Len(native)].loop
  BY <1>1 DEF NativeOK, TopOK, Scripted
<1>3. CASE i = Len(native)
  BY <1>2, <1>3 DEF Resumes
<1>4. CASE i # Len(native)
  <2>1. i < Len(native)
    BY <1>1, <1>4
  <2>2. native[i].loop /\ (Open(i) \/ SamePlace(i, Len(native)))
    BY <1>1, <2>1 DEF NativeOK, KindsOK, OrderOK
  <2>3. SamePlace(i, Len(native)) /\ Open(Len(native)) => Open(i)
    BY DEF SamePlace, Open
  <2> QED BY <1>2, <2>2, <2>3 DEF Resumes
<1> QED BY <1>3, <1>4

(* The native calls are as they were when a script goes on as a script and *)
(* none of the frames native code waits for is touched.                    *)
Untouched(i) ==
  LET c == native[i].home
      h == native[i].height IN
  /\ Len(frames'[c]) > h
  /\ frames'[c][h + 1].ret = frames[c][h + 1].ret /\ frames'[c][h].depth = frames[c][h].depth
  /\ c = Root \/ parent'[c] # None

LEMMA NativeKept ==
  ASSUME TypeOK, NEW s \in Seq(Context), NativeOK(s), Scripted, Scripted', native' = native,
         \A i \in 1 .. Len(native) : Untouched(i),
         NEW t \in Seq(Context),
         \A i \in 1 .. Len(native) : \A p \in 1 .. Len(t) :
           t[p] = native[i].home => p \in 1 .. Len(s) /\ s[p] = t[p]
  PROVE  NativeOK(t)'
<1>1. /\ \A i \in 1 .. Len(native) : Open(i) /\ native[i].loop /\ Resumes(i) = native[i].old
      /\ KindsOK /\ OrderOK(s) /\ ResumesOK /\ LevelOK /\ BaseOK
  BY ScriptedHas DEF NativeOK
<1>2. \A i \in 1 .. Len(native) : Open(i)' /\ Resumes(i)' = Resumes(i)
  BY <1>1 DEF Open, Untouched, Resumes
<1>3. \A i, j \in 1 .. Len(native) : SamePlace(i, j)' = SamePlace(i, j)
  BY DEF SamePlace
<1>4. KindsOK'
  BY <1>1 DEF KindsOK, Untouched, OnChain
<1>5. ASSUME NEW i \in 1 .. Len(native), NEW j \in 1 .. Len(native), i < j
      PROVE  Ordered(t, i, j)'
  <2>1. Ordered(s, i, j)
    BY <1>1, <1>5 DEF OrderOK
  <2> QED BY <2>1 DEF Ordered
<1>6. OrderOK(t)'
  BY <1>2, <1>5 DEF OrderOK
<1>7. TopOK'
  BY <1>2, NativeHas DEF TopOK
<1>8. ResumesOK'
  BY <1>1, <1>2, <1>3 DEF ResumesOK, SamePlace
<1>9. ~ BackIn /\ ~ BackIn'
  BY DEF BackIn, Scripted
<1>10. LevelOK'
  <2>1. ASSUME NEW i \in 1 .. Len(native), NEW j \in 1 .. Len(native), i <= j, SamePlace(i, j),
               Resumes(i) \in Point, j < Len(native) => ~ SamePlace(j, j + 1)
        PROVE  Level(i, j, 0)'
    <3>1. Level(i, j, 0)
      BY <1>1, <1>9, <2>1 DEF LevelOK
    <3> QED BY <1>2, <3>1 DEF Level, Untouched, Fits
  <2>2. \A j \in 1 .. Len(native) : j < Len(native) => (SamePlace(j, j + 1)' <=> SamePlace(j, j + 1))
    BY DEF SamePlace
  <2> QED BY <1>2, <1>3, <1>9, <2>1, <2>2 DEF LevelOK
<1>11. BaseOK'
  <2>1. ASSUME NEW j \in 1 .. Len(native), native[j].kind # "create"
        PROVE  \E i \in 1 .. j : SamePlace(i, j)' /\ Resumes(i)' \in Point
    <3>1. PICK i \in 1 .. j : SamePlace(i, j) /\ Resumes(i) \in Point
      BY <1>1, <2>1 DEF BaseOK
    <3>2. i \in 1 .. Len(native)
      BY TypedIs DEF Typed
    <3> QED BY <1>2, <1>3, <3>1, <3>2
  <2> QED BY <2>1 DEF BaseOK
<1> QED BY <1>4, <1>6, <1>7, <1>8, <1>10, <1>11 DEF NativeOK

(***************************************************************************)
(* Steps of a script.                                                      *)
(***************************************************************************)
(* The frames native code waits for are the same in t as in s.             *)
KeepsCalls(s, t) ==
  \A h \in Nat \ {0} :
    /\ h < Len(s) /\ s[h + 1].ret = NativeReturn <=> h < Len(t) /\ t[h + 1].ret = NativeReturn
    /\ h < Len(s) /\ s[h + 1].ret = NativeReturn => t[h].depth = s[h].depth

LEMMA SameKeeps ==
  ASSUME NEW s \in Stacks, NEW t \in Stacks, SameBelow(s, t)
  PROVE  KeepsCalls(s, t)
<1>1. Len(s) \in Nat \ {0} /\ Len(t) = Len(s)
  BY StackHas DEF SameBelow
<1>2. ASSUME NEW h \in Nat \ {0}, h < Len(s)
      PROVE  s[h + 1].ret = t[h + 1].ret /\ t[h] = s[h]
  <2>1. h + 1 \in 1 .. Len(s) /\ h \in 1 .. Len(s) - 1
    BY <1>1, <1>2
  <2> QED BY <2>1 DEF SameBelow
<1> QED BY <1>1, <1>2 DEF KeepsCalls

LEMMA CalledKeeps ==
  ASSUME NEW s \in Stacks, NEW t \in Stacks, NEW a, a # NativeReturn, IsCalled(s, t, a)
  PROVE  KeepsCalls(s, t)
<1>1. Len(s) \in Nat \ {0} /\ Len(t) = Len(s) + 1 /\ t[Len(s) + 1].ret = a
  BY StackHas DEF IsCalled
<1>2. ASSUME NEW h \in Nat \ {0}, h < Len(s)
      PROVE  s[h + 1] = t[h + 1] /\ t[h] = s[h]
  <2>1. h + 1 \in 1 .. Len(s) /\ h \in 1 .. Len(s)
    BY <1>1, <1>2
  <2> QED BY <2>1 DEF IsCalled
<1>3. ASSUME NEW h \in Nat \ {0}, h < Len(t), ~(h < Len(s))
      PROVE  t[h + 1].ret # NativeReturn
  <2>1. h = Len(s)
    BY <1>1, <1>3
  <2> QED BY <1>1, <2>1
<1> QED BY <1>1, <1>2, <1>3 DEF KeepsCalls

LEMMA ReturnedKeeps ==
  ASSUME NEW s \in Stacks, NEW t \in Stacks, Len(s) > 1, IsReturned(s, t), Top(s).ret # NativeReturn
  PROVE  KeepsCalls(s, t)
<1>1. Len(s) \in Nat \ {0} /\ Len(t) = Len(s) - 1 /\ s[Len(s)].ret # NativeReturn
  BY StackHas DEF IsReturned
<1>2. ASSUME NEW h \in Nat \ {0}, h < Len(t)
      PROVE  s[h + 1].ret = t[h + 1].ret /\ t[h] = s[h]
  <2>1. h + 1 \in 1 .. Len(s) - 1 /\ h \in 1 .. Len(s) - 2
    BY <1>1, <1>2
  <2> QED BY <2>1 DEF IsReturned
<1>3. ASSUME NEW h \in Nat \ {0}, h < Len(s), ~(h < Len(t))
      PROVE  s[h + 1].ret # NativeReturn
  <2>1. h + 1 = Len(s)
    BY <1>1, <1>3
  <2> QED BY <1>1, <2>1
<1>4. ASSUME NEW h \in Nat \ {0}, h < Len(t) PROVE h < Len(s)
  BY <1>1, <1>4
<1> QED BY <1>2, <1>3, <1>4 DEF KeepsCalls

LEMMA TypedNext ==
  ASSUME TypeOK'
  PROVE  Typed'
<1>1. TypeOK' <=> Typed'
  BY TypedIs, PTL
<1> QED BY <1>1

LEMMA FitsHas ==
  \A c, a, n, d : Fits(c, a, n, d) /\ c # Root => n # 1
BY DEF Fits

LEMMA OpenIs ==
  ASSUME TypeOK, TypeOK', NEW i \in 1 .. Len(native), Open(i),
         KeepsCalls(frames[native[i].home], frames'[native[i].home]),
         native[i].home = Root \/ parent'[native[i].home] # None
  PROVE  Untouched(i)
<1>1. native[i].height \in Nat \ {0} /\ frames[native[i].home] \in Stacks
  BY NativeHas
<1>2. frames'[native[i].home] \in Stacks
  BY NativeHas, TypedNext DEF Typed
<1>3. /\ native[i].height < Len(frames[native[i].home])
      /\ frames[native[i].home][native[i].height + 1].ret = NativeReturn
  BY <1>1, StackHas DEF Open
<1>4. native[i].height < Len(frames'[native[i].home]) /\ Len(frames'[native[i].home]) \in Nat
  BY <1>1, <1>2, <1>3, StackHas DEF KeepsCalls
<1> QED BY <1>1, <1>3, <1>4 DEF KeepsCalls, Untouched

LEMMA RunningHas ==
  ASSUME TypeOK, NEW s, IInv(s), Running
  PROVE  /\ Scripted /\ ~ failed /\ Calm(s) /\ Sound /\ IsChain(s) /\ ~ Creating
         /\ \A i \in 1 .. Len(native) : native[i].kind # "create"
         /\ ip[current] \in Point /\ Fits(current, ip[current], Len(frames[current]), Top(frames[current]).depth)
         /\ frames[current] \in Stacks /\ Len(frames[current]) \in Nat \ {0} /\ Top(frames[current]).depth \in Nat
         /\ current # Root => Len(frames[current]) > 1
<1>1. ip[current] \in Point /\ ~ failed /\ (native # <<>> => Top(native).loop)
  BY DEF Running
<1>2. Scripted /\ Calm(s) /\ Sound /\ IsChain(s)
  BY <1>1, PointHas DEF Scripted, IInv
<1>3. ~ Creating /\ \A i \in 1 .. Len(native) : native[i].kind # "create"
  BY <1>1, <1>2, NoCreate DEF Sound
<1>4. Fits(current, ip[current], Len(frames[current]), Top(frames[current]).depth)
  BY <1>2 DEF Calm, CurrentOK
<1>5. frames[current] \in Stacks /\ Len(frames[current]) \in Nat \ {0} /\ Top(frames[current]).depth \in Nat
  BY Unpacked
<1>6. ASSUME current # Root PROVE Len(frames[current]) > 1
  <2> DEFINE n == Len(frames[current])
  <2>1. Fits(current, ip[current], n, Top(frames[current]).depth)
    BY <1>4
  <2> HIDE DEF n
  <2>4. n # 1
    BY <1>6, <2>1, FitsHas, Zenon
  <2>2. n \in Nat \ {0}
    BY <1>5 DEF n
  <2>3. n > 1
    BY <2>2, <2>4
  <2> QED BY <2>3 DEF n
<1> QED BY <1>1, <1>2, <1>3, <1>4, <1>5, <1>6

LEMMA LocalStep ==
  ASSUME TypeOK, TypeOK', NEW s \in Seq(Context), IInv(s), Running, ~ failed',
         native' = native, parent' = parent, current' = current,
         KeepsCalls(frames[current], frames'[current]),
         Fits(current, ip'[current], Len(frames'[current]), Top(frames'[current]).depth),
         \A c \in Context \ {current} : OnChain(c) => frames'[c] = frames[c] /\ ip'[c] = ip[c]
  PROVE  Calm(s)'
<1>1. /\ Scripted /\ Calm(s) /\ NativeOK(s) /\ IsChain(s) /\ ~ Creating
      /\ \A i \in 1 .. Len(native) : Open(i)
  BY RunningHas, ScriptedHas DEF Calm
<1>2. current \in Context /\ Typed /\ Typed'
  BY TypedIs, PTL DEF Typed
<1>3. Scripted'
  BY <1>1, PointHas DEF Scripted, Fits, Top
<1>4. CurrentOK'
  BY DEF CurrentOK, Top, Fits
<1>5. ~ Creating'
  BY <1>1 DEF Creating, Top
<1>6. WaitingOK(s)'
  <2>1. ASSUME NEW i \in 1 .. Len(s) - 1
        PROVE  frames'[s[i]] = frames[s[i]] /\ ip'[s[i]] = ip[s[i]]
    <3>1. /\ Len(s) \in Nat /\ \A j \in 1 .. Len(s) : s[j] \in Context /\ s[Len(s)] = current /\ s[1] = Root
          /\ \A j, k \in 1 .. Len(s) : s[j] = s[k] => j = k
          /\ \A j \in 2 .. Len(s) : parent[s[j]] # None
      BY <1>1, ChainHas
    <3>2. i \in 1 .. Len(s) /\ Len(s) \in 1 .. Len(s) /\ i # Len(s) /\ (i = 1 \/ i \in 2 .. Len(s))
      BY <3>1
    <3>3. s[i] \in Context /\ s[i] # current /\ OnChain(s[i])
      BY <3>1, <3>2 DEF OnChain
    <3> QED BY <3>3
  <2> QED BY SMTT(30), <1>1, <1>5, <2>1 DEF Calm, WaitingOK, Fits, Top
<1>7. ASSUME NEW i \in 1 .. Len(native) PROVE Untouched(i)
  <2>1. native[i].home \in Context /\ OnChain(native[i].home) /\ Open(i)
    BY <1>1, NativeHas DEF NativeOK, KindsOK
  <2>2. KeepsCalls(frames[native[i].home], frames'[native[i].home])
    BY <2>1 DEF KeepsCalls
  <2> QED BY <2>1, <2>2, OpenIs DEF OnChain
<1>8. NativeOK(s)'
  <2>1. \A i \in 1 .. Len(native) : \A p \in 1 .. Len(s) : s[p] = native[i].home => p \in 1 .. Len(s) /\ s[p] = s[p]
    OBVIOUS
  <2> QED BY <1>1, <1>3, <1>7, <2>1, NativeKept
<1>9. AwaitedOK'
  <2>1. ASSUME NEW c \in Context, OnChain(c), NEW g \in 1 .. Len(frames'[c]) - 1, frames'[c][g + 1].ret = NativeReturn
        PROVE  \E i \in 1 .. Len(native) : native[i].home = c /\ native[i].height = g
    <3>1. KeepsCalls(frames[c], frames'[c])
      BY <2>1 DEF KeepsCalls
    <3>2. frames[c] \in Stacks /\ frames'[c] \in Stacks
      BY <1>2 DEF Typed
    <3>3. Len(frames[c]) \in Nat /\ Len(frames'[c]) \in Nat
      BY <3>2, StackHas
    <3>4. g \in Nat \ {0} /\ g < Len(frames'[c])
      BY <3>3
    <3>5. g < Len(frames[c]) /\ frames[c][g + 1].ret = NativeReturn
      BY <2>1, <3>1, <3>4 DEF KeepsCalls
    <3>6. g \in 1 .. Len(frames[c]) - 1
      BY <3>3, <3>4, <3>5
    <3> QED BY <1>1, <2>1, <3>5, <3>6 DEF Calm, AwaitedOK
  <2> QED BY <2>1 DEF AwaitedOK, OnChain
<1> QED BY <1>4, <1>6, <1>8, <1>9 DEF Calm

(* A script's step that changes nothing but its own context.               *)
LEMMA OwnStep ==
  ASSUME TypeOK, TypeOK', NEW s \in Seq(Context), IInv(s), Running,
         UNCHANGED <<parent, state, current, native, failed, struck>>, OthersKept({current}),
         FrameOK(current, frames'[current]), KeepsCalls(frames[current], frames'[current]),
         Fits(current, ip'[current], Len(frames'[current]), Top(frames'[current]).depth)
  PROVE  IInv(s)'
<1>1. /\ IsChain(s) /\ Sound /\ ~ failed /\ ~ Creating
      /\ \A i \in 1 .. Len(native) : native[i].kind # "create"
  BY RunningHas
<1>2. IsChain(s)'
  BY <1>1, ChainKept
<1>3. FramesOK' /\ SuspendedOK' /\ ActiveOK' /\ StruckOK'
  BY <1>1, Quiet
<1>4. CreateOK'
  BY <1>1 DEF CreateOK
<1>5. Calm(s)'
  BY <1>1, LocalStep DEF OthersKept
<1> QED BY <1>2, <1>3, <1>4, <1>5 DEF IInv, Sound

LEMMA StacksAre ==
  ASSUME TypeOK, TypeOK'
  PROVE  \A c \in Context : frames[c] \in Stacks /\ frames'[c] \in Stacks
BY TypedIs, TypedNext DEF Typed

LEMMA ComputeInv ==
  ASSUME NEW s \in Seq(Context), IInv(s), NEW d \in 0 .. DepthBound, Compute(d)
  PROVE  IInv(s)'
<1>1. /\ TypeOK /\ Running /\ UNCHANGED <<parent, state, current, native, failed, struck>>
      /\ current \in Context
  BY TypedIs DEF IInv, Compute, errorVars, Typed
<1>2. /\ TypeOK' /\ OthersKept({current})
      /\ IsGrown(frames[current], frames'[current], d - At.depth)
      /\ ip'[current] \in Point /\ ip'[current].depth = d /\ ip'[current].code = At.code
  BY <1>1, ComputeDoes
<1>3. /\ At \in Point /\ Fits(current, At, Len(frames[current]), Top(frames[current]).depth)
      /\ Sound /\ frames[current] \in Stacks /\ frames'[current] \in Stacks
  BY <1>1, <1>2, RunningHas, StacksAre DEF At
<1>4. FrameOK(current, frames'[current])
  BY <1>1, <1>2, <1>3, FrameGrown DEF Sound, FramesOK
<1>5. KeepsCalls(frames[current], frames'[current])
  BY <1>2, <1>3, SameKeeps DEF IsGrown, SameBelow
<1>6. Top(frames'[current]).depth = d
  BY <1>2, <1>3, PointHas DEF IsGrown, Fits
<1>7. Fits(current, ip'[current], Len(frames'[current]), Top(frames'[current]).depth)
  BY <1>2, <1>3, <1>6 DEF IsGrown, Fits
<1> QED BY <1>1, <1>2, <1>4, <1>5, <1>7, OwnStep

LEMMA CallFunctionInv ==
  ASSUME NEW s \in Seq(Context), IInv(s), CallFunction
  PROVE  IInv(s)'
<1>1. /\ TypeOK /\ Running /\ Room /\ UNCHANGED <<parent, state, current, native, failed, struck>>
      /\ current \in Context
  BY TypedIs DEF IInv, CallFunction, errorVars, Typed
<1>2. /\ TypeOK' /\ OthersKept({current})
      /\ IsCalled(frames[current], frames'[current], After(1)) /\ ip'[current] = FunctionStart
  BY CallFunctionDoes DEF IInv
<1>3. /\ After(1) \in Point /\ After(1).code = At.code /\ After(1).depth = At.depth + 1 /\ At = ip[current]
  BY <1>1, AfterIs
<1>4. /\ Fits(current, At, Len(frames[current]), Top(frames[current]).depth)
      /\ Sound /\ frames[current] \in Stacks /\ frames'[current] \in Stacks
      /\ current # Root => Len(frames[current]) > 1
  BY <1>1, <1>2, RunningHas, StacksAre DEF At
<1>5. Fits(current, After(1), Len(frames[current]), Top(frames[current]).depth + 1)
  BY <1>3, <1>4 DEF Fits
<1>6. FrameOK(current, frames'[current])
  BY <1>1, <1>2, <1>3, <1>4, <1>5, FrameCalled DEF Sound, FramesOK
<1>7. KeepsCalls(frames[current], frames'[current])
  BY <1>2, <1>3, <1>4, CalledKeeps, PointHas
<1>8. Fits(current, ip'[current], Len(frames'[current]), Top(frames'[current]).depth)
  <2>1. Len(frames'[current]) # 1 /\ Top(frames'[current]).depth = 0
    BY <1>2, <1>4, StackHas DEF IsCalled
  <2>2. FunctionStart \in Point /\ FunctionStart.depth = 0 /\ FunctionStart.code = "function"
    BY Ranges DEF FunctionStart
  <2> QED BY <1>2, <2>1, <2>2 DEF Fits
<1> QED BY <1>1, <1>2, <1>6, <1>7, <1>8, OwnStep

LEMMA ReturnInv ==
  ASSUME NEW s \in Seq(Context), IInv(s), Return, Top(frames[current]).ret # NativeReturn
  PROVE  IInv(s)'
<1>1. /\ TypeOK /\ Running /\ UNCHANGED <<parent, state, current, native, failed, struck>>
      /\ current \in Context /\ Len(frames[current]) > 1 /\ Top(frames[current]).ret # Invalid
  BY TypedIs DEF IInv, Return, errorVars, Typed
<1>2. /\ TypeOK' /\ OthersKept({current}) /\ IsReturned(frames[current], frames'[current])
      /\ ip'[current] = Incremented(Top(frames[current]).ret)
  BY ReturnDoes DEF IInv
<1>3. /\ Sound /\ frames[current] \in Stacks /\ frames'[current] \in Stacks
      /\ FrameOK(current, frames[current])
  BY <1>1, <1>2, RunningHas, StacksAre DEF Sound, FramesOK
<1> DEFINE n == Len(frames[current])
           a == frames[current][n].ret
<1>4. n \in 1 .. n /\ n \in Nat /\ Top(frames[current]).ret = a /\ a \in Address
  BY <1>3, StackHas DEF Top
<1>5. a \in Point
  BY <1>1, <1>4 DEF Address
<1>6. Fits(current, a, n - 1, frames[current][n - 1].depth + 1)
  BY <1>3, <1>4, <1>5 DEF FrameOK
<1>7. FrameOK(current, frames'[current])
  BY <1>2, <1>3, FrameReturned DEF IsReturned
<1>8. KeepsCalls(frames[current], frames'[current])
  BY <1>1, <1>2, <1>3, ReturnedKeeps
<1>9. ip'[current] = a
  BY <1>2, <1>4, <1>5, IncrementedIs
<1>10. Fits(current, ip'[current], Len(frames'[current]), Top(frames'[current]).depth)
  BY <1>2, <1>6, <1>9 DEF IsReturned
<1> QED BY <1>1, <1>2, <1>7, <1>8, <1>10, OwnStep

(* One value more, and the pointer after the instruction.                  *)
LEMMA OneMore ==
  ASSUME TypeOK, TypeOK', NEW s \in Seq(Context), IInv(s), Running, Room,
         IsGrown(frames[current], frames'[current], 1), ip'[current] = After(1)
  PROVE  /\ FrameOK(current, frames'[current]) /\ KeepsCalls(frames[current], frames'[current])
         /\ SameBelow(frames[current], frames'[current])
         /\ Fits(current, ip'[current], Len(frames'[current]), Top(frames'[current]).depth)
         /\ ip'[current] \in Point
<1>1. /\ After(1) \in Point /\ After(1).code = At.code /\ After(1).depth = At.depth + 1 /\ At = ip[current]
  BY AfterIs
<1>2. /\ Fits(current, At, Len(frames[current]), Top(frames[current]).depth)
      /\ Sound /\ frames[current] \in Stacks /\ frames'[current] \in Stacks /\ current \in Context
  BY RunningHas, StacksAre, TypedIs DEF At, Typed
<1>3. FrameOK(current, frames'[current])
  BY <1>2, FrameGrown DEF Sound, FramesOK
<1>4. KeepsCalls(frames[current], frames'[current]) /\ SameBelow(frames[current], frames'[current])
  BY <1>2, SameKeeps DEF IsGrown, SameBelow
<1>5. Fits(current, ip'[current], Len(frames'[current]), Top(frames'[current]).depth)
  BY <1>1, <1>2 DEF IsGrown, Fits
<1> QED BY <1>1, <1>3, <1>4, <1>5

LEMMA ResumeFinishedInv ==
  ASSUME NEW s \in Seq(Context), IInv(s), NEW c \in Co, ResumeFinished(c)
  PROVE  IInv(s)'
<1>1. TypeOK /\ Running /\ Room /\ UNCHANGED <<parent, state, current, native, failed, struck>>
  BY DEF IInv, ResumeFinished, errorVars
<1>2. /\ TypeOK' /\ OthersKept({current})
      /\ IsGrown(frames[current], frames'[current], 1) /\ ip'[current] = After(1)
  BY ResumeFinishedDoes DEF IInv
<1>3. /\ FrameOK(current, frames'[current]) /\ KeepsCalls(frames[current], frames'[current])
      /\ Fits(current, ip'[current], Len(frames'[current]), Top(frames'[current]).depth)
  BY <1>1, <1>2, OneMore
<1> QED BY <1>1, <1>2, <1>3, OwnStep

LEMMA CreateCoroutineInv ==
  ASSUME NEW s \in Seq(Context), IInv(s), NEW c \in Co, CreateCoroutine(c)
  PROVE  IInv(s)'
<1>1. /\ TypeOK /\ Running /\ Room /\ UNCHANGED <<parent, current, native, failed, struck>>
      /\ state[c] = "none" /\ state' = [state EXCEPT ![c] = "created"]
  BY DEF IInv, CreateCoroutine, errorVars
<1>2. /\ IsChain(s) /\ Sound /\ ~ failed /\ ~ Creating
      /\ \A i \in 1 .. Len(native) : native[i].kind # "create"
  BY <1>1, RunningHas
<1>3. parent[c] = None /\ c # current /\ c # Root /\ c \in Context /\ \A i \in 1 .. Len(s) : s[i] # c
  BY <1>1, <1>2, NotActive
<1>4. /\ TypeOK' /\ OthersKept({current, c})
      /\ IsGrown(frames[current], frames'[current], 1) /\ ip'[current] = After(1)
      /\ IsCalled(Empty, frames'[c], Invalid) /\ ip'[c] = FunctionStart
  BY <1>1, <1>3, CreateCoroutineDoes
<1>5. /\ FrameOK(current, frames'[current]) /\ KeepsCalls(frames[current], frames'[current])
      /\ Fits(current, ip'[current], Len(frames'[current]), Top(frames'[current]).depth)
  BY <1>1, <1>4, OneMore
<1>6. IsChain(s)'
  BY <1>1, <1>2, OtherChains
<1>7. frames'[c] \in Stacks /\ state'[c] = "created" /\ \A d \in Context \ {c} : state'[d] = state[d]
  BY <1>1, <1>3, <1>4, StacksAre, TypedIs DEF Typed
<1>8. FrameOK(c, frames'[c])
  BY <1>3, <1>4, <1>7, FrameEmpty, FrameCalled, EmptyIs
<1>9. FramesOK'
  <2>1. ASSUME NEW d \in Context PROVE FrameOK(d, frames'[d])
    BY <1>2, <1>4, <1>5, <1>8 DEF Sound, FramesOK, OthersKept
  <2> QED BY <2>1 DEF FramesOK, FrameOK, Fits
<1>10. Len(frames'[c]) = 2 /\ Fits(c, ip'[c], 2, Top(frames'[c]).depth)
  <2>1. Len(frames'[c]) = 2 /\ Top(frames'[c]).depth = 0
    BY <1>4, EmptyIs DEF IsCalled
  <2>2. FunctionStart \in Point /\ FunctionStart.depth = 0 /\ FunctionStart.code = "function"
    BY Ranges DEF FunctionStart
  <2> QED BY <1>4, <2>1, <2>2 DEF Fits
<1>11. SuspendedOK'
  <2>1. ASSUME NEW d \in Co, parent[d] = None PROVE Suspended(d)'
    <3>1. CASE d = c
      BY <1>7, <1>10, <3>1 DEF Suspended, Fits, Top
    <3>2. CASE d # c
      <4>1. d \in Context /\ d # current /\ Suspended(d)
        BY <1>1, <1>2, <2>1, NotActive DEF Sound, SuspendedOK
      <4> QED BY <1>4, <1>7, <3>2, <4>1, SuspendedKept DEF OthersKept
    <3> QED BY <3>1, <3>2
  <2> QED BY <1>1, <2>1 DEF SuspendedOK
<1>12. ActiveOK'
  <2>1. ASSUME NEW d \in Co, parent[d] # None PROVE state'[d] = "running"
    BY <1>2, <1>3, <1>7, <2>1, Ranges DEF Sound, ActiveOK
  <2> QED BY <1>1, <2>1 DEF ActiveOK
<1>13. StruckOK'
  <2>1. ASSUME NEW d \in struck PROVE state'[d] = "invalid"
    <3>1. d \in Context /\ state[d] = "invalid"
      BY <1>1, <1>2, TypedIs, Ranges DEF Sound, StruckOK, Typed
    <3> QED BY <1>1, <1>7, <3>1
  <2> QED BY <1>1, <2>1 DEF StruckOK
<1>14. CreateOK'
  BY <1>1, <1>2 DEF CreateOK
<1>15. Calm(s)'
  <2>1. \A d \in Context \ {current} : OnChain(d) => frames'[d] = frames[d] /\ ip'[d] = ip[d]
    BY <1>3, <1>4 DEF OnChain, OthersKept
  <2>2. ~ failed'
    BY <1>1, <1>2
  <2> QED BY <1>1, <1>4, <1>5, <2>1, <2>2, LocalStep
<1> QED BY <1>4, <1>6, <1>9, <1>11, <1>12, <1>13, <1>14, <1>15 DEF IInv, Sound

LEMMA ResumeInv ==
  ASSUME Usual, NEW s \in Seq(Context), IInv(s), NEW c \in Co, Resume(c)
  PROVE  IInv(Append(s, c))' /\ Append(s, c) \in Seq(Context)
<1> DEFINE t == Append(s, c)
<1>1. /\ TypeOK /\ Running /\ Room /\ UNCHANGED <<native, failed, struck>>
      /\ state[c] \in {"created", "running"} /\ parent[c] = None /\ ip[c] # Invalid
      /\ state' = [state EXCEPT ![c] = "running"] /\ parent' = [parent EXCEPT ![c] = current]
      /\ current' = c
  BY DEF IInv, Resume, errorVars, Usual
<1>2. /\ IsChain(s) /\ Sound /\ ~ failed /\ ~ Creating /\ Calm(s) /\ Scripted
      /\ \A i \in 1 .. Len(native) : native[i].kind # "create"
      /\ Fits(current, ip[current], Len(frames[current]), Top(frames[current]).depth)
  BY <1>1, RunningHas
<1>3. /\ c # current /\ c # Root /\ c \in Context /\ \A i \in 1 .. Len(s) : s[i] # c
      /\ current \in Context
  BY <1>1, <1>2, NotActive, TypedIs DEF Typed
<1>4. /\ TypeOK' /\ OthersKept({current, c})
      /\ frames'[current] = frames[current] /\ ip'[current] = After(1)
      /\ ip'[c] = Incremented(ip[c])
      /\ state[c] = "created" => frames'[c] = frames[c]
      /\ state[c] # "created" => IsGrown(frames[c], frames'[c], 1)
  BY <1>1, <1>3, ResumeDoes
<1>5. IsChain(t)' /\ t \in Seq(Context)
  BY <1>1, <1>2, ResumeChains
<1>6. /\ frames[c] \in Stacks /\ frames'[c] \in Stacks /\ FrameOK(c, frames[c])
      /\ state'[c] = "running" /\ \A d \in Context \ {c} : state'[d] = state[d]
      /\ parent'[c] = current /\ \A d \in Context \ {c} : parent'[d] = parent[d]
  BY <1>1, <1>2, <1>3, <1>4, StacksAre, TypedIs DEF Typed, Sound, FramesOK
<1>7. SameBelow(frames[c], frames'[c])
  BY <1>4 DEF IsGrown, SameBelow
<1>8. FrameOK(c, frames'[c])
  BY <1>6, <1>7, FrameSame
<1>9. FramesOK'
  <2>1. ASSUME NEW d \in Context PROVE FrameOK(d, frames'[d])
    BY <1>2, <1>4, <1>8 DEF Sound, FramesOK, OthersKept
  <2> QED BY <2>1 DEF FramesOK, FrameOK, Fits
<1>10. Suspended(c)
  BY <1>1, <1>2 DEF Sound, SuspendedOK
<1>11. Fits(c, ip'[c], Len(frames'[c]), Top(frames'[c]).depth)
  <2>1. CASE state[c] = "created"
    <3>1. Fits(c, ip[c], Len(frames[c]), Top(frames[c]).depth)
      BY <1>1, <1>10, <2>1 DEF Suspended
    <3> QED BY <1>4, <2>1, <3>1, IncrementedIs DEF Fits
  <2>2. CASE state[c] = "running"
    <3>1. Fits(c, ip[c], Len(frames[c]), Top(frames[c]).depth + 1)
      BY <1>10, <2>2 DEF Suspended
    <3> QED BY <1>4, <2>2, <3>1, IncrementedIs DEF Fits, IsGrown
  <2> QED BY <1>1, <2>1, <2>2
<1>12. \A i \in 1 .. Len(frames[c]) : frames[c][i].ret # NativeReturn
  <2>1. CASE state[c] = "created"
    <3>1. Len(frames[c]) = 2
      BY <1>1, <1>10, <2>1 DEF Suspended
    <3>2. frames[c][1].ret = Invalid /\ frames[c][2].ret = Invalid
      BY <1>3, <1>6, <3>1 DEF FrameOK
    <3>3. \A i \in 1 .. Len(frames[c]) : i = 1 \/ i = 2
      BY <3>1
    <3> QED BY <3>2, <3>3, ContextAssumption
  <2>2. CASE state[c] = "running"
    BY <1>10, <2>2 DEF Suspended, AwaitedIn
  <2> QED BY <1>1, <2>1, <2>2
<1>13. SuspendedOK'
  <2>1. ASSUME NEW d \in Co, parent'[d] = None PROVE Suspended(d)'
    <3>1. d \in Context /\ d # c /\ parent[d] = None
      BY <1>3, <1>6, <2>1, Ranges
    <3>2. d # current /\ Suspended(d)
      BY <1>1, <1>2, <3>1, NotActive DEF Sound, SuspendedOK
    <3> QED BY <1>4, <1>6, <3>1, <3>2, SuspendedKept DEF OthersKept
  <2> QED BY <2>1 DEF SuspendedOK
<1>14. ActiveOK'
  <2>1. ASSUME NEW d \in Co, parent'[d] # None PROVE state'[d] = "running"
    BY <1>2, <1>6, <2>1, Ranges DEF Sound, ActiveOK
  <2> QED BY <2>1 DEF ActiveOK
<1>15. StruckOK'
  <2>1. ASSUME NEW d \in struck PROVE state'[d] = "invalid"
    <3>1. d \in Context /\ state[d] = "invalid"
      BY <1>1, <1>2, TypedIs, Ranges DEF Sound, StruckOK, Typed
    <3> QED BY <1>1, <1>6, <3>1
  <2> QED BY <1>1, <2>1 DEF StruckOK
<1>16. CreateOK' /\ ~ Creating'
  BY <1>1, <1>2 DEF CreateOK, Creating, Top
<1>17. /\ Len(s) \in Nat \ {0} /\ Len(t) = Len(s) + 1
       /\ \A i \in 1 .. Len(s) : t[i] = s[i] /\ s[i] \in Context
       /\ s[Len(s)] = current /\ t[Len(s) + 1] = c
       /\ \A i, j \in 1 .. Len(s) : s[i] = s[j] => i = j
       /\ \A i \in 2 .. Len(s) : parent[s[i]] # None
  BY <1>1, <1>2, <1>3, ChainHas, AppendHas
<1> HIDE DEF t
<1>18. Calm(t)'
  <2>1. CurrentOK'
    BY <1>1, <1>11 DEF CurrentOK, Fits, Top
  <2>2. WaitingOK(t)'
    <3>1. ASSUME NEW i \in 1 .. Len(t) - 1
          PROVE  Fits(t[i], ip'[t[i]], Len(frames'[t[i]]), Top(frames'[t[i]]).depth + 1)
      <4>1. i \in 1 .. Len(s) /\ t[i] = s[i]
        BY <1>17
      <4>2. CASE i = Len(s)
        <5>1. After(1) \in Point /\ After(1).code = At.code /\ After(1).depth = At.depth + 1 /\ At = ip[current]
          BY <1>1, AfterIs
        <5>2. Fits(current, After(1), Len(frames[current]), Top(frames[current]).depth + 1)
          BY <1>2, <5>1 DEF Fits
        <5> QED BY <1>4, <1>17, <4>1, <4>2, <5>2
      <4>3. CASE i # Len(s)
        <5>1. i \in 1 .. Len(s) - 1 /\ Len(s) \in 1 .. Len(s)
          BY <1>17, <4>1, <4>3
        <5>2. s[i] # current /\ s[i] # c /\ s[i] \in Context
          BY <1>3, <1>17, <4>1, <4>3, <5>1
        <5>3. Fits(s[i], ip[s[i]], Len(frames[s[i]]), Top(frames[s[i]]).depth + 1)
          BY <1>2, <5>1 DEF Calm, WaitingOK
        <5>4. frames'[s[i]] = frames[s[i]] /\ ip'[s[i]] = ip[s[i]]
          BY <1>4, <5>2 DEF OthersKept
        <5> QED BY <4>1, <5>3, <5>4
      <4> QED BY <4>2, <4>3
    <3> QED BY <1>16, <3>1 DEF WaitingOK, Fits, Top
  <2>3. NativeOK(t)'
    <3>1. NativeOK(s) /\ KindsOK /\ \A i \in 1 .. Len(native) : Open(i)
      BY <1>1, <1>2, ScriptedHas DEF Calm, NativeOK
    <3>2. Scripted'
      BY <1>1, <1>2, <1>11, PointHas DEF Scripted, Fits, Top
    <3>3. ASSUME NEW i \in 1 .. Len(native)
          PROVE  native[i].home # c /\ Untouched(i)
      <4>1. native[i].home \in Context /\ OnChain(native[i].home) /\ Open(i)
        BY <1>1, <3>1, NativeHas DEF KindsOK
      <4>2. native[i].home # c
        BY <1>1, <1>3, <4>1 DEF OnChain
      <4>3. frames'[native[i].home] = frames[native[i].home]
        BY <1>4, <4>1, <4>2 DEF OthersKept
      <4> QED BY <1>6, <4>1, <4>2, <4>3 DEF Untouched, Open, OnChain
    <3>4. \A i \in 1 .. Len(native) : \A p \in 1 .. Len(t) :
            t[p] = native[i].home => p \in 1 .. Len(s) /\ s[p] = t[p]
      <4>1. \A p \in 1 .. Len(t) : p = Len(s) + 1 \/ p \in 1 .. Len(s)
        BY <1>17
      <4> QED BY <1>17, <3>3, <4>1
    <3> QED BY <1>1, <1>2, <1>5, <3>1, <3>2, <3>3, <3>4, NativeKept
  <2>4. AwaitedOK'
    <3>1. ASSUME NEW d \in Context, OnChain(d)', NEW g \in 1 .. Len(frames'[d]) - 1, frames'[d][g + 1].ret = NativeReturn
          PROVE  \E i \in 1 .. Len(native) : native[i].home = d /\ native[i].height = g
      <4>1. CASE d = c
        <5>1. g + 1 \in 1 .. Len(frames[c])
          BY <1>6, <1>7, <3>1, <4>1, StackHas DEF SameBelow
        <5> QED BY <1>7, <1>12, <3>1, <4>1, <5>1 DEF SameBelow
      <4>2. CASE d # c
        <5>1. OnChain(d) /\ frames'[d] = frames[d]
          BY <1>4, <1>6, <3>1, <4>2 DEF OnChain, OthersKept
        <5> QED BY ZenonT(40), <1>2, <3>1, <5>1 DEF Calm, AwaitedOK
      <4> QED BY <4>1, <4>2
    <3> QED BY <1>1, <3>1 DEF AwaitedOK, OnChain
  <2> QED BY <2>1, <2>2, <2>3, <2>4 DEF Calm
<1> QED BY <1>4, <1>5, <1>9, <1>13, <1>14, <1>15, <1>16, <1>18 DEF IInv, Sound, t

(* The current coroutine gives way, and no native code waits in it.        *)
LEMMA GiveWayStep ==
  ASSUME NEW s \in Seq(Context), IInv(s), Running, Finish \/ Yield, TypeOK',
         NEW p \in Context, p = parent[current], Gives(p), UNCHANGED <<native, failed, struck>>,
         \A d \in Context \ {current} : state'[d] = state[d],
         FrameOK(current, frames'[current]), NEW b, b = current, Suspended(b)',
         \A i \in 1 .. Len(native) : native[i].home # current
  PROVE  IInv(Rest(s))' /\ Rest(s) \in Seq(Context)
<1> DEFINE t == Rest(s)
<1>1. /\ TypeOK /\ IsChain(s) /\ Sound /\ ~ failed /\ ~ Creating /\ Calm(s) /\ Scripted
      /\ \A i \in 1 .. Len(native) : native[i].kind # "create"
  BY RunningHas DEF IInv
<1>2. /\ parent' = [parent EXCEPT ![current] = None] /\ current' = p /\ OthersKept({current, p})
      /\ IsGrown(frames[p], frames'[p], 1) /\ ip'[p] = Incremented(ip[p])
  BY DEF Gives
<1>3. IsChain(t)' /\ t \in Seq(Context) /\ parent[current] # None
  BY <1>1, GiveWayChains
<1>4. /\ current \in Context /\ p # current /\ p = s[Len(s) - 1] /\ Len(s) > 1
      /\ Len(s) \in Nat \ {0} /\ \A i \in 1 .. Len(s) : s[i] \in Context
      /\ s[Len(s)] = current
      /\ \A i, j \in 1 .. Len(s) : s[i] = s[j] => i = j
      /\ \A i \in 2 .. Len(s) : parent[s[i]] # None
      /\ s[1] = Root
  BY <1>1, <1>3, ChainHas, TypedIs DEF Typed
<1>5. s # <<>> /\ Len(t) = Len(s) - 1 /\ \A i \in 1 .. Len(s) - 1 : t[i] = s[i]
  <2>1. s # <<>>
    BY <1>1 DEF IsChain
  <2> QED BY <2>1, RestHas
<1> HIDE DEF t
<1>6. OnChain(p)
  <2>1. Len(s) - 1 = 1 \/ Len(s) - 1 \in 2 .. Len(s)
    <3>1. \A n \in Nat : n > 1 => n - 1 = 1 \/ n - 1 \in 2 .. n
      OBVIOUS
    <3>2. Len(s) \in Nat /\ Len(s) > 1
      BY <1>4
    <3> QED BY <3>1, <3>2
  <2> QED BY <1>4, <2>1 DEF OnChain
<1>7. parent'[current] = None /\ \A d \in Context \ {current} : parent'[d] = parent[d]
  BY <1>1, <1>2, <1>4, TypedIs DEF Typed
<1>8. /\ \A d \in Context : frames[d] \in Stacks /\ frames'[d] \in Stacks
      /\ \A d \in Context : FrameOK(d, frames[d])
  BY <1>1, StacksAre DEF Sound, FramesOK
<1>9. FramesOK'
  <2>1. FrameOK(p, frames'[p])
    BY <1>2, <1>8, FrameGrown
  <2>2. ASSUME NEW d \in Context PROVE FrameOK(d, frames'[d])
    BY <1>2, <1>8, <2>1 DEF OthersKept
  <2> QED BY <2>2 DEF FramesOK, FrameOK, Fits
<1>10. SuspendedOK'
  <2>1. ASSUME NEW d \in Co, parent'[d] = None, d # current PROVE Suspended(d)'
    <3>1. d \in Context /\ parent[d] = None /\ d # p
      BY <1>6, <1>7, <2>1, Ranges DEF OnChain
    <3>2. Suspended(d)
      BY <1>1, <3>1 DEF Sound, SuspendedOK
    <3> QED BY <1>2, <2>1, <3>1, <3>2, SuspendedKept DEF OthersKept
  <2>2. ASSUME NEW d \in Co, parent'[d] = None PROVE Suspended(d)'
    BY <2>1, <2>2
  <2> QED BY <2>2 DEF SuspendedOK
<1>11. ActiveOK'
  <2>1. ASSUME NEW d \in Co, parent'[d] # None PROVE state'[d] = "running"
    BY <1>1, <1>7, <2>1, Ranges DEF Sound, ActiveOK
  <2> QED BY <2>1 DEF ActiveOK
<1>12. StruckOK'
  <2>1. ASSUME NEW d \in struck PROVE state'[d] = "invalid"
    <3>1. d \in Co /\ d \in Context /\ state[d] = "invalid"
      BY <1>1, TypedIs, Ranges DEF Sound, StruckOK, Typed
    <3>2. d # current
      BY <1>1, <1>3, <3>1 DEF Sound, ActiveOK
    <3> QED BY <3>1, <3>2
  <2> QED BY <2>1 DEF StruckOK
<1>13. CreateOK' /\ ~ Creating'
  BY <1>1 DEF CreateOK, Creating, Top
<1>14. Fits(p, ip'[p], Len(frames'[p]), Top(frames'[p]).depth)
  <2>1. Len(s) - 1 \in 1 .. Len(s) - 1
    BY <1>4
  <2>2. Fits(p, ip[p], Len(frames[p]), Top(frames[p]).depth + 1)
    BY <1>1, <1>4, <2>1 DEF Calm, WaitingOK
  <2> QED BY <1>2, <2>2, IncrementedIs DEF Fits, IsGrown
<1>15. ASSUME NEW d \in Context, d # current PROVE KeepsCalls(frames[d], frames'[d])
  <2>1. SameBelow(frames[d], frames'[d])
    BY SMTT(20), ZenonT(30), <1>2, <1>15 DEF OthersKept, IsGrown, SameBelow
  <2> QED BY <1>8, <2>1, SameKeeps
<1>16. Calm(t)'
  <2>1. CurrentOK'
    BY <1>2, <1>14 DEF CurrentOK, Fits, Top
  <2>2. WaitingOK(t)'
    <3>1. ASSUME NEW i \in 1 .. Len(t) - 1
          PROVE  Fits(t[i], ip'[t[i]], Len(frames'[t[i]]), Top(frames'[t[i]]).depth + 1)
      <4>1. /\ i \in 1 .. Len(s) - 1 /\ i \in 1 .. Len(s) /\ Len(s) \in 1 .. Len(s)
            /\ Len(s) - 1 \in 1 .. Len(s) /\ i # Len(s) /\ i # Len(s) - 1
        BY <1>4, <1>5
      <4>2. s[i] # current /\ s[i] # p /\ s[i] \in Context /\ t[i] = s[i]
        BY <1>4, <1>5, <4>1
      <4>3. Fits(s[i], ip[s[i]], Len(frames[s[i]]), Top(frames[s[i]]).depth + 1)
        BY <1>1, <4>1 DEF Calm, WaitingOK
      <4>4. frames'[s[i]] = frames[s[i]] /\ ip'[s[i]] = ip[s[i]]
        BY <1>2, <4>2 DEF OthersKept
      <4> QED BY <4>2, <4>3, <4>4
    <3> QED BY <1>13, <3>1 DEF WaitingOK, Fits, Top
  <2>3. NativeOK(t)'
    <3>1. NativeOK(s) /\ KindsOK /\ \A i \in 1 .. Len(native) : Open(i)
      BY <1>1, ScriptedHas DEF Calm, NativeOK
    <3>2. Scripted'
      BY <1>1, <1>2, <1>14, PointHas DEF Scripted, Fits, Top
    <3>3. ASSUME NEW i \in 1 .. Len(native)
          PROVE  Untouched(i)
      <4>1. native[i].home \in Context /\ OnChain(native[i].home) /\ Open(i) /\ native[i].home # current
        BY <1>1, <3>1, NativeHas DEF KindsOK
      <4>2. native[i].home = Root \/ parent'[native[i].home] # None
        BY <1>7, <4>1 DEF OnChain
      <4> QED BY <1>1, <1>15, <4>1, <4>2, OpenIs
    <3>4. \A i \in 1 .. Len(native) : \A q \in 1 .. Len(t) :
            t[q] = native[i].home => q \in 1 .. Len(s) /\ s[q] = t[q]
      <4>1. \A q \in 1 .. Len(t) : q \in 1 .. Len(s) - 1 /\ q \in 1 .. Len(s)
        BY <1>4, <1>5
      <4> QED BY <1>5, <4>1
    <3> QED BY <1>1, <1>3, <3>1, <3>2, <3>3, <3>4, NativeKept
  <2>4. AwaitedOK'
    <3>1. ASSUME NEW d \in Context, OnChain(d)', NEW g \in 1 .. Len(frames'[d]) - 1, frames'[d][g + 1].ret = NativeReturn
          PROVE  \E i \in 1 .. Len(native) : native[i].home = d /\ native[i].height = g
      <4>0. current # Root
        BY <1>1, <1>3, ChainHas
      <4>1. OnChain(d) /\ d # current
        BY <1>7, <3>1, <4>0 DEF OnChain
      <4>2. KeepsCalls(frames[d], frames'[d]) /\ Len(frames[d]) \in Nat /\ Len(frames'[d]) \in Nat
        BY <1>8, <1>15, <4>1, StackHas
      <4>3. g \in Nat \ {0} /\ g < Len(frames'[d])
        BY <4>2
      <4>4. g < Len(frames[d]) /\ frames[d][g + 1].ret = NativeReturn
        BY <3>1, <4>2, <4>3 DEF KeepsCalls
      <4>5. g \in 1 .. Len(frames[d]) - 1
        BY <4>2, <4>3, <4>4
      <4> QED BY <1>1, <4>1, <4>4, <4>5 DEF Calm, AwaitedOK
    <3>2. native' = native
      OBVIOUS
    <3> QED BY <3>1, <3>2 DEF AwaitedOK, OnChain
  <2> QED BY <2>1, <2>2, <2>3, <2>4 DEF Calm
<1> QED BY <1>3, <1>9, <1>10, <1>11, <1>12, <1>13, <1>16 DEF IInv, Sound, t

LEMMA FinishInv ==
  ASSUME NEW s \in Seq(Context), IInv(s), Finish
  PROVE  IInv(Rest(s))' /\ Rest(s) \in Seq(Context)
<1>1. /\ TypeOK /\ Running /\ UNCHANGED <<native, failed, struck>>
      /\ current \in Context /\ Len(frames[current]) > 1 /\ Top(frames[current]).ret = Invalid
      /\ state' = [state EXCEPT ![current] = "finished"]
  BY TypedIs DEF IInv, Finish, errorVars, Typed
<1>2. /\ IsChain(s) /\ Sound /\ Calm(s) /\ Scripted /\ FrameOK(current, frames[current])
      /\ parent[current] # current
  BY <1>1, RunningHas, GiveWayChains, ChainHas DEF Sound, FramesOK
<1>3. /\ TypeOK' /\ parent[current] \in Context /\ Gives(parent[current])
      /\ Len(frames'[current]) = Len(frames[current]) - 1
      /\ \A i \in 1 .. Len(frames[current]) - 1 : frames'[current][i] = frames[current][i]
  BY <1>1, <1>2, FinishDoes
<1>4. frames[current] \in Stacks /\ frames'[current] \in Stacks /\ Len(frames[current]) \in Nat \ {0}
  BY <1>1, <1>3, StacksAre, StackHas
<1>5. FrameOK(current, frames'[current])
  <2>1. \A i \in 1 .. Len(frames[current]) - 2 : i \in 1 .. Len(frames[current]) - 1
    BY <1>4
  <2> QED BY <1>2, <1>3, <1>4, <2>1, FrameReturned
<1>6. ASSUME NEW b, b = current PROVE Suspended(b)'
  <2>1. state'[b] = "finished"
    BY <1>1, <1>6, TypedIs DEF Typed
  <2>2. state'[b] # "created" /\ state'[b] # "running"
    BY <2>1
  <2> QED BY <2>2 DEF Suspended
<1>7. ASSUME NEW i \in 1 .. Len(native), native[i].home = current PROVE FALSE
  <2>1. Open(i) /\ native[i].height \in Nat \ {0}
    BY <1>1, <1>2, ScriptedHas, NativeHas DEF Calm
  <2> DEFINE n == Len(frames[current])
             h == native[i].height
  <2>2. n \in 1 .. n /\ frames[current][n].ret = Invalid
    BY <1>1, <1>4 DEF Top
  <2>3. n = 1 \/ n = 2
    BY <1>2, <2>2 DEF FrameOK
  <2>4. h < n /\ frames[current][h + 1].ret = NativeReturn
    BY <1>4, <1>7, <2>1 DEF Open
  <2>5. h \in Nat \ {0}
    BY <2>1
  <2>6. h + 1 = n
    <3> HIDE DEF n, h
    <3>1. h < n
      BY <2>4
    <3> QED BY <2>3, <2>5, <3>1
  <2> QED BY <2>2, <2>4, <2>6, ContextAssumption
<1>8. \A d \in Context \ {current} : state'[d] = state[d]
  BY <1>1, TypedIs DEF Typed
<1> QED BY <1>1, <1>3, <1>5, <1>6, <1>7, <1>8, GiveWayStep

LEMMA YieldInv ==
  ASSUME Usual, NEW s \in Seq(Context), IInv(s), Yield
  PROVE  IInv(Rest(s))' /\ Rest(s) \in Seq(Context)
<1>1. /\ TypeOK /\ Running /\ Room /\ UNCHANGED <<state, native, failed, struck>>
      /\ current \in Context /\ current # Root /\ ~ AwaitedIn(current)
  BY TypedIs DEF IInv, Yield, errorVars, Typed, Usual
<1>2. /\ IsChain(s) /\ Sound /\ Calm(s) /\ Scripted /\ FrameOK(current, frames[current])
      /\ parent[current] # current /\ parent[current] # None /\ ~ Creating
      /\ Fits(current, ip[current], Len(frames[current]), Top(frames[current]).depth)
      /\ Len(frames[current]) > 1
  BY <1>1, RunningHas, GiveWayChains, ChainHas DEF Sound, FramesOK
<1>3. /\ TypeOK' /\ parent[current] \in Context /\ Gives(parent[current])
      /\ frames'[current] = frames[current] /\ ip'[current] = After(1)
  BY <1>1, <1>2, YieldDoes
<1>4. After(1) \in Point /\ After(1).code = At.code /\ After(1).depth = At.depth + 1 /\ At = ip[current]
  BY <1>1, AfterIs
<1>5. Fits(current, After(1), Len(frames[current]), Top(frames[current]).depth + 1)
  BY <1>2, <1>4 DEF Fits
<1>6. ASSUME NEW b, b = current PROVE Suspended(b)'
  <2>1. state'[b] = "running"
    BY <1>1, <1>2, <1>6 DEF Sound, ActiveOK, Context
  <2>2. frames'[b] = frames[b] /\ ip'[b] = After(1) /\ ~ AwaitedIn(b) /\ Len(frames[b]) > 1
        /\ Fits(b, After(1), Len(frames[b]), Top(frames[b]).depth + 1)
    BY <1>1, <1>2, <1>3, <1>5, <1>6
  <2> QED BY <2>1, <2>2 DEF Suspended, AwaitedIn, Fits, Top
<1>7. ASSUME NEW i \in 1 .. Len(native), native[i].home = current PROVE FALSE
  <2>1. Open(i) /\ native[i].height \in Nat \ {0} /\ Len(frames[native[i].home]) \in Nat
    BY <1>1, <1>2, ScriptedHas, NativeHas DEF Calm
  <2>2. native[i].height + 1 \in 1 .. Len(frames[native[i].home])
    BY <2>1 DEF Open
  <2> QED BY <1>1, <1>7, <2>1, <2>2 DEF Open, AwaitedIn
<1> QED BY <1>1, <1>2, <1>3, <1>6, <1>7, GiveWayStep

(***************************************************************************)
(* Native calls that begin and end.                                        *)
(***************************************************************************)
Depth(i) == frames[native[i].home][native[i].height].depth

Stays(i) ==
  /\ native'[i].kind = native[i].kind /\ native'[i].home = native[i].home
  /\ native'[i].height = native[i].height
  /\ Resumes(i)' = Resumes(i) /\ OnChain(native[i].home)'

ResumeOK(j) ==
  \/ /\ Resumes(j) \in Point \/ native[j].kind = "create"
     /\ j > 1 => ~ SamePlace(j - 1, j)
  \/ Resumes(j) = NativeReturn /\ j > 1 /\ SamePlace(j - 1, j)

Based(j) == native[j].kind # "create" => \E i \in 1 .. j : SamePlace(i, j) /\ Resumes(i) \in Point

(* What stays true of the first m native calls when they stay.             *)
LEMMA Staying ==
  ASSUME TypeOK, NEW s \in Seq(Context), NEW t \in Seq(Context), NativeOK(s),
         NEW m \in Nat, m <= Len(native), \A i \in 1 .. m : Stays(i),
         \A i \in 1 .. m : \A p \in 1 .. Len(t) : t[p] = native[i].home => p \in 1 .. Len(s) /\ s[p] = t[p]
  PROVE  /\ \A i, j \in 1 .. m : SamePlace(i, j)' = SamePlace(i, j)
         /\ \A i, j \in 1 .. m : i < j => Ordered(t, i, j)'
         /\ \A i \in 1 .. m : OnChain(native[i].home)' /\ (native'[i].kind = "host" => i = 1 /\ native[i].loop)
         /\ \A i \in 1 .. m : ResumeOK(i)' /\ Based(i)'
<1>1. \A i \in 1 .. m : i \in 1 .. Len(native)
  BY TypedIs DEF Typed
<1>2. \A i, j \in 1 .. m : SamePlace(i, j)' = SamePlace(i, j)
  BY DEF Stays, SamePlace
<1>3. ASSUME NEW i \in 1 .. m, NEW j \in 1 .. m, i < j PROVE Ordered(t, i, j)'
  <2>1. Ordered(s, i, j)
    BY <1>1, <1>3 DEF NativeOK, OrderOK
  <2> QED BY <2>1 DEF Ordered, Stays
<1>4. ASSUME NEW i \in 1 .. m
      PROVE  OnChain(native[i].home)' /\ (native'[i].kind = "host" => i = 1 /\ native[i].loop)
  BY <1>1 DEF NativeOK, KindsOK, Stays
<1>5. ASSUME NEW j \in 1 .. m PROVE ResumeOK(j)'
  <2>1. ResumeOK(j)
    BY <1>1 DEF NativeOK, ResumesOK, ResumeOK
  <2>2. j > 1 => j - 1 \in 1 .. m
    OBVIOUS
  <2>3. j > 1 => SamePlace(j - 1, j)' = SamePlace(j - 1, j)
    BY <1>2, <2>2
  <2> QED BY <2>1, <2>3 DEF ResumeOK, Stays
<1>6. ASSUME NEW j \in 1 .. m, native'[j].kind # "create"
      PROVE  \E i \in 1 .. j : SamePlace(i, j)' /\ Resumes(i)' \in Point
  <2>1. PICK i \in 1 .. j : SamePlace(i, j) /\ Resumes(i) \in Point
    BY <1>1, <1>6 DEF NativeOK, BaseOK, Stays
  <2>2. i \in 1 .. m
    OBVIOUS
  <2> QED BY <1>2, <2>1, <2>2 DEF Stays
<1> QED BY <1>2, <1>3, <1>4, <1>5, <1>6 DEF Based

(* The instruction pointer a native call resumes at stays, and so does the *)
(* depth of its frame relative to those above it.                          *)
LEMMA LevelStays ==
  ASSUME NEW i, NEW j, Stays(i), NEW above, Level(i, j, above), NEW k, NEW now,
         Depth(i)' - (k - i) - now = Depth(i) - (j - i) - above
  PROVE  Level(i, k, now)'
BY DEF Level, Stays, Depth, Fits

(* The parts put together.                                                 *)
LEMMA NativeAll ==
  ASSUME NEW t \in Seq(Context), native' \in Seq(Calls),
         \A i \in 1 .. Len(native') :
           /\ i < Len(native') => native'[i].loop
           /\ native'[i].kind = "host" => i = 1 /\ native'[i].loop
           /\ OnChain(native[i].home)'
           /\ ResumeOK(i)' /\ Based(i)',
         \A i, j \in 1 .. Len(native') : i < j => (Open(i)' \/ SamePlace(i, j)') /\ Ordered(t, i, j)',
         TopOK',
         \A i, j \in 1 .. Len(native') :
           i <= j /\ SamePlace(i, j)' /\ Resumes(i)' \in Point /\ (j < Len(native') => ~ SamePlace(j, j + 1)') =>
             Level(i, j, IF j = Len(native) /\ BackIn THEN 1 ELSE 0)'
  PROVE  NativeOK(t)'
<1>1. KindsOK'
  BY DEF KindsOK
<1>2. OrderOK(t)'
  BY DEF OrderOK
<1>3. ResumesOK'
  BY DEF ResumesOK, ResumeOK
<1>4. BaseOK'
  BY DEF BaseOK, Based
<1>5. LevelOK'
  BY DEF LevelOK
<1> QED BY <1>1, <1>2, <1>3, <1>4, <1>5 DEF NativeOK

(* A script calls native code, which runs in the context u.                *)
LEMMA NativePushed ==
  ASSUME TypeOK, TypeOK', NEW s \in Seq(Context), NEW t \in Seq(Context), t # <<>>, NativeOK(s), Scripted,
         NEW e \in Calls, native' = Append(native, e), ~ e.loop, e.kind # "host",
         NEW u \in Context, u = current', e.home = u, e.height = Len(frames'[u]), OnChain(u)',
         \A i \in 1 .. Len(native) : Untouched(i),
         \A i \in 1 .. Len(native) : \A p \in 1 .. Len(t) : t[p] = native[i].home => p \in 1 .. Len(s) /\ s[p] = t[p],
         t[Len(t)] = u, \A p, q \in 1 .. Len(t) : t[p] = t[q] => p = q,
         \/ ip'[u] \in Point /\ Fits(u, ip'[u], Len(frames'[u]), Top(frames'[u]).depth)
         \/ e.kind = "create" /\ ip'[u] = Invalid
  PROVE  NativeOK(t)'
<1>0. PICK m \in Nat : m = Len(native)
  BY TypedIs DEF Typed
<1>1. /\ native \in Seq(Calls) /\ m \in Nat /\ native' \in Seq(Calls) /\ Len(native') = m + 1
      /\ \A i \in 1 .. m : native'[i] = native[i]
      /\ native'[m + 1] = e
  BY <1>0, TypedIs, AppendHas DEF Typed
<1>2. \A i \in 1 .. m : Open(i) /\ native[i].loop /\ Resumes(i) = native[i].old
  BY <1>0, ScriptedHas
<1>3. Top(native)' = e /\ native' # <<>> /\ ~ BackIn' /\ ~ Scripted'
  <2>1. Top(native)' = e /\ native' # <<>>
    BY <1>1 DEF Top
  <2> QED BY <2>1 DEF BackIn, Scripted
<1>4. ASSUME NEW i \in 1 .. m
      PROVE  Stays(i) /\ Open(i)' /\ Depth(i)' = Depth(i)
  <2>1. native'[i] = native[i] /\ native[i].loop /\ Untouched(i) /\ Open(i)
    BY <1>0, <1>1, <1>2
  <2>2. Resumes(i)' = Resumes(i)
    BY <2>1 DEF Resumes
  <2> QED BY <2>1, <2>2 DEF Stays, Open, Untouched, OnChain, Depth
<1>5. /\ \A i, j \in 1 .. m : SamePlace(i, j)' = SamePlace(i, j)
      /\ \A i, j \in 1 .. m : i < j => Ordered(t, i, j)'
      /\ \A i \in 1 .. m : OnChain(native[i].home)' /\ (native'[i].kind = "host" => i = 1 /\ native[i].loop)
      /\ \A i \in 1 .. m : ResumeOK(i)' /\ Based(i)'
  <2>1. m <= Len(native) /\ \A i \in 1 .. m : \A p \in 1 .. Len(t) : t[p] = native[i].home => p \in 1 .. Len(s) /\ s[p] = t[p]
    BY <1>0, <1>1
  <2> QED BY <1>1, <1>4, <2>1, Staying
<1>6. \A i \in 1 .. Len(native') : i \in 1 .. m \/ i = m + 1
  BY <1>1
<1>7. ASSUME NEW i \in 1 .. m
      PROVE  ~ SamePlace(i, m + 1)' /\ Ordered(t, i, m + 1)'
  <2> DEFINE h == native[i].height
             n == Len(frames'[u])
  <2>1. native[i].home = u => n > h
    BY <1>1, <1>4 DEF Open
  <2>2. h \in Nat /\ n \in Nat /\ Len(t) \in Nat
    <3>1. frames'[u] \in Stacks /\ i \in 1 .. Len(native)
      BY <1>0, StacksAre
    <3> QED BY <3>1, StackHas, NativeHas
  <2> HIDE DEF h, n
  <2>3. native[i].home = u => h # n /\ h <= n
    BY <2>1, <2>2
  <2>4. ~ SamePlace(i, m + 1)'
    BY <1>1, <2>3 DEF SamePlace, h, n
  <2>5. ASSUME NEW p \in 1 .. Len(t), NEW q \in 1 .. Len(t), native[i].home = t[p], u = t[q]
        PROVE  p <= q /\ (p = q => h <= n)
    <3>1. q = Len(t)
      BY <2>2, <2>5
    <3> QED BY <2>2, <2>3, <2>5, <3>1
  <2> QED BY <1>1, <2>4, <2>5 DEF Ordered, h, n
<1>8. Resumes(m + 1)' = ip'[u] /\ Depth(m + 1)' = Top(frames'[u]).depth
  BY <1>1 DEF Resumes, Depth, Top
<1>9. ResumeOK(m + 1)' /\ Based(m + 1)' /\ OnChain(native[m + 1].home)'
  <2>1. m + 1 > 1 => ~ SamePlace(m + 1 - 1, m + 1)'
    <3>1. m + 1 > 1 => m + 1 - 1 \in 1 .. m
      BY <1>1
    <3> QED BY <1>7, <3>1
  <2>2. SamePlace(m + 1, m + 1)' /\ m + 1 \in 1 .. m + 1
    BY <1>1 DEF SamePlace
  <2>3. ResumeOK(m + 1)'
    BY <1>1, <1>8, <2>1 DEF ResumeOK
  <2>4. Based(m + 1)'
    BY <1>1, <1>8, <2>2 DEF Based
  <2> QED BY <1>1, <2>3, <2>4 DEF OnChain
<1>10. TopOK'
  BY <1>3 DEF TopOK
<1>11. ASSUME NEW i \in 1 .. m + 1, NEW j \in 1 .. m + 1, i <= j, SamePlace(i, j)', Resumes(i)' \in Point,
              j < m + 1 => ~ SamePlace(j, j + 1)'
       PROVE  Level(i, j, 0)'
  <2>1. CASE j \in 1 .. m
    <3>1. i \in 1 .. m
      BY <1>1, <1>11, <2>1
    <3>2. SamePlace(i, j) /\ Resumes(i) \in Point /\ ~ BackIn
      BY <1>4, <1>5, <1>11, <2>1, <3>1 DEF Stays, BackIn, Scripted
    <3>3. j < m => ~ SamePlace(j, j + 1)
      <4>1. j < m => j + 1 \in 1 .. m /\ j < m + 1
        BY <1>1, <2>1
      <4> QED BY <1>5, <1>11, <2>1, <4>1
    <3>4. Level(i, j, 0)
      BY <1>0, <1>11, <2>1, <3>1, <3>2, <3>3 DEF NativeOK, LevelOK
    <3>5. Depth(i)' - (j - i) - 0 = Depth(i) - (j - i) - 0
      BY <1>4, <3>1
    <3>6. Stays(i)
      BY <1>4, <3>1
    <3> QED BY <3>4, <3>5, <3>6, LevelStays
  <2>2. CASE j = m + 1
    <3>1. i = m + 1
      BY <1>1, <1>7, <1>11, <2>2
    <3>2. Fits(u, ip'[u], Len(frames'[u]), Top(frames'[u]).depth)
      BY <1>8, <1>11, <3>1, PointHas
    <3>3. Top(frames'[u]).depth = Top(frames'[u]).depth - (j - i) - 0
      <4>1. Top(frames'[u]).depth \in Nat
        BY StacksAre, StackHas
      <4>2. j - i = 0
        BY <1>1, <2>2, <3>1
      <4> QED BY <4>1, <4>2
    <3> QED BY <1>1, <1>8, <2>2, <3>1, <3>2, <3>3 DEF Level, Fits, Depth
  <2> QED BY <1>6, <1>1, <2>1, <2>2
<1>12. \A i \in 1 .. Len(native') :
         /\ i < Len(native') => native'[i].loop
         /\ native'[i].kind = "host" => i = 1 /\ native'[i].loop
         /\ OnChain(native[i].home)'
         /\ ResumeOK(i)' /\ Based(i)'
  <2>1. ASSUME NEW i \in 1 .. m PROVE native'[i].loop
    BY <1>0, <1>1, <1>2
  <2>2. ~(m + 1 < Len(native'))
    BY <1>1
  <2> QED BY <1>1, <1>5, <1>6, <1>9, <2>1, <2>2
<1>13. \A i, j \in 1 .. Len(native') : i < j => (Open(i)' \/ SamePlace(i, j)') /\ Ordered(t, i, j)'
  <2>1. \A i, j \in 1 .. Len(native') : i < j => i \in 1 .. m /\ (j \in 1 .. m \/ j = m + 1)
    BY <1>1
  <2> QED BY <1>4, <1>5, <1>7, <2>1
<1> QED BY <1>1, <1>3, <1>10, <1>11, <1>12, <1>13, NativeAll

(* Native code returns to a script, in the context u.                      *)
LEMMA NativePopped ==
  ASSUME TypeOK, NEW s \in Seq(Context), NEW t \in Seq(Context), NativeOK(s),
         native # <<>>, ~ Top(native).loop, native' = Rest(native), native' \in Seq(Calls), frames' = frames,
         Len(native) > 1 => ~ SamePlace(Len(native) - 1, Len(native)),
         ip'[current'] \in Point,
         \A i \in 1 .. Len(native) - 1 : Open(i) => OnChain(native[i].home)',
         \A i \in 1 .. Len(native) - 1 : Open(i) =>
           \A p \in 1 .. Len(t) : t[p] = native[i].home => p \in 1 .. Len(s) /\ s[p] = t[p]
  PROVE  /\ NativeOK(t)' /\ Scripted'
         /\ \A i \in 1 .. Len(native) - 1 : Open(i)
<1>0. PICK m \in Nat : m = Len(native) - 1
  <2>1. native \in Seq(Calls)
    BY TypedIs DEF Typed
  <2>2. Len(native) \in Nat \ {0}
    BY <2>1, TopHas
  <2>3. Len(native) - 1 \in Nat
    BY <2>2
  <2> QED BY <2>3
<1>1. /\ native \in Seq(Calls) /\ Len(native) = m + 1 /\ Len(native') = m
      /\ \A i \in 1 .. m : native'[i] = native[i] /\ i \in 1 .. Len(native)
      /\ Top(native) = native[m + 1]
  BY <1>0, TypedIs, RestHas DEF Typed, Top
<1>2. /\ KindsOK /\ OrderOK(s) /\ LevelOK /\ ~ BackIn
  BY DEF NativeOK, BackIn
<1>3. ASSUME NEW i \in 1 .. m PROVE Open(i) /\ native[i].loop
  <2>1. native[i].loop /\ i \in 1 .. m + 1 /\ m \in 1 .. m + 1 /\ m < m + 1 /\ m + 1 \in 1 .. m + 1
    BY <1>1, <1>2 DEF KindsOK
  <2>2. ~ SamePlace(m, m + 1)
    BY <1>1
  <2>3. Open(m)
    BY <1>1, <1>2, <2>1, <2>2 DEF OrderOK
  <2>4. i = m \/ Open(i) \/ SamePlace(i, m)
    BY <1>1, <1>2, <2>1 DEF OrderOK
  <2>5. SamePlace(i, m) => Open(i)
    BY <2>3 DEF SamePlace, Open
  <2> QED BY <2>1, <2>3, <2>4, <2>5
<1>4. /\ native' # <<>> => m \in 1 .. m /\ Top(native)' = native[m] /\ Top(native)'.loop
      /\ ~ BackIn' /\ Scripted'
  <2>1. native' # <<>> => m \in 1 .. m /\ Top(native)' = native[m]
    BY <1>1 DEF Top
  <2>2. ip'[current'] # Invalid
    BY PointHas
  <2> QED BY <1>3, <2>1, <2>2 DEF BackIn, Scripted
<1>5. ASSUME NEW i \in 1 .. m
      PROVE  Stays(i) /\ Open(i)' /\ Depth(i)' = Depth(i)
  <2>1. native'[i] = native[i] /\ native[i].loop /\ Open(i)
    BY <1>1, <1>3
  <2>2. Resumes(i)' = Resumes(i)
    BY <2>1 DEF Resumes
  <2>3. OnChain(native[i].home)'
    BY <1>0, <2>1
  <2> QED BY <2>1, <2>2, <2>3 DEF Stays, Open, Depth
<1>6. /\ \A i, j \in 1 .. m : SamePlace(i, j)' = SamePlace(i, j)
      /\ \A i, j \in 1 .. m : i < j => Ordered(t, i, j)'
      /\ \A i \in 1 .. m : OnChain(native[i].home)' /\ (native'[i].kind = "host" => i = 1 /\ native[i].loop)
      /\ \A i \in 1 .. m : ResumeOK(i)' /\ Based(i)'
  <2>1. m <= Len(native) /\ \A i \in 1 .. m : \A p \in 1 .. Len(t) : t[p] = native[i].home => p \in 1 .. Len(s) /\ s[p] = t[p]
    <3>1. m <= Len(native)
      BY <1>1
    <3>2. ASSUME NEW i \in 1 .. m, NEW p \in 1 .. Len(t), t[p] = native[i].home
          PROVE  p \in 1 .. Len(s) /\ s[p] = t[p]
      BY <1>0, <1>3, <3>2
    <3> QED BY <3>1, <3>2
  <2> QED BY <1>5, <2>1, Staying
<1>7. TopOK'
  <2>1. native' # <<>> => Open(m)'
    BY <1>4, <1>5
  <2> QED BY <1>1, <1>4, <2>1 DEF TopOK
<1>8. ASSUME NEW i \in 1 .. m, NEW j \in 1 .. m, i <= j, SamePlace(i, j)', Resumes(i)' \in Point,
             j < m => ~ SamePlace(j, j + 1)'
      PROVE  Level(i, j, 0)'
  <2>1. SamePlace(i, j) /\ Resumes(i) \in Point
    BY <1>5, <1>6, <1>8 DEF Stays
  <2>2. ~ SamePlace(j, j + 1)
    <3>1. j = m \/ (j < m /\ j + 1 \in 1 .. m)
      OBVIOUS
    <3>2. ~ SamePlace(m, m + 1)
      BY <1>1, <1>8
    <3> QED BY <1>6, <1>8, <3>1, <3>2
  <2>3. Level(i, j, 0)
    BY <1>1, <1>2, <1>8, <2>1, <2>2 DEF LevelOK
  <2>4. Depth(i)' - (j - i) - 0 = Depth(i) - (j - i) - 0 /\ Stays(i)
    BY <1>5
  <2> QED BY <2>3, <2>4, LevelStays
<1>9. \A i \in 1 .. Len(native') :
         /\ i < Len(native') => native'[i].loop
         /\ native'[i].kind = "host" => i = 1 /\ native'[i].loop
         /\ OnChain(native[i].home)'
         /\ ResumeOK(i)' /\ Based(i)'
  BY <1>1, <1>3, <1>6
<1>10. \A i, j \in 1 .. Len(native') : i < j => (Open(i)' \/ SamePlace(i, j)') /\ Ordered(t, i, j)'
  BY <1>1, <1>5, <1>6
<1>11. NativeOK(t)'
  BY <1>1, <1>4, <1>7, <1>8, <1>9, <1>10, NativeAll
<1>12. \A i \in 1 .. Len(native) - 1 : Open(i)
  BY <1>0, <1>3
<1> QED BY <1>4, <1>11, <1>12

(* The function that native code called returns into its loop, in the      *)
(* frame the native code was called from.                                  *)
LEMMA NativeBack ==
  ASSUME TypeOK, NEW s \in Seq(Context), NativeOK(s), Scripted, NEW u \in Context, u = current, current' = u,
         native' = native, parent' = parent, ip'[u] = Invalid, OthersKept({u}), s[Len(s)] = u, s # <<>>,
         \A c \in Context : OnChain(c) => \E p \in 1 .. Len(s) : s[p] = c,
         frames[u] \in Stacks, frames'[u] \in Stacks, Len(frames[u]) > 1,
         IsReturned(frames[u], frames'[u]),
         NEW k \in 1 .. Len(native), native[k].home = u, native[k].height = Len(frames[u]) - 1
  PROVE  NativeOK(s)'
<1>0. PICK m \in Nat : m = Len(native)
  BY TypedIs DEF Typed
<1> DEFINE n == Len(frames[u])
           In(i) == native[i].home = u /\ native[i].height = n - 1
<1>1. /\ native \in Seq(Calls) /\ n \in Nat /\ n > 1 /\ Len(frames'[u]) = n - 1 /\ m \in 1 .. m
      /\ native # <<>> /\ Top(native) = native[m]
  BY <1>0, TypedIs, StackHas DEF Typed, IsReturned, Top
<1>2. \A i \in 1 .. m : Open(i) /\ native[i].loop /\ Resumes(i) = native[i].old
  BY <1>0, ScriptedHas
<1>3. KindsOK /\ OrderOK(s) /\ LevelOK /\ ~ BackIn
  BY DEF NativeOK, BackIn, Scripted
<1>4. BackIn' /\ ~ Scripted' /\ native[m].loop
  BY <1>1, <1>2 DEF BackIn, Scripted
<1>5. ASSUME NEW i \in 1 .. m, NEW j \in 1 .. m, i <= j, In(i) PROVE In(j)
  <2>1. CASE i = j
    BY <1>5, <2>1
  <2>2. CASE i < j
    <3>1. Ordered(s, i, j) /\ native[j].home \in Context /\ OnChain(native[j].home) /\ Open(j)
          /\ native[j].height \in Nat
      BY <1>0, <1>2, <1>3, <2>2, NativeHas DEF OrderOK, KindsOK
    <3>2. PICK q \in 1 .. Len(s) : s[q] = native[j].home
      BY <3>1
    <3>3. Len(s) \in Nat /\ Len(s) \in 1 .. Len(s)
      OBVIOUS
    <3>4. Len(s) <= q /\ (Len(s) = q => native[i].height <= native[j].height)
      BY <1>5, <3>1, <3>2, <3>3 DEF Ordered
    <3>5. native[j].home = u /\ n - 1 <= native[j].height
      BY <1>5, <3>2, <3>3, <3>4
    <3>6. n > native[j].height
      BY <3>1, <3>5 DEF Open
    <3> HIDE DEF n
    <3>7. native[j].height = n - 1
      BY <1>1, <3>1, <3>5, <3>6
    <3> QED BY <3>5, <3>7
  <2> QED BY <1>5, <2>1, <2>2
<1>6. In(m)
  BY <1>0, <1>5
<1>7. ASSUME NEW i \in 1 .. m
      PROVE  /\ Stays(i) /\ ~ In(i) => Open(i)' /\ Depth(i)' = Depth(i)
             /\ Stays(i) /\ In(i) => Depth(i)' = Depth(i) + 1
             /\ Stays(i)
  <2>1. /\ native[i].home \in Context /\ OnChain(native[i].home) /\ Open(i)
        /\ native[i].height \in Nat \ {0} /\ native[i].loop
    BY <1>0, <1>2, <1>3, NativeHas DEF KindsOK
  <2>2. Stays(i)
    <3>1. Resumes(i)' = Resumes(i)
      BY <2>1 DEF Resumes
    <3> QED BY <2>1, <3>1 DEF Stays, OnChain
  <2>3. CASE native[i].home # u
    <3>1. frames'[native[i].home] = frames[native[i].home]
      BY <2>1, <2>3 DEF OthersKept
    <3> QED BY <2>1, <2>2, <2>3, <3>1 DEF Open, Depth
  <2>4. CASE native[i].home = u /\ ~ In(i)
    <3> DEFINE h == native[i].height
    <3>1. h \in Nat \ {0} /\ h < n /\ h # n - 1
      BY <2>1, <2>4 DEF Open
    <3>2. h \in 1 .. n - 2 /\ h + 1 \in 1 .. n - 1 /\ n - 1 > h
      <4> HIDE DEF n, h
      <4> QED BY <1>1, <3>1
    <3>3. frames'[u][h] = frames[u][h] /\ frames'[u][h + 1].ret = frames[u][h + 1].ret
      BY <3>2 DEF IsReturned
    <3> QED BY <1>1, <2>1, <2>2, <2>4, <3>2, <3>3 DEF Open, Depth
  <2>5. CASE In(i)
    <3>1. frames'[u][n - 1].depth = frames[u][n - 1].depth + 1
      BY DEF IsReturned
    <3> QED BY <2>2, <2>5, <3>1 DEF Depth
  <2> QED BY <2>2, <2>3, <2>4, <2>5
<1>8. /\ \A i, j \in 1 .. m : SamePlace(i, j)' = SamePlace(i, j)
      /\ \A i, j \in 1 .. m : i < j => Ordered(s, i, j)'
      /\ \A i \in 1 .. m : OnChain(native[i].home)' /\ (native'[i].kind = "host" => i = 1 /\ native[i].loop)
      /\ \A i \in 1 .. m : ResumeOK(i)' /\ Based(i)'
  <2>1. m <= Len(native)
    BY <1>0
  <2> QED BY <1>7, <2>1, Staying
<1>9. TopOK'
  BY <1>0, <1>1, <1>4, <1>6 DEF TopOK, Top
<1>10. ASSUME NEW i \in 1 .. m, NEW j \in 1 .. m, i <= j, SamePlace(i, j), Resumes(i) \in Point,
              j < m => ~ SamePlace(j, j + 1)
       PROVE  Level(i, j, IF j = m THEN 1 ELSE 0)'
  <2>1. Level(i, j, 0)
    BY <1>0, <1>3, <1>10 DEF LevelOK
  <2>2. In(i) <=> j = m
    <3>1. In(i) => In(j)
      BY <1>5, <1>10
    <3>2. In(j) => j = m
      <4>1. ASSUME In(j), j # m PROVE FALSE
        <5>1. j < m /\ j + 1 \in 1 .. m /\ j <= j + 1
          BY <4>1
        <5>2. In(j + 1)
          BY <1>5, <4>1, <5>1
        <5> QED BY <1>10, <4>1, <5>1, <5>2 DEF SamePlace
      <4> QED BY <4>1
    <3>3. j = m => In(i)
      BY <1>6, <1>10 DEF SamePlace
    <3> QED BY <3>1, <3>2, <3>3
  <2>3. Depth(i) \in Nat
    <3>1. /\ frames[native[i].home] \in Stacks /\ Open(i) /\ native[i].height \in Nat \ {0}
          /\ Len(frames[native[i].home]) \in Nat
      BY <1>0, <1>2, NativeHas
    <3>2. native[i].height \in 1 .. Len(frames[native[i].home])
      BY SMTT(20), ZenonT(30), <3>1 DEF Open
    <3>3. \A f \in Stacks : \A h \in 1 .. Len(f) : f[h].depth \in Nat
      BY StackHas
    <3>4. frames[native[i].home][native[i].height].depth \in Nat
      BY <3>1, <3>2, <3>3
    <3> QED BY <3>4 DEF Depth
  <2> DEFINE now == IF j = m THEN 1 ELSE 0
  <2>4. Depth(i)' - (j - i) - now = Depth(i) - (j - i) - 0 /\ Stays(i)
    <3>1. CASE j = m
      <4>1. In(i) /\ Depth(i)' = Depth(i) + 1 /\ Stays(i) /\ now = 1
        BY <1>7, <2>2, <3>1
      <4> HIDE DEF now
      <4>2. j - i \in Int
        OBVIOUS
      <4> QED BY <2>3, <4>1, <4>2
    <3>2. CASE j # m
      BY <1>7, <2>2, <2>3, <3>2
    <3> QED BY <3>1, <3>2
  <2> HIDE DEF now
  <2>5. Level(i, j, now)'
    BY <2>1, <2>4, LevelStays
  <2> QED BY <2>5 DEF now
<1>11. \A i \in 1 .. Len(native') :
         /\ i < Len(native') => native'[i].loop
         /\ native'[i].kind = "host" => i = 1 /\ native'[i].loop
         /\ OnChain(native[i].home)'
         /\ ResumeOK(i)' /\ Based(i)'
  BY <1>0, <1>2, <1>8
<1>12. \A i, j \in 1 .. Len(native') : i < j => (Open(i)' \/ SamePlace(i, j)') /\ Ordered(s, i, j)'
  <2>1. ASSUME NEW i \in 1 .. m, NEW j \in 1 .. m, i < j PROVE Open(i)' \/ SamePlace(i, j)'
    <3>1. In(i) => In(j)
      BY <1>5, <2>1
    <3>2. In(i) => SamePlace(i, j)
      BY <3>1 DEF SamePlace
    <3> QED BY <1>7, <1>8, <3>2
  <2> QED BY <1>0, <1>8, <2>1
<1>13. \A i, j \in 1 .. Len(native') :
           i <= j /\ SamePlace(i, j)' /\ Resumes(i)' \in Point /\ (j < Len(native') => ~ SamePlace(j, j + 1)') =>
             Level(i, j, IF j = Len(native) /\ BackIn THEN 1 ELSE 0)'
  <2>1. ASSUME NEW i \in 1 .. m, NEW j \in 1 .. m, i <= j, SamePlace(i, j)', Resumes(i)' \in Point,
               j < m => ~ SamePlace(j, j + 1)'
        PROVE  Level(i, j, IF j = m THEN 1 ELSE 0)'
    <3>1. j < m => j + 1 \in 1 .. m
      OBVIOUS
    <3>2. SamePlace(i, j) /\ Resumes(i) \in Point /\ (j < m => ~ SamePlace(j, j + 1))
      BY <1>7, <1>8, <2>1, <3>1 DEF Stays
    <3> QED BY <1>10, <2>1, <3>2
  <2> QED BY <1>0, <1>4, <2>1
<1> QED BY <1>1, <1>9, <1>11, <1>12, <1>13, NativeAll

LEMMA WaitingKept ==
  ASSUME TypeOK, NEW s \in Seq(Context), IsChain(s), WaitingOK(s), OthersKept({current}), ~ Creating, ~ Creating'
  PROVE  WaitingOK(s)'
<1>1. ASSUME NEW i \in 1 .. Len(s) - 1
      PROVE  frames'[s[i]] = frames[s[i]] /\ ip'[s[i]] = ip[s[i]]
  <2>1. /\ Len(s) \in Nat /\ \A j \in 1 .. Len(s) : s[j] \in Context /\ s[Len(s)] = current
        /\ \A j, k \in 1 .. Len(s) : s[j] = s[k] => j = k
    BY ChainHas
  <2>2. i \in 1 .. Len(s) /\ Len(s) \in 1 .. Len(s) /\ i # Len(s)
    BY <2>1
  <2> QED BY <2>1, <2>2 DEF OthersKept
<1> QED BY <1>1 DEF WaitingOK, Fits, Top

LEMMA AwaitedKept ==
  ASSUME TypeOK, TypeOK', AwaitedOK,
         \A c \in Context : OnChain(c)' /\ Len(frames'[c]) # 1 => OnChain(c) /\ \A h \in Nat \ {0} :
           h < Len(frames'[c]) /\ frames'[c][h + 1].ret = NativeReturn =>
             h < Len(frames[c]) /\ frames[c][h + 1].ret = NativeReturn,
         \A i \in 1 .. Len(native) :
           OnChain(native[i].home) /\ native[i].height < Len(frames'[native[i].home]) =>
             \E j \in 1 .. Len(native') :
               native'[j].home = native[i].home /\ native'[j].height = native[i].height
  PROVE  AwaitedOK'
<1>1. ASSUME NEW c \in Context, OnChain(c)', NEW g \in 1 .. Len(frames'[c]) - 1, frames'[c][g + 1].ret = NativeReturn
      PROVE  \E i \in 1 .. Len(native') : native'[i].home = c /\ native'[i].height = g
  <2>1. Len(frames[c]) \in Nat /\ Len(frames'[c]) \in Nat
    BY StacksAre, StackHas
  <2>2. g \in Nat \ {0} /\ g < Len(frames'[c])
    BY <2>1
  <2>6. Len(frames'[c]) # 1
    <3>1. \A n, h \in Nat : h # 0 /\ h < n => n # 1
      OBVIOUS
    <3> QED BY <2>1, <2>2, <3>1
  <2>3. OnChain(c) /\ g < Len(frames[c]) /\ frames[c][g + 1].ret = NativeReturn
    BY <1>1, <2>2, <2>6
  <2>4. g \in 1 .. Len(frames[c]) - 1
    BY <2>1, <2>2, <2>3
  <2>5. PICK i \in 1 .. Len(native) : native[i].home = c /\ native[i].height = g
    BY <2>3, <2>4 DEF AwaitedOK
  <2> QED BY <2>2, <2>3, <2>5
<1> QED BY <1>1 DEF AwaitedOK, OnChain

LEMMA ReturnNativeInv ==
  ASSUME NEW s \in Seq(Context), IInv(s), Return, Top(frames[current]).ret = NativeReturn
  PROVE  IInv(s)'
<1>1. /\ TypeOK /\ Running /\ UNCHANGED <<parent, state, current, native, failed, struck>>
      /\ current \in Context /\ Len(frames[current]) > 1
  BY TypedIs DEF IInv, Return, errorVars, Typed
<1>2. /\ IsChain(s) /\ Sound /\ ~ failed /\ ~ Creating /\ Calm(s) /\ Scripted
      /\ \A i \in 1 .. Len(native) : native[i].kind # "create"
  BY <1>1, RunningHas
<1>3. /\ TypeOK' /\ OthersKept({current}) /\ IsReturned(frames[current], frames'[current])
      /\ ip'[current] = Invalid
  BY <1>1, ReturnDoes, IncrementedIs
<1>4. /\ frames[current] \in Stacks /\ frames'[current] \in Stacks /\ FrameOK(current, frames[current])
      /\ Len(frames[current]) \in Nat /\ Len(frames'[current]) = Len(frames[current]) - 1
      /\ Len(frames'[current]) \in Nat
  BY <1>1, <1>2, <1>3, StacksAre, StackHas DEF Sound, FramesOK, IsReturned
<1>5. FrameOK(current, frames'[current])
  BY <1>3, <1>4, FrameReturned DEF IsReturned
<1>6. OnChain(current) /\ s # <<>> /\ s[Len(s)] = current /\ \A c \in Context : OnChain(c) => \E p \in 1 .. Len(s) : s[p] = c
  <2>1. ASSUME NEW c \in Context, OnChain(c) PROVE \E p \in 1 .. Len(s) : s[p] = c
    <3>1. CASE c = Root
      <4>1. s[1] = Root /\ Len(s) \in Nat \ {0}
        BY <1>1, <1>2, ChainHas
      <4>2. 1 \in 1 .. Len(s)
        BY <4>1
      <4> QED BY <3>1, <4>1, <4>2
    <3>2. CASE parent[c] # None
      <4>1. PICK i \in 2 .. Len(s) : s[i] = c
        BY <1>1, <1>2, <3>2, ChainHas
      <4>2. i \in 1 .. Len(s)
        OBVIOUS
      <4> QED BY <4>1, <4>2
    <3> QED BY <2>1, <3>1, <3>2 DEF OnChain
  <2> QED BY <1>1, <1>2, <2>1, ChainHas DEF OnChain, IsChain
<1>7. PICK k \in 1 .. Len(native) : native[k].home = current /\ native[k].height = Len(frames[current]) - 1
  <2> DEFINE g == Len(frames[current]) - 1
  <2>1. g \in 1 .. Len(frames[current]) - 1 /\ frames[current][g + 1].ret = NativeReturn
    <3>1. \A n \in Nat : n > 1 => n - 1 \in 1 .. n - 1 /\ n - 1 + 1 = n
      OBVIOUS
    <3>2. g \in 1 .. Len(frames[current]) - 1 /\ g + 1 = Len(frames[current])
      BY <1>1, <1>4, <3>1
    <3> QED BY <3>2 DEF Top
  <2> QED BY <1>1, <1>2, <1>6, <2>1 DEF Calm, AwaitedOK
<1>8. IsChain(s)'
  BY <1>1, <1>2, ChainKept
<1>9. FramesOK' /\ SuspendedOK' /\ ActiveOK' /\ StruckOK'
  BY <1>1, <1>2, <1>3, <1>5, Quiet
<1>10. CreateOK' /\ ~ Creating'
  BY <1>1, <1>2 DEF CreateOK, Creating, Top
<1>11. Calm(s)'
  <2>1. CurrentOK'
    <3>1. native # <<>>
      BY <1>7
    <3> QED BY <1>1, <1>3, <3>1 DEF CurrentOK, Scripted
  <2>2. WaitingOK(s)'
    BY <1>1, <1>2, <1>3, <1>10, WaitingKept DEF Calm
  <2>3. NativeOK(s)'
    BY <1>1, <1>2, <1>3, <1>4, <1>6, <1>7, NativeBack DEF Calm
  <2>4. AwaitedOK'
    <3>1. ASSUME NEW c \in Context, OnChain(c)'
          PROVE  OnChain(c) /\ \A h \in Nat \ {0} :
           h < Len(frames'[c]) /\ frames'[c][h + 1].ret = NativeReturn =>
             h < Len(frames[c]) /\ frames[c][h + 1].ret = NativeReturn
      <4>1. OnChain(c)
        BY <1>1, <3>1 DEF OnChain
      <4>2. CASE c # current
        BY <1>3, <4>1, <4>2 DEF OthersKept
      <4>3. CASE c = current
        <5>1. ASSUME NEW h \in Nat \ {0}, h < Len(frames'[current])
              PROVE  h < Len(frames[current]) /\ frames'[current][h + 1].ret = frames[current][h + 1].ret
          <6>1. h < Len(frames[current]) /\ h + 1 \in 1 .. Len(frames[current]) - 1
            BY <1>4, <5>1
          <6> QED BY <1>3, <6>1 DEF IsReturned
        <5> QED BY <4>1, <4>3, <5>1
      <4> QED BY <4>2, <4>3
    <3>2. native' = native
      BY <1>1
    <3> QED BY <1>1, <1>2, <1>3, <3>1, <3>2, AwaitedKept DEF Calm
  <2> QED BY <2>1, <2>2, <2>3, <2>4 DEF Calm
<1> QED BY <1>3, <1>8, <1>9, <1>10, <1>11 DEF IInv, Sound

LEMMA AwaitedPushed ==
  ASSUME TypeOK, TypeOK', AwaitedOK, parent' = parent, OthersKept({current}),
         IsCalled(frames[current], frames'[current], NativeReturn),
         \A i \in 1 .. Len(native) : \E j \in 1 .. Len(native') :
           native'[j].home = native[i].home /\ native'[j].height = native[i].height,
         \E j \in 1 .. Len(native') : native'[j].home = current /\ native'[j].height = Len(frames[current])
  PROVE  AwaitedOK'
<1>1. ASSUME NEW c \in Context, OnChain(c)', NEW g \in 1 .. Len(frames'[c]) - 1, frames'[c][g + 1].ret = NativeReturn
      PROVE  \E i \in 1 .. Len(native') : native'[i].home = c /\ native'[i].height = g
  <2>1. Len(frames[c]) \in Nat /\ Len(frames'[c]) \in Nat /\ OnChain(c)
    BY <1>1, StacksAre, StackHas DEF OnChain
  <2>2. CASE c = current /\ g = Len(frames[c])
    BY <2>2
  <2>3. CASE ~(c = current /\ g = Len(frames[c]))
    <3>1. g \in 1 .. Len(frames[c]) - 1 /\ frames[c][g + 1].ret = NativeReturn
      <4>1. CASE c = current
        <5>1. g \in 1 .. Len(frames[c]) - 1 /\ g + 1 \in 1 .. Len(frames[c])
          BY SMTT(20), ZenonT(30), <2>1, <2>3, <4>1 DEF IsCalled
        <5> QED BY <1>1, <4>1, <5>1 DEF IsCalled
      <4>2. CASE c # current
        BY <1>1, <4>2 DEF OthersKept
      <4> QED BY <4>1, <4>2
    <3>2. PICK i \in 1 .. Len(native) : native[i].home = c /\ native[i].height = g
      BY <2>1, <3>1 DEF AwaitedOK
    <3> QED BY <3>2
  <2> QED BY <2>2, <2>3
<1> QED BY <1>1 DEF AwaitedOK, OnChain

LEMMA CallNativeInv ==
  ASSUME NEW s \in Seq(Context), IInv(s), CallNative
  PROVE  IInv(s)'
<1> DEFINE e == Entry("call", FALSE, current, Len(frames[current]))
<1>1. /\ TypeOK /\ Running /\ Room /\ UNCHANGED <<parent, state, current, failed, struck>>
      /\ current \in Context /\ native' = Append(native, e)
  BY TypedIs DEF IInv, CallNative, errorVars, Typed
<1>2. /\ IsChain(s) /\ Sound /\ ~ failed /\ ~ Creating /\ Calm(s) /\ Scripted
      /\ \A i \in 1 .. Len(native) : native[i].kind # "create"
      /\ Len(frames[current]) \in Nat \ {0}
  BY <1>1, RunningHas
<1>3. /\ TypeOK' /\ OthersKept({current})
      /\ IsGrown(frames[current], frames'[current], 1) /\ ip'[current] = After(1)
      /\ e \in Calls
  BY <1>1, CallNativeDoes
<1>4. /\ FrameOK(current, frames'[current]) /\ KeepsCalls(frames[current], frames'[current])
      /\ SameBelow(frames[current], frames'[current]) /\ ip'[current] \in Point
      /\ Fits(current, ip'[current], Len(frames'[current]), Top(frames'[current]).depth)
  BY <1>1, <1>3, OneMore
<1>5. /\ ~ e.loop /\ e.kind = "call" /\ e.home = current /\ e.height = Len(frames'[current])
  <2>1. ~ e.loop /\ e.kind = "call" /\ e.home = current /\ e.height = Len(frames[current])
    BY DEF Entry
  <2> QED BY <1>4, <2>1 DEF SameBelow
<1> HIDE DEF e
<1>6. /\ native \in Seq(Calls) /\ Len(native') = Len(native) + 1 /\ Len(native) \in Nat
      /\ \A i \in 1 .. Len(native) : native'[i] = native[i]
      /\ native'[Len(native) + 1] = e /\ Top(native)' = e /\ native' # <<>> /\ native' \in Seq(Calls)
  <2>1. native \in Seq(Calls)
    BY <1>1, TypedIs DEF Typed
  <2> QED BY <1>1, <1>3, <2>1, AppendHas DEF Top
<1>7. OnChain(current) /\ OnChain(current)'
  BY <1>1, <1>2, ChainHas DEF OnChain
<1>8. IsChain(s)'
  BY <1>1, <1>2, ChainKept
<1>9. FramesOK' /\ SuspendedOK' /\ ActiveOK' /\ StruckOK'
  BY <1>1, <1>2, <1>3, <1>4, Quiet
<1>10. CreateOK' /\ ~ Creating'
  <2>1. \A i \in 1 .. Len(native') : native'[i].kind # "create"
    <3>1. \A i \in 1 .. Len(native') : i \in 1 .. Len(native) \/ i = Len(native) + 1
      BY <1>6
    <3>2. e.kind # "create"
      BY <1>5
    <3> QED BY <1>2, <1>6, <3>1, <3>2
  <2> QED BY <1>6, <2>1, CreateNone
<1>11. ASSUME NEW i \in 1 .. Len(native)
       PROVE  KeepsCalls(frames[native[i].home], frames'[native[i].home]) /\ Untouched(i)
  <2>1. native[i].home \in Context /\ OnChain(native[i].home) /\ Open(i)
    BY <1>1, <1>2, NativeHas, ScriptedHas DEF Calm, NativeOK, KindsOK
  <2>2. KeepsCalls(frames[native[i].home], frames'[native[i].home])
    BY <1>3, <1>4, <2>1 DEF KeepsCalls, OthersKept
  <2> QED BY <1>1, <1>3, <2>1, <2>2, OpenIs DEF OnChain
<1>12. Calm(s)'
  <2>1. CurrentOK'
    BY <1>5, <1>6 DEF CurrentOK, Scripted
  <2>2. WaitingOK(s)'
    BY <1>1, <1>2, <1>3, <1>10, WaitingKept DEF Calm
  <2>3. NativeOK(s)'
    <3>1. s # <<>> /\ s[Len(s)] = current /\ \A p, q \in 1 .. Len(s) : s[p] = s[q] => p = q
      BY <1>1, <1>2, ChainHas DEF IsChain
    <3>2. e.kind # "host" /\ NativeOK(s)
      BY <1>2, <1>5 DEF Calm
    <3> QED BY <1>1, <1>2, <1>3, <1>4, <1>5, <1>7, <1>11, <3>1, <3>2, NativePushed
  <2>4. AwaitedOK'
    <3>1. ASSUME NEW c \in Context, OnChain(c)'
          PROVE  OnChain(c) /\ \A h \in Nat \ {0} :
           h < Len(frames'[c]) /\ frames'[c][h + 1].ret = NativeReturn =>
             h < Len(frames[c]) /\ frames[c][h + 1].ret = NativeReturn
      <4>1. OnChain(c)
        BY <1>1, <3>1 DEF OnChain
      <4> QED BY <1>3, <1>4, <4>1 DEF OthersKept, KeepsCalls
    <3>2. \A i \in 1 .. Len(native) : i \in 1 .. Len(native')
      BY <1>6
    <3> QED BY <1>1, <1>2, <1>3, <1>6, <3>1, <3>2, AwaitedKept DEF Calm
  <2> QED BY <2>1, <2>2, <2>3, <2>4 DEF Calm
<1> QED BY <1>3, <1>8, <1>9, <1>10, <1>12 DEF IInv, Sound

LEMMA BasedOn ==
  ASSUME NEW j, NEW i \in 1 .. j, SamePlace(i, j)', Resumes(i)' \in Point
  PROVE  Based(j)'
BY DEF Based

LEMMA HostCallInv ==
  ASSUME NEW s \in Seq(Context), IInv(s), HostCall
  PROVE  IInv(s)'
<1> DEFINE e == Entry("host", TRUE, current, Len(frames[current]))
<1>1. /\ TypeOK /\ UNCHANGED <<parent, state, current, failed, struck>>
      /\ current \in Context /\ native' = <<e>> /\ native = <<>> /\ ~ failed
  BY TypedIs DEF IInv, HostCall, errorVars, Typed
<1>2. Running
  <2>1. Fits(current, ip[current], Len(frames[current]), Top(frames[current]).depth)
    BY <1>1 DEF IInv, Calm, CurrentOK, Scripted
  <2> QED BY <1>1, <2>1 DEF Running, Fits
<1>3. /\ IsChain(s) /\ Sound /\ ~ Creating /\ Calm(s)
      /\ Fits(current, ip[current], Len(frames[current]), Top(frames[current]).depth)
      /\ current # Root => Len(frames[current]) > 1
      /\ frames[current] \in Stacks /\ Len(frames[current]) \in Nat \ {0} /\ Top(frames[current]).depth \in Nat
      /\ ip[current] \in Point
  BY <1>1, <1>2, RunningHas
<1>4. /\ TypeOK' /\ OthersKept({current})
      /\ IsCalled(frames[current], frames'[current], NativeReturn) /\ ip'[current] = FunctionStart
      /\ frames'[current] \in Stacks
  BY <1>1, HostCallDoes, StacksAre
<1>5. FrameOK(current, frames'[current])
  BY <1>1, <1>3, <1>4, FrameCalled DEF Sound, FramesOK
<1>6. e.loop /\ e.kind = "host" /\ e.home = current /\ e.height = Len(frames[current]) /\ e.old = ip[current]
  BY DEF Entry
<1> HIDE DEF e
<1>7. Len(native') = 1 /\ native'[1] = e /\ Top(native)' = e /\ native' # <<>> /\ native' \in Seq(Calls)
  BY <1>1, <1>4, TypedNext DEF Top, Typed
<1>8. IsChain(s)'
  BY <1>1, <1>3, ChainKept
<1>9. FramesOK' /\ SuspendedOK' /\ ActiveOK' /\ StruckOK'
  BY <1>1, <1>3, <1>4, <1>5, Quiet
<1>10. \A i \in 1 .. Len(native') : i = 1
  BY <1>7
<1>11. CreateOK' /\ ~ Creating'
  <2>1. \A i \in 1 .. Len(native') : native'[i].kind # "create"
    <3>1. e.kind # "create"
      BY <1>6
    <3> QED BY <1>7, <1>10, <3>1
  <2> QED BY <1>7, <2>1, CreateNone
<1>12. FunctionStart \in Point /\ FunctionStart.depth = 0 /\ FunctionStart.code = "function" /\ FunctionStart # Invalid
  BY Ranges, PointHas DEF FunctionStart
<1>13. Scripted' /\ ~ BackIn'
  BY <1>1, <1>4, <1>6, <1>7, <1>12 DEF Scripted, BackIn
<1>14. CurrentOK'
  <2>1. Len(frames'[current]) # 1 /\ Top(frames'[current]).depth = 0
    BY <1>3, <1>4 DEF IsCalled
  <2>2. Fits(current, ip'[current], Len(frames'[current]), Top(frames'[current]).depth)
    BY <1>4, <1>12, <2>1 DEF Fits
  <2> QED BY <1>1, <2>2 DEF CurrentOK, Fits, Top
<1>15. WaitingOK(s)'
  BY <1>1, <1>3, <1>4, <1>11, WaitingKept DEF Calm
<1>16. OnChain(current)'
  BY <1>1, <1>3, ChainHas DEF OnChain
<1>17. Open(1)'
  BY <1>3, <1>4, <1>6, <1>7 DEF Open, IsCalled
<1>18. SamePlace(1, 1)' /\ Resumes(1)' = ip[current]
  BY <1>6, <1>7 DEF SamePlace, Resumes
<1>19. Level(1, 1, 0)'
  <2>1. frames'[current][Len(frames[current])] = Top(frames[current])
    <3>1. Len(frames[current]) \in 1 .. Len(frames[current])
      BY <1>3
    <3> QED BY <1>4, <3>1 DEF IsCalled, Top
  <2>2. frames'[current][Len(frames[current])].depth - (1 - 1) - 0 = Top(frames[current]).depth
    BY <1>3, <2>1
  <2> QED BY ZenonT(40), <1>3, <1>6, <1>7, <1>18, <2>2 DEF Level, Fits
<1>20. NativeOK(s)'
  <2>1. ResumeOK(1)'
    BY <1>3, <1>18 DEF ResumeOK
  <2>2. Based(1)'
    <3>1. 1 \in 1 .. 1
      OBVIOUS
    <3>2. SamePlace(1, 1)' /\ Resumes(1)' \in Point
      BY <1>3, <1>18
    <3> QED BY <3>1, <3>2, BasedOn
  <2>3. OnChain(native[1].home)'
    BY <1>1, <1>6, <1>7, <1>16 DEF OnChain
  <2>4. \A i \in 1 .. Len(native') :
         /\ i < Len(native') => native'[i].loop
         /\ native'[i].kind = "host" => i = 1 /\ native'[i].loop
         /\ OnChain(native[i].home)'
         /\ ResumeOK(i)' /\ Based(i)'
    BY <1>6, <1>7, <1>10, <2>1, <2>2, <2>3
  <2>5. TopOK'
    BY <1>7, <1>13, <1>17 DEF TopOK
  <2>6. \A i, j \in 1 .. Len(native') : i < j => (Open(i)' \/ SamePlace(i, j)') /\ Ordered(s, i, j)'
    BY <1>10
  <2>7. \A i, j \in 1 .. Len(native') :
           i <= j /\ SamePlace(i, j)' /\ Resumes(i)' \in Point /\ (j < Len(native') => ~ SamePlace(j, j + 1)') =>
             Level(i, j, IF j = Len(native) /\ BackIn THEN 1 ELSE 0)'
    BY <1>10, <1>13, <1>19
  <2> QED BY <1>7, <2>4, <2>5, <2>6, <2>7, NativeAll
<1>21. AwaitedOK'
  <2>1. 1 \in 1 .. Len(native') /\ native'[1].home = current /\ native'[1].height = Len(frames[current])
    BY <1>6, <1>7
  <2>2. \A i \in 1 .. Len(native) : FALSE
    BY <1>1
  <2> QED BY <1>1, <1>3, <1>4, <2>1, <2>2, AwaitedPushed DEF Calm
<1> QED BY <1>4, <1>8, <1>9, <1>11, <1>14, <1>15, <1>20, <1>21 DEF IInv, Sound, Calm

LEMMA CreateNativeCoroutineInv ==
  ASSUME NEW s \in Seq(Context), IInv(s), NEW c \in Co, CreateNativeCoroutine(c)
  PROVE  IInv(Append(s, c))' /\ Append(s, c) \in Seq(Context)
<1> DEFINE t == Append(s, c)
           e == Entry("create", FALSE, c, 1)
<1>1. /\ TypeOK /\ Running /\ Room /\ UNCHANGED <<failed, struck>>
      /\ state[c] = "none" /\ native' = Append(native, e)
      /\ state' = [state EXCEPT ![c] = "created"] /\ parent' = [parent EXCEPT ![c] = current]
      /\ current' = c
  BY DEF IInv, CreateNativeCoroutine, errorVars
<1>2. /\ IsChain(s) /\ Sound /\ ~ failed /\ ~ Creating /\ Calm(s) /\ Scripted
      /\ \A i \in 1 .. Len(native) : native[i].kind # "create"
      /\ Fits(current, ip[current], Len(frames[current]), Top(frames[current]).depth)
  BY <1>1, RunningHas
<1>3. /\ parent[c] = None /\ c # current /\ c # Root /\ c \in Context /\ \A i \in 1 .. Len(s) : s[i] # c
      /\ current \in Context
  BY <1>1, <1>2, NotActive, TypedIs DEF Typed
<1>4. /\ TypeOK' /\ OthersKept({current, c})
      /\ IsGrown(frames[current], frames'[current], 1) /\ ip'[current] = After(1)
      /\ IsGrown(Empty, frames'[c], 1) /\ ip'[c] = Invalid /\ e \in Calls
  BY <1>1, <1>3, CreateNativeCoroutineDoes
<1>5. /\ FrameOK(current, frames'[current]) /\ KeepsCalls(frames[current], frames'[current])
      /\ Fits(current, ip'[current], Len(frames'[current]), Top(frames'[current]).depth)
  BY <1>1, <1>4, OneMore
<1>6. IsChain(t)' /\ t \in Seq(Context)
  BY <1>1, <1>2, ResumeChains
<1>7. /\ frames'[c] \in Stacks /\ Len(frames'[c]) = 1
      /\ state'[c] = "created" /\ \A d \in Context \ {c} : state'[d] = state[d]
      /\ parent'[c] = current /\ \A d \in Context \ {c} : parent'[d] = parent[d]
      /\ current # None
  BY <1>1, <1>3, <1>4, StacksAre, TypedIs, EmptyIs, Ranges DEF Typed, IsGrown
<1>8. FrameOK(c, frames'[c])
  BY <1>4, <1>7, FrameEmpty, FrameGrown, EmptyIs
<1>9. FramesOK'
  <2>1. ASSUME NEW d \in Context PROVE FrameOK(d, frames'[d])
    BY <1>2, <1>4, <1>5, <1>8 DEF Sound, FramesOK, OthersKept
  <2> QED BY <2>1 DEF FramesOK, FrameOK, Fits
<1>10. ~ e.loop /\ e.kind = "create" /\ e.home = c /\ e.height = 1
  BY DEF Entry
<1>11. /\ Len(s) \in Nat \ {0} /\ Len(t) = Len(s) + 1
       /\ \A i \in 1 .. Len(s) : t[i] = s[i] /\ s[i] \in Context
       /\ s[Len(s)] = current /\ t[Len(s) + 1] = c
       /\ \A i, j \in 1 .. Len(s) : s[i] = s[j] => i = j
       /\ \A i \in 2 .. Len(s) : parent[s[i]] # None
  BY <1>1, <1>2, <1>3, ChainHas, AppendHas
<1> HIDE DEF t, e
<1>12. /\ native \in Seq(Calls) /\ Len(native') = Len(native) + 1 /\ Len(native) \in Nat
       /\ \A i \in 1 .. Len(native) : native'[i] = native[i]
       /\ native'[Len(native) + 1] = e /\ Top(native)' = e /\ native' # <<>> /\ native' \in Seq(Calls)
  <2>1. native \in Seq(Calls)
    BY <1>1, TypedIs DEF Typed
  <2> QED BY <1>1, <1>4, <2>1, AppendHas DEF Top
<1>13. Creating' /\ ~ Scripted'
  BY <1>10, <1>12 DEF Creating, Scripted
<1>14. SuspendedOK'
  <2>1. ASSUME NEW d \in Co, parent'[d] = None PROVE Suspended(d)'
    <3>1. d \in Context /\ d # c /\ parent[d] = None
      BY <1>3, <1>7, <2>1, Ranges
    <3>2. d # current /\ Suspended(d)
      BY <1>1, <1>2, <3>1, NotActive DEF Sound, SuspendedOK
    <3> QED BY <1>4, <1>7, <3>1, <3>2, SuspendedKept DEF OthersKept
  <2> QED BY <2>1 DEF SuspendedOK
<1>15. ActiveOK'
  <2>1. ASSUME NEW d \in Co, parent'[d] # None, d # c PROVE state'[d] = "running"
    BY <1>2, <1>7, <2>1, Ranges DEF Sound, ActiveOK
  <2> QED BY <1>1, <1>7, <1>13, <2>1 DEF ActiveOK
<1>16. StruckOK'
  <2>1. ASSUME NEW d \in struck PROVE state'[d] = "invalid"
    <3>1. d \in Context /\ state[d] = "invalid"
      BY <1>1, <1>2, TypedIs, Ranges DEF Sound, StruckOK, Typed
    <3>2. d # c
      BY <1>1, <3>1
    <3> QED BY <1>7, <3>1, <3>2
  <2> QED BY <1>1, <2>1 DEF StruckOK
<1>17. CreateOK'
  <2>1. ASSUME NEW i \in 1 .. Len(native'), native'[i].kind = "create"
        PROVE  i = Len(native') /\ native'[i] = e
    <3>1. i \in 1 .. Len(native) \/ i = Len(native) + 1
      BY <1>12
    <3> QED BY <1>2, <1>12, <2>1, <3>1
  <2>2. /\ c = current' /\ state'[c] = "created" /\ Len(frames'[c]) = 1 /\ ip'[c] = Invalid
    BY <1>1, <1>4, <1>7
  <2> QED BY <1>10, <2>1, <2>2 DEF CreateOK
<1>18. ASSUME NEW i \in 1 .. Len(native)
       PROVE  native[i].home # c /\ Untouched(i)
  <2>1. native[i].home \in Context /\ OnChain(native[i].home) /\ Open(i)
    BY <1>1, <1>2, NativeHas, ScriptedHas DEF Calm, NativeOK, KindsOK
  <2>2. native[i].home # c
    BY <1>3, <2>1 DEF OnChain
  <2>3. KeepsCalls(frames[native[i].home], frames'[native[i].home])
    BY <1>4, <1>5, <2>1, <2>2 DEF KeepsCalls, OthersKept
  <2>4. native[i].home = Root \/ parent'[native[i].home] # None
    BY <1>7, <2>1, <2>2 DEF OnChain
  <2> QED BY <1>1, <1>4, <2>1, <2>2, <2>3, <2>4, OpenIs
<1>19. Calm(t)'
  <2>1. CurrentOK'
    BY <1>13 DEF CurrentOK
  <2>2. WaitingOK(t)'
    <3>1. ASSUME NEW i \in 1 .. Len(t) - 1
          PROVE  Fits(t[i], ip'[t[i]], Len(frames'[t[i]]), Top(frames'[t[i]]).depth + IF i = Len(t) - 1 THEN 0 ELSE 1)
      <4>1. i \in 1 .. Len(s) /\ t[i] = s[i]
        BY <1>11
      <4>2. CASE i = Len(s)
        <5>1. t[i] = current /\ i = Len(t) - 1
          BY <1>11, <4>1, <4>2
        <5>2. Top(frames'[current]).depth \in Nat
          BY <1>1, <1>3, <1>4, StacksAre, StackHas
        <5>3. Top(frames'[current]).depth + 0 = Top(frames'[current]).depth
          BY <5>2
        <5> QED BY <1>5, <5>1, <5>3
      <4>3. CASE i # Len(s)
        <5>1. i \in 1 .. Len(s) - 1 /\ Len(s) \in 1 .. Len(s) /\ i # Len(t) - 1
          BY <1>11, <4>1, <4>3
        <5>2. s[i] # current /\ s[i] # c /\ s[i] \in Context
          BY <1>3, <1>11, <4>1, <4>3, <5>1
        <5>3. Fits(s[i], ip[s[i]], Len(frames[s[i]]), Top(frames[s[i]]).depth + 1)
          BY <1>2, <5>1 DEF Calm, WaitingOK
        <5>4. frames'[s[i]] = frames[s[i]] /\ ip'[s[i]] = ip[s[i]]
          BY <1>4, <5>2 DEF OthersKept
        <5> QED BY <4>1, <5>1, <5>3, <5>4
      <4> QED BY <4>2, <4>3
    <3> QED BY <1>13, <3>1 DEF WaitingOK, Fits, Top
  <2>3. NativeOK(t)'
    <3>1. t # <<>> /\ t[Len(t)] = c
      BY <1>11
    <3>2. \A p, q \in 1 .. Len(t) : t[p] = t[q] => p = q
      <4>1. \A p \in 1 .. Len(t) : p \in 1 .. Len(s) \/ p = Len(s) + 1
        BY <1>11
      <4> QED BY <1>3, <1>11, <4>1
    <3>3. \A i \in 1 .. Len(native) : \A p \in 1 .. Len(t) :
            t[p] = native[i].home => p \in 1 .. Len(s) /\ s[p] = t[p]
      <4>1. \A p \in 1 .. Len(t) : p \in 1 .. Len(s) \/ p = Len(s) + 1
        BY <1>11
      <4> QED BY <1>11, <1>18, <4>1
    <3>4. ~ e.loop /\ e.kind # "host" /\ e.kind = "create" /\ e.home = c /\ e.height = Len(frames'[c])
      BY <1>7, <1>10
    <3>5. OnChain(c)' /\ NativeOK(s)
      BY <1>2, <1>7 DEF OnChain, Calm
    <3> QED BY <1>1, <1>2, <1>3, <1>4, <1>6, <1>18, <3>1, <3>2, <3>3, <3>4, <3>5, NativePushed
  <2>4. AwaitedOK'
    <3>1. ASSUME NEW d \in Context, OnChain(d)', Len(frames'[d]) # 1
          PROVE  OnChain(d) /\ \A h \in Nat \ {0} :
           h < Len(frames'[d]) /\ frames'[d][h + 1].ret = NativeReturn =>
             h < Len(frames[d]) /\ frames[d][h + 1].ret = NativeReturn
      <4>1. d # c
        BY <1>7, <3>1
      <4>2. OnChain(d)
        BY <1>7, <3>1, <4>1 DEF OnChain
      <4> QED BY <1>4, <1>5, <4>1, <4>2 DEF OthersKept, KeepsCalls
    <3>2. \A i \in 1 .. Len(native) : i \in 1 .. Len(native')
      BY <1>12
    <3> QED BY <1>1, <1>2, <1>4, <1>12, <3>1, <3>2, AwaitedKept DEF Calm
  <2> QED BY <2>1, <2>2, <2>3, <2>4 DEF Calm
<1> QED BY <1>4, <1>6, <1>9, <1>14, <1>15, <1>16, <1>17, <1>19 DEF IInv, Sound, t

(* Native code runs, in the context and the frame it was called from.      *)
LEMMA NativeRunsHas ==
  ASSUME Usual, NEW s \in Seq(Context), IInv(s), MayCallBack
  PROVE  /\ TypeOK /\ ~ failed /\ IsChain(s) /\ Sound /\ Calm(s) /\ NativeOK(s) /\ ~ Creating /\ ~ Scripted /\ ~ BackIn
         /\ \A i \in 1 .. Len(native) : native[i].kind # "create"
         /\ native \in Seq(Calls) /\ native # <<>> /\ Len(native) \in Nat \ {0} /\ Top(native) = native[Len(native)]
         /\ Top(native).kind = "call" /\ Top(native).home = current
         /\ Top(native).height = Len(frames[current])
         /\ \A i \in 1 .. Len(native) : i < Len(native) => native[i].loop
         /\ ~ native[Len(native)].loop
         /\ current \in Context /\ OnChain(current)
         /\ frames[current] \in Stacks /\ Len(frames[current]) \in Nat \ {0}
         /\ current # Root => Len(frames[current]) > 1
<1>1. /\ TypeOK /\ ~ failed /\ IsChain(s) /\ Sound /\ Calm(s) /\ NativeOK(s)
      /\ native # <<>> /\ ~ Top(native).loop /\ Top(native).kind = "call"
  BY DEF IInv, Calm, MayCallBack, NativeRuns, Usual
<1>2. ~ Creating /\ ~ Scripted /\ ~ BackIn /\ \A i \in 1 .. Len(native) : native[i].kind # "create"
  <2>1. Top(native).kind # "create"
    BY <1>1
  <2> QED BY <1>1, <2>1, NoCreate DEF Scripted, BackIn, Sound
<1>3. native \in Seq(Calls) /\ Len(native) \in Nat \ {0} /\ Len(native) \in 1 .. Len(native) /\ Top(native) = native[Len(native)]
  <2>1. native \in Seq(Calls)
    BY <1>1, TypedIs DEF Typed
  <2> QED BY <1>1, <2>1, TopHas
<1>4. Top(native).home = current /\ Top(native).height = Len(frames[current])
  BY <1>1, <1>2 DEF NativeOK, TopOK
<1>5. \A i \in 1 .. Len(native) : i < Len(native) => native[i].loop
  BY <1>1 DEF NativeOK, KindsOK
<1>6. /\ current \in Context /\ OnChain(current)
      /\ frames[current] \in Stacks /\ Len(frames[current]) \in Nat \ {0}
  BY <1>1, Unpacked, ChainHas DEF Typed, OnChain
<1>7. ASSUME current # Root PROVE Len(frames[current]) > 1
  <2>1. PICK i \in 1 .. Len(native) : SamePlace(i, Len(native)) /\ Resumes(i) \in Point
    BY <1>1, <1>2, <1>3 DEF NativeOK, BaseOK
  <2> DEFINE n == Len(frames[current])
             d == Depth(i) - (Len(native) - i) - 0
  <2>2. Level(i, Len(native), 0)
    BY <1>1, <1>2, <1>3, <2>1 DEF NativeOK, LevelOK
  <2>3. Fits(current, Resumes(i), n, d)
    BY <1>3, <1>4, <2>1, <2>2 DEF Level, SamePlace, Depth
  <2>4. n \in Nat \ {0}
    BY <1>6
  <2> HIDE DEF n, d
  <2>5. n # 1
    BY <1>7, <2>3, FitsHas, Zenon
  <2>6. n > 1
    BY <2>4, <2>5
  <2> QED BY <2>6 DEF n
<1> QED BY <1>1, <1>2, <1>3, <1>4, <1>5, <1>6, <1>7

LEMMA CallBackInv ==
  ASSUME Usual, NEW s \in Seq(Context), IInv(s), CallBack
  PROVE  IInv(s)'
<1>0. PICK m \in Nat : m = Len(native)
  BY TypedIs DEF Typed, IInv
<1>1. MayCallBack /\ UNCHANGED <<parent, state, current, failed, struck>>
  BY DEF CallBack, errorVars
<1>2. /\ TypeOK /\ ~ failed /\ IsChain(s) /\ Sound /\ Calm(s) /\ NativeOK(s) /\ ~ Creating /\ ~ Scripted /\ ~ BackIn
      /\ \A i \in 1 .. m : native[i].kind # "create"
      /\ native \in Seq(Calls) /\ native # <<>> /\ m \in 1 .. m
      /\ native[m].kind = "call" /\ native[m].home = current /\ native[m].height = Len(frames[current])
      /\ \A i \in 1 .. m : i < m => native[i].loop
      /\ ~ native[m].loop
      /\ current \in Context /\ OnChain(current)
      /\ frames[current] \in Stacks /\ Len(frames[current]) \in Nat \ {0}
      /\ current # Root => Len(frames[current]) > 1
  BY <1>0, <1>1, NativeRunsHas
<1>3. /\ TypeOK' /\ OthersKept({current})
      /\ IsCalled(frames[current], frames'[current], NativeReturn) /\ ip'[current] = FunctionStart
      /\ IsRelooped(native, native', TRUE, ip[current])
  BY <1>2, CallBackDoes
<1>4. native' \in Seq(Calls) /\ frames'[current] \in Stacks
  BY <1>2, <1>3, TypedNext, StacksAre DEF Typed
<1>5. /\ Len(native') = m /\ native' # <<>> /\ Top(native)' = native'[m]
      /\ \A i \in 1 .. m : i # m => native'[i] = native[i]
      /\ native'[m].kind = native[m].kind /\ native'[m].home = native[m].home
      /\ native'[m].height = native[m].height /\ native'[m].loop /\ native'[m].old = ip[current]
  <2>1. TRUE \in BOOLEAN /\ ip[current] \in Address
    BY <1>2, Unpacked
  <2>2. /\ native'[m].kind = native[m].kind /\ native'[m].home = native[m].home
        /\ native'[m].height = native[m].height /\ native'[m].loop = TRUE /\ native'[m].old = ip[current]
        /\ native' # <<>> /\ Top(native') = native'[m]
    BY ZenonT(40), <1>0, <1>2, <1>3, <1>4, <2>1, ReloopedHas
  <2>3. \A i \in 1 .. m : i # m => i \in 1 .. m - 1
    OBVIOUS
  <2>4. Len(native') = m /\ \A i \in 1 .. m : i # m => native'[i] = native[i]
    BY <1>0, <1>3, <2>3 DEF IsRelooped
  <2> QED BY <2>2, <2>4 DEF Top
<1>6. FunctionStart \in Point /\ FunctionStart.depth = 0 /\ FunctionStart.code = "function" /\ FunctionStart # Invalid
  BY Ranges, PointHas DEF FunctionStart
<1>7. Scripted' /\ ~ BackIn'
  BY <1>1, <1>3, <1>5, <1>6 DEF Scripted, BackIn
<1>8. FrameOK(current, frames'[current])
  BY <1>2, <1>3, <1>4, FrameCalled DEF Sound, FramesOK
<1>9. IsChain(s)'
  BY <1>1, <1>2, ChainKept
<1>10. FramesOK' /\ SuspendedOK' /\ ActiveOK' /\ StruckOK'
  BY <1>1, <1>2, <1>3, <1>8, Quiet
<1>11. CreateOK' /\ ~ Creating'
  <2>1. \A i \in 1 .. Len(native') : native'[i].kind # "create"
    BY <1>2, <1>5
  <2> QED BY <1>4, <2>1, CreateNone
<1>12. CurrentOK'
  <2>1. Len(frames'[current]) # 1 /\ Top(frames'[current]).depth = 0
    BY <1>2, <1>3 DEF IsCalled
  <2>2. Fits(current, ip'[current], Len(frames'[current]), Top(frames'[current]).depth)
    BY <1>3, <1>6, <2>1 DEF Fits
  <2> QED BY <1>1, <2>2 DEF CurrentOK, Fits, Top
<1>13. WaitingOK(s)'
  BY <1>1, <1>2, <1>3, <1>11, WaitingKept DEF Calm
<1>14. ASSUME NEW i \in 1 .. m
       PROVE  Stays(i) /\ Open(i)' /\ Depth(i)' = Depth(i)
  <2> DEFINE h == native[i].height
             n == Len(frames[current])
  <2>1. /\ native[i].home \in Context /\ OnChain(native[i].home) /\ h \in Nat \ {0}
        /\ Len(frames[native[i].home]) \in Nat
    BY <1>0, <1>2, NativeHas DEF NativeOK, KindsOK
  <2>2. Open(i) \/ (native[i].home = current /\ h = n)
    <3>1. i < m => Open(i) \/ SamePlace(i, m)
      BY <1>0, <1>2 DEF NativeOK, OrderOK
    <3>2. i < m \/ i = m
      OBVIOUS
    <3> QED BY <1>2, <3>1, <3>2 DEF SamePlace
  <2>3. Stays(i)
    <3>1. Resumes(i)' = Resumes(i)
      <4>1. CASE i = m
        BY <1>2, <1>5, <4>1 DEF Resumes
      <4>2. CASE i # m
        <5>1. i < m
          BY <4>2
        <5> QED BY <1>2, <1>5, <4>2, <5>1 DEF Resumes
      <4> QED BY <4>1, <4>2
    <3>2. native'[i].kind = native[i].kind /\ native'[i].home = native[i].home /\ native'[i].height = native[i].height
      BY <1>5
    <3> QED BY <1>1, <2>1, <3>1, <3>2 DEF Stays, OnChain
  <2>4. CASE native[i].home # current
    <3>1. frames'[native[i].home] = frames[native[i].home]
      BY <1>3, <2>1, <2>4 DEF OthersKept
    <3> QED BY <2>2, <2>3, <2>4, <3>1 DEF Stays, Open, Depth
  <2>5. CASE native[i].home = current
    <3>1. h <= n /\ h < n + 1 /\ h \in 1 .. n /\ Len(frames'[current]) = n + 1
      <4>1. Open(i) => h < n
        BY <2>5 DEF Open
      <4>2. n \in Nat \ {0} /\ h \in Nat \ {0} /\ (h < n \/ h = n) /\ Len(frames'[current]) = n + 1
        BY <1>2, <1>3, <2>1, <2>2, <4>1 DEF IsCalled
      <4> HIDE DEF h, n
      <4> QED BY <4>2
    <3>2. frames'[current][h] = frames[current][h]
      BY <1>3, <3>1 DEF IsCalled
    <3>3. frames'[current][h + 1].ret = NativeReturn
      <4>1. CASE h = n
        BY <1>3, <4>1 DEF IsCalled
      <4>2. CASE h # n
        <5>1. h + 1 \in 1 .. n
          <6> HIDE DEF h, n
          <6>1. n \in Nat
            BY <1>2 DEF n
          <6> QED BY <3>1, <4>2, <6>1
        <5>2. frames[current][h + 1].ret = NativeReturn
          BY <2>2, <2>5, <4>2 DEF Open
        <5> QED BY <1>3, <5>1, <5>2 DEF IsCalled
      <4> QED BY <4>1, <4>2
    <3> QED BY <2>3, <2>5, <3>1, <3>2, <3>3 DEF Stays, Open, Depth
  <2> QED BY <2>3, <2>4, <2>5
<1>15. /\ \A i, j \in 1 .. m : SamePlace(i, j)' = SamePlace(i, j)
       /\ \A i, j \in 1 .. m : i < j => Ordered(s, i, j)'
       /\ \A i \in 1 .. m : OnChain(native[i].home)' /\ (native'[i].kind = "host" => i = 1 /\ native[i].loop)
       /\ \A i \in 1 .. m : ResumeOK(i)' /\ Based(i)'
  <2>1. m <= Len(native)
    BY <1>0
  <2> QED BY <1>2, <1>14, <2>1, Staying
<1>16. NativeOK(s)'
  <2>1. TopOK'
    <3>1. Open(m)'
      BY <1>2, <1>14
    <3> QED BY <1>5, <1>7, <3>1 DEF TopOK
  <2>2. \A i \in 1 .. Len(native') :
         /\ i < Len(native') => native'[i].loop
         /\ native'[i].kind = "host" => i = 1 /\ native'[i].loop
         /\ OnChain(native[i].home)'
         /\ ResumeOK(i)' /\ Based(i)'
    <3>1. \A i \in 1 .. m : native'[i].loop
      <4>1. \A i \in 1 .. m : i = m \/ i < m
        OBVIOUS
      <4> QED BY <1>2, <1>5, <4>1
    <3> QED BY <1>5, <1>15, <3>1
  <2>3. \A i, j \in 1 .. Len(native') : i < j => (Open(i)' \/ SamePlace(i, j)') /\ Ordered(s, i, j)'
    BY <1>5, <1>14, <1>15
  <2>4. ASSUME NEW i \in 1 .. m, NEW j \in 1 .. m, i <= j, SamePlace(i, j)', Resumes(i)' \in Point,
               j < m => ~ SamePlace(j, j + 1)'
        PROVE  Level(i, j, 0)'
    <3>1. j < m => j + 1 \in 1 .. m
      OBVIOUS
    <3>2. SamePlace(i, j) /\ Resumes(i) \in Point /\ (j < m => ~ SamePlace(j, j + 1))
      BY <1>14, <1>15, <2>4, <3>1 DEF Stays
    <3>3. Level(i, j, 0)
      BY <1>0, <1>2, <2>4, <3>2 DEF NativeOK, LevelOK
    <3>4. Stays(i) /\ Depth(i)' - (j - i) - 0 = Depth(i) - (j - i) - 0
      BY <1>14
    <3> QED BY <3>3, <3>4, LevelStays
  <2>5. \A i, j \in 1 .. Len(native') :
           i <= j /\ SamePlace(i, j)' /\ Resumes(i)' \in Point /\ (j < Len(native') => ~ SamePlace(j, j + 1)') =>
             Level(i, j, IF j = Len(native) /\ BackIn THEN 1 ELSE 0)'
    BY <1>5, <1>7, <2>4
  <2> QED BY <1>4, <2>1, <2>2, <2>3, <2>5, NativeAll
<1>17. AwaitedOK'
  <2>1. \A i \in 1 .. Len(native) : \E j \in 1 .. Len(native') :
           native'[j].home = native[i].home /\ native'[j].height = native[i].height
    BY <1>0, <1>5, <1>14 DEF Stays
  <2>2. \E j \in 1 .. Len(native') : native'[j].home = current /\ native'[j].height = Len(frames[current])
    BY <1>2, <1>5
  <2> QED BY <1>1, <1>2, <1>3, <2>1, <2>2, AwaitedPushed DEF Calm
<1> QED BY <1>3, <1>9, <1>10, <1>11, <1>12, <1>13, <1>16, <1>17 DEF IInv, Sound, Calm

LEMMA CallBackNativeInv ==
  ASSUME Usual, NEW s \in Seq(Context), IInv(s), CallBackNative
  PROVE  IInv(s)'
<1> DEFINE e == Entry("call", FALSE, current, Len(frames[current]))
           called == Looping(native)
<1>0. PICK m \in Nat : m = Len(native)
  BY TypedIs DEF Typed, IInv
<1>1. MayCallBack /\ UNCHANGED <<parent, state, current, failed, struck>> /\ native' = Append(called, e)
  BY DEF CallBackNative, errorVars
<1>2. /\ TypeOK /\ ~ failed /\ IsChain(s) /\ Sound /\ Calm(s) /\ NativeOK(s) /\ ~ Creating /\ ~ Scripted /\ ~ BackIn
      /\ \A i \in 1 .. m : native[i].kind # "create"
      /\ native \in Seq(Calls) /\ native # <<>> /\ m \in 1 .. m
      /\ native[m].kind = "call" /\ native[m].home = current /\ native[m].height = Len(frames[current])
      /\ \A i \in 1 .. m : i < m => native[i].loop
      /\ ~ native[m].loop
      /\ current \in Context /\ OnChain(current)
      /\ frames[current] \in Stacks /\ Len(frames[current]) \in Nat \ {0}
  BY <1>0, <1>1, NativeRunsHas
<1>3. /\ TypeOK' /\ OthersKept({current})
      /\ IsGrown(frames[current], frames'[current], 1) /\ ip'[current] = NativeReturn
      /\ called \in Seq(Calls) /\ IsRelooped(native, called, TRUE, ip[current]) /\ e \in Calls
  BY <1>2, CallBackNativeDoes
<1>4. ~ e.loop /\ e.kind = "call" /\ e.home = current /\ e.height = Len(frames[current])
  BY DEF Entry
<1> HIDE DEF called, e
<1>5. /\ Len(called) = m
      /\ \A i \in 1 .. m : i # m => called[i] = native[i]
      /\ called[m].kind = native[m].kind /\ called[m].home = native[m].home
      /\ called[m].height = native[m].height /\ called[m].loop /\ called[m].old = ip[current]
  <2>1. TRUE \in BOOLEAN /\ ip[current] \in Address
    BY <1>2, Unpacked
  <2>2. /\ called[m].kind = native[m].kind /\ called[m].home = native[m].home
        /\ called[m].height = native[m].height /\ called[m].loop = TRUE /\ called[m].old = ip[current]
    BY ZenonT(40), <1>0, <1>2, <1>3, <2>1, ReloopedHas
  <2>3. \A i \in 1 .. m : i # m => i \in 1 .. m - 1
    OBVIOUS
  <2>4. Len(called) = m /\ \A i \in 1 .. m : i # m => called[i] = native[i]
    BY <1>0, <1>3, <2>3 DEF IsRelooped
  <2> QED BY <2>2, <2>4
<1>6. /\ Len(native') = m + 1 /\ native' \in Seq(Calls) /\ \A i \in 1 .. m : native'[i] = called[i]
      /\ native'[m + 1] = e /\ Top(native)' = e /\ native' # <<>>
  BY <1>1, <1>3, <1>5, AppendHas DEF Top
<1>7. ~ Scripted' /\ ~ BackIn'
  BY <1>4, <1>6 DEF Scripted, BackIn
<1>8. /\ frames'[current] \in Stacks /\ SameBelow(frames[current], frames'[current])
      /\ KeepsCalls(frames[current], frames'[current]) /\ FrameOK(current, frames'[current])
      /\ Len(frames'[current]) = Len(frames[current])
  <2>1. frames'[current] \in Stacks /\ SameBelow(frames[current], frames'[current])
    BY <1>2, <1>3, StacksAre DEF IsGrown, SameBelow
  <2> QED BY ZenonT(40), <1>2, <2>1, SameKeeps, FrameSame DEF Sound, FramesOK, SameBelow
<1>9. IsChain(s)'
  BY <1>1, <1>2, ChainKept
<1>10. FramesOK' /\ SuspendedOK' /\ ActiveOK' /\ StruckOK'
  BY <1>1, <1>2, <1>3, <1>8, Quiet
<1>11. CreateOK' /\ ~ Creating'
  <2>1. \A i \in 1 .. Len(native') : native'[i].kind # "create"
    <3>1. \A i \in 1 .. Len(native') : i \in 1 .. m \/ i = m + 1
      BY <1>6
    <3>2. e.kind # "create"
      BY <1>4
    <3> QED BY <1>2, <1>5, <1>6, <3>1, <3>2
  <2> QED BY <1>6, <2>1, CreateNone
<1>12. CurrentOK'
  BY <1>7 DEF CurrentOK
<1>13. WaitingOK(s)'
  BY <1>1, <1>2, <1>3, <1>11, WaitingKept DEF Calm
<1> DEFINE n == Len(frames[current])
           In(i) == native[i].home = current /\ native[i].height = n
<1>14. ASSUME NEW i \in 1 .. m
       PROVE  /\ Stays(i) /\ (Open(i) \/ In(i))
              /\ Open(i) => Open(i)' /\ Depth(i)' = Depth(i)
              /\ In(i) => Depth(i)' = Depth(i) + 1
              /\ Open(i) => ~ In(i)
  <2> DEFINE h == native[i].height
  <2>1. /\ native[i].home \in Context /\ OnChain(native[i].home) /\ h \in Nat \ {0}
        /\ Len(frames[native[i].home]) \in Nat
    BY <1>0, <1>2, NativeHas DEF NativeOK, KindsOK
  <2>2. Open(i) \/ In(i)
    <3>1. i < m => Open(i) \/ SamePlace(i, m)
      BY <1>0, <1>2 DEF NativeOK, OrderOK
    <3>2. i < m \/ i = m
      OBVIOUS
    <3> QED BY <1>2, <3>1, <3>2 DEF SamePlace
  <2>3. Stays(i)
    <3>1. Resumes(i)' = Resumes(i)
      <4>1. CASE i = m
        BY <1>2, <1>5, <1>6, <4>1 DEF Resumes
      <4>2. CASE i # m
        <5>1. i < m
          BY <4>2
        <5> QED BY <1>2, <1>5, <1>6, <4>2, <5>1 DEF Resumes
      <4> QED BY <4>1, <4>2
    <3>2. native'[i].kind = native[i].kind /\ native'[i].home = native[i].home /\ native'[i].height = native[i].height
      BY <1>5, <1>6
    <3> QED BY <1>1, <2>1, <3>1, <3>2 DEF Stays, OnChain
  <2>4. ASSUME Open(i), In(i) PROVE FALSE
    BY <1>2, <2>4 DEF Open
  <2>5. ASSUME Open(i) PROVE Open(i)' /\ Depth(i)' = Depth(i)
    <3>1. KeepsCalls(frames[native[i].home], frames'[native[i].home])
      BY <1>3, <1>8, <2>1 DEF KeepsCalls, OthersKept
    <3>2. native[i].home = Root \/ parent'[native[i].home] # None
      BY <1>1, <2>1 DEF OnChain
    <3>3. i \in 1 .. Len(native)
      BY <1>0
    <3>4. Untouched(i)
      BY <1>2, <1>3, <2>5, <3>1, <3>2, <3>3, OpenIs
    <3> QED BY <2>3, <2>5, <3>4 DEF Stays, Open, Untouched, Depth
  <2>6. ASSUME In(i) PROVE Depth(i)' = Depth(i) + 1
    <3>1. frames'[current][n].depth = frames[current][n].depth + 1
      BY <1>3 DEF IsGrown, Top
    <3> QED BY <2>3, <2>6, <3>1 DEF Stays, Depth
  <2> QED BY <2>2, <2>3, <2>4, <2>5, <2>6
<1>15. /\ \A i, j \in 1 .. m : SamePlace(i, j)' = SamePlace(i, j)
       /\ \A i, j \in 1 .. m : i < j => Ordered(s, i, j)'
       /\ \A i \in 1 .. m : OnChain(native[i].home)' /\ (native'[i].kind = "host" => i = 1 /\ native[i].loop)
       /\ \A i \in 1 .. m : ResumeOK(i)' /\ Based(i)'
  <2>1. m <= Len(native)
    BY <1>0
  <2> QED BY <1>2, <1>14, <2>1, Staying
<1>16. ASSUME NEW i \in 1 .. m
       PROVE  SamePlace(i, m + 1)' <=> In(i)
  <2>1. native'[i].home = native[i].home /\ native'[i].height = native[i].height
    BY <1>14 DEF Stays
  <2> QED BY <1>4, <1>6, <2>1 DEF SamePlace
<1>17. In(m)
  BY <1>2
<1>18. ResumeOK(m + 1)' /\ Based(m + 1)' /\ OnChain(native[m + 1].home)'
  <2>1. Resumes(m + 1)' = NativeReturn
    BY <1>1, <1>3, <1>4, <1>6 DEF Resumes
  <2>2. SamePlace(m, m + 1)' /\ m + 1 - 1 = m /\ m + 1 > 1
    BY <1>2, <1>16, <1>17
  <2>3. ResumeOK(m + 1)'
    BY <2>1, <2>2 DEF ResumeOK
  <2>4. PICK i \in 1 .. m : SamePlace(i, m)' /\ Resumes(i)' \in Point
    <3>1. Based(m)' /\ native'[m].kind # "create"
      BY <1>2, <1>5, <1>6, <1>15
    <3> QED BY <3>1 DEF Based
  <2>5. SamePlace(i, m + 1)' /\ i \in 1 .. m + 1
    BY <1>2, <1>15, <1>16, <1>17, <2>4 DEF SamePlace
  <2>6. Based(m + 1)'
    BY <2>4, <2>5, BasedOn
  <2>7. OnChain(native[m + 1].home)'
    BY <1>1, <1>2, <1>4, <1>6 DEF OnChain
  <2> QED BY <2>3, <2>6, <2>7
<1>19. NativeOK(s)'
  <2>1. TopOK'
    BY <1>1, <1>4, <1>6, <1>7, <1>8 DEF TopOK
  <2>2. \A i \in 1 .. Len(native') :
         /\ i < Len(native') => native'[i].loop
         /\ native'[i].kind = "host" => i = 1 /\ native'[i].loop
         /\ OnChain(native[i].home)'
         /\ ResumeOK(i)' /\ Based(i)'
    <3>1. \A i \in 1 .. m : native'[i].loop
      <4>1. \A i \in 1 .. m : i = m \/ i < m
        OBVIOUS
      <4> QED BY <1>2, <1>5, <1>6, <4>1
    <3>2. \A i \in 1 .. Len(native') : i \in 1 .. m \/ (i = m + 1 /\ ~(i < Len(native')))
      BY <1>6
    <3>3. e.kind # "host"
      BY <1>4
    <3> QED BY <1>6, <1>15, <1>18, <3>1, <3>2, <3>3
  <2>3. \A i, j \in 1 .. Len(native') : i < j => (Open(i)' \/ SamePlace(i, j)') /\ Ordered(s, i, j)'
    <3>1. ASSUME NEW i \in 1 .. m, NEW j \in 1 .. m, i < j
          PROVE  (Open(i)' \/ SamePlace(i, j)') /\ Ordered(s, i, j)'
      <4>1. Open(i) \/ SamePlace(i, j)
        BY <1>0, <1>2, <3>1 DEF NativeOK, OrderOK
      <4> QED BY <1>14, <1>15, <3>1, <4>1
    <3>2. ASSUME NEW i \in 1 .. m
          PROVE  (Open(i)' \/ SamePlace(i, m + 1)') /\ Ordered(s, i, m + 1)'
      <4>1. Open(i)' \/ SamePlace(i, m + 1)'
        BY <1>14, <1>16
      <4>2. CASE i < m
        <5>1. Ordered(s, i, m)'
          BY <1>2, <1>15, <4>2
        <5>2. native'[m + 1].home = native'[m].home /\ native'[m + 1].height = native'[m].height
          BY <1>2, <1>4, <1>5, <1>6
        <5> QED BY <4>1, <5>1, <5>2 DEF Ordered
      <4>3. CASE i = m
        <5>1. native'[m + 1].home = native'[m].home /\ native'[m + 1].height = native'[m].height
          BY <1>2, <1>4, <1>5, <1>6
        <5>2. \A p, q \in 1 .. Len(s) : s[p] = s[q] => p = q
          BY <1>2, ChainHas
        <5>3. native'[m].height \in Nat
          BY <1>2, <1>5, <1>6
        <5>4. Ordered(s, i, m + 1)'
          <6>1. ASSUME NEW p \in 1 .. Len(s), NEW q \in 1 .. Len(s),
                       native'[i].home = s[p], native'[m + 1].home = s[q]
                PROVE  p <= q /\ (p = q => native'[i].height <= native'[m + 1].height)
            BY <4>3, <5>1, <5>2, <5>3, <6>1
          <6> QED BY <6>1 DEF Ordered
        <5> QED BY <4>1, <5>4
      <4> QED BY <4>1, <4>2, <4>3
    <3>3. \A i, j \in 1 .. Len(native') : i < j => i \in 1 .. m /\ (j \in 1 .. m \/ j = m + 1)
      BY <1>6
    <3> QED BY <3>1, <3>2, <3>3
  <2>4. ASSUME NEW i \in 1 .. m + 1, NEW j \in 1 .. m + 1, i <= j, SamePlace(i, j)', Resumes(i)' \in Point,
               j < m + 1 => ~ SamePlace(j, j + 1)'
        PROVE  Level(i, j, 0)'
    <3>1. i # m + 1
      <4>1. Resumes(m + 1)' = NativeReturn
        BY <1>1, <1>3, <1>4, <1>6 DEF Resumes
      <4> QED BY <2>4, <4>1, PointHas
    <3>2. i \in 1 .. m
      BY <3>1
    <3>3. Depth(i) \in Nat
      <4>1. /\ frames[native[i].home] \in Stacks /\ native[i].height \in Nat \ {0}
            /\ Len(frames[native[i].home]) \in Nat
        BY <1>0, <1>2, <3>2, NativeHas
      <4>2. Open(i) => Len(frames[native[i].home]) > native[i].height
        BY DEF Open
      <4>3. native[i].height \in 1 .. Len(frames[native[i].home])
        BY <1>14, <3>2, <4>1, <4>2
      <4> QED BY <4>1, <4>3, StackHas DEF Depth
    <3>4. CASE j = m + 1
      <4>1. In(i)
        BY <1>16, <2>4, <3>2, <3>4
      <4>2. SamePlace(i, m) /\ Resumes(i) \in Point
        BY <1>14, <1>17, <2>4, <3>2, <4>1 DEF SamePlace, Stays
      <4>3. Level(i, m, 0)
        BY <1>0, <1>2, <3>2, <4>2 DEF NativeOK, LevelOK
      <4> DEFINE k == m + 1
      <4>4. Depth(i)' - (k - i) - 0 = Depth(i) - (m - i) - 0
        <5>1. Depth(i)' = Depth(i) + 1
          BY <1>14, <3>2, <4>1
        <5>2. \A d \in Nat : d + 1 - (m + 1 - i) - 0 = d - (m - i) - 0
          BY <3>2
        <5> QED BY <3>3, <5>1, <5>2
      <4>5. Stays(i)
        BY <1>14, <3>2
      <4> HIDE DEF k
      <4>6. Level(i, k, 0)'
        BY <4>3, <4>4, <4>5, LevelStays
      <4> QED BY <3>4, <4>6 DEF k
    <3>5. CASE j # m + 1
      <4>1. j \in 1 .. m /\ j < m + 1
        BY <3>5
      <4>2. j # m
        BY <1>2, <1>16, <1>17, <2>4, <4>1
      <4>3. j < m /\ j + 1 \in 1 .. m
        BY <4>1, <4>2
      <4>4. SamePlace(i, j) /\ Resumes(i) \in Point /\ ~ SamePlace(j, j + 1)
        BY <1>14, <1>15, <2>4, <3>2, <4>1, <4>3 DEF Stays
      <4>5. Level(i, j, 0)
        BY <1>0, <1>2, <2>4, <3>2, <4>1, <4>4 DEF NativeOK, LevelOK
      <4>6. Open(j)
        BY <1>0, <1>2, <4>1, <4>3, <4>4 DEF NativeOK, OrderOK
      <4>7. Open(i)
        BY <4>4, <4>6 DEF Open, SamePlace
      <4>8. Depth(i)' - (j - i) - 0 = Depth(i) - (j - i) - 0 /\ Stays(i)
        BY <1>14, <3>2, <4>7
      <4> QED BY <4>5, <4>8, LevelStays
    <3> QED BY <3>4, <3>5
  <2>5. \A i, j \in 1 .. Len(native') :
           i <= j /\ SamePlace(i, j)' /\ Resumes(i)' \in Point /\ (j < Len(native') => ~ SamePlace(j, j + 1)') =>
             Level(i, j, IF j = Len(native) /\ BackIn THEN 1 ELSE 0)'
    BY <1>6, <1>7, <2>4
  <2> QED BY <1>6, <2>1, <2>2, <2>3, <2>5, NativeAll
<1>20. AwaitedOK'
  <2>1. ASSUME NEW c \in Context, OnChain(c)'
        PROVE  OnChain(c) /\ \A h \in Nat \ {0} :
         h < Len(frames'[c]) /\ frames'[c][h + 1].ret = NativeReturn =>
           h < Len(frames[c]) /\ frames[c][h + 1].ret = NativeReturn
    <3>1. OnChain(c)
      BY <1>1, <2>1 DEF OnChain
    <3> QED BY <1>3, <1>8, <3>1 DEF OthersKept, KeepsCalls
  <2>2. \A i \in 1 .. Len(native) : \E j \in 1 .. Len(native') :
          native'[j].home = native[i].home /\ native'[j].height = native[i].height
    <3>1. \A i \in 1 .. m : i \in 1 .. Len(native') /\ native'[i].home = native[i].home /\ native'[i].height = native[i].height
      BY <1>6, <1>14 DEF Stays
    <3> QED BY <1>0, <3>1
  <2> QED BY <1>2, <1>3, <2>1, <2>2, AwaitedKept DEF Calm
<1> QED BY <1>3, <1>9, <1>10, <1>11, <1>12, <1>13, <1>19, <1>20 DEF IInv, Sound, Calm

(* While native code runs, or the function it called has returned, the     *)
(* native calls in the place of the last one wait for it and the others    *)
(* for functions of theirs.                                                *)
InPlace(i) == native[i].home = current /\ native[i].height = Len(frames[current])

LEMMA PlacesHas ==
  ASSUME TypeOK, NEW s \in Seq(Context), NativeOK(s), ~ Scripted, NEW i \in 1 .. Len(native)
  PROVE  /\ (Open(i) \/ InPlace(i)) /\ (Open(i) => ~ InPlace(i)) /\ Depth(i) \in Nat
         /\ InPlace(Len(native)) /\ Len(native) \in 1 .. Len(native)
         /\ SamePlace(i, Len(native)) <=> InPlace(i)
         /\ native[i].home \in Context /\ OnChain(native[i].home) /\ native[i].height \in Nat \ {0}
<1>1. /\ native # <<>> /\ Top(native) = native[Len(native)] /\ Len(native) \in 1 .. Len(native)
      /\ native[i].home \in Context /\ native[i].height \in Nat \ {0}
      /\ frames[native[i].home] \in Stacks /\ Len(frames[native[i].home]) \in Nat
  BY NativeHas
<1>2. InPlace(Len(native))
  BY <1>1 DEF NativeOK, TopOK, InPlace
<1>3. Open(i) \/ InPlace(i)
  <2>1. i < Len(native) \/ i = Len(native)
    BY <1>1
  <2>2. i < Len(native) => Open(i) \/ SamePlace(i, Len(native))
    BY <1>1 DEF NativeOK, OrderOK
  <2> QED BY <1>2, <2>1, <2>2 DEF SamePlace, InPlace
<1>4. Open(i) => ~ InPlace(i)
  <2>1. Len(frames[current]) \in Nat
    BY Unpacked
  <2> QED BY <2>1 DEF Open, InPlace
<1>5. Depth(i) \in Nat
  <2>1. native[i].height \in 1 .. Len(frames[native[i].home])
    BY <1>1, <1>3 DEF Open, InPlace
  <2> QED BY <1>1, <2>1, StackHas DEF Depth
<1>6. SamePlace(i, Len(native)) <=> InPlace(i)
  BY <1>2 DEF SamePlace, InPlace
<1>7. OnChain(native[i].home)
  BY DEF NativeOK, KindsOK
<1> QED BY <1>1, <1>2, <1>3, <1>4, <1>5, <1>6, <1>7

LEMMA AwaitedFewer ==
  ASSUME TypeOK, TypeOK', AwaitedOK, parent' = parent, OthersKept({current}),
         KeepsCalls(frames[current], frames'[current]), Len(frames'[current]) = Len(frames[current]),
         \A i \in 1 .. Len(native) : InPlace(i) \/ \E j \in 1 .. Len(native') :
           native'[j].home = native[i].home /\ native'[j].height = native[i].height
  PROVE  AwaitedOK'
<1>1. ASSUME NEW c \in Context, OnChain(c)'
      PROVE  OnChain(c) /\ \A h \in Nat \ {0} :
       h < Len(frames'[c]) /\ frames'[c][h + 1].ret = NativeReturn =>
         h < Len(frames[c]) /\ frames[c][h + 1].ret = NativeReturn
  <2>1. OnChain(c)
    BY <1>1 DEF OnChain
  <2> QED BY <2>1 DEF OthersKept, KeepsCalls
<1>2. ASSUME NEW i \in 1 .. Len(native), native[i].height < Len(frames'[native[i].home])
      PROVE  \E j \in 1 .. Len(native') :
               native'[j].home = native[i].home /\ native'[j].height = native[i].height
  <2>1. Len(frames[current]) \in Nat
    BY Unpacked
  <2>2. ~ InPlace(i)
    BY <1>2, <2>1 DEF InPlace
  <2> QED BY <2>2
<1> QED BY <1>1, <1>2, AwaitedKept

LEMMA LeftHas ==
  ASSUME NEW s \in Seq(Calls), s # <<>>, NEW t \in Seq(Calls), NEW old \in Address,
         IsRelooped(s, t, FALSE, old)
  PROVE  LET e == t[Len(s)]
             d == s[Len(s)] IN
         /\ e.kind = d.kind /\ ~ e.loop /\ e.home = d.home /\ e.height = d.height
         /\ Top(t) = e /\ t # <<>>
<1>1. PICK loop \in BOOLEAN : loop = FALSE
  OBVIOUS
<1>2. IsRelooped(s, t, loop, old)
  BY <1>1
<1>3. LET e == t[Len(s)]
          d == s[Len(s)] IN
      /\ e.kind = d.kind /\ e.loop = loop /\ e.home = d.home /\ e.height = d.height
      /\ Top(t) = e /\ t # <<>>
  BY <1>2, ReloopedHas
<1> QED BY <1>1, <1>3

LEMMA FunctionReturnedInv ==
  ASSUME NEW s \in Seq(Context), IInv(s), FunctionReturned
  PROVE  IInv(s)'
<1>0. PICK m \in Nat : m = Len(native)
  BY TypedIs DEF Typed, IInv
<1> DEFINE n == Len(frames[current])
<1>1. /\ TypeOK /\ UNCHANGED <<parent, state, current, failed, struck>> /\ LeaveLoop
      /\ native # <<>> /\ Top(native).loop /\ ~ failed /\ ip[current] = Invalid
      /\ current \in Context
  BY TypedIs DEF IInv, FunctionReturned, errorVars, Typed
<1>2. /\ IsChain(s) /\ Sound /\ Calm(s) /\ NativeOK(s) /\ ~ Scripted /\ BackIn /\ ~ Creating
      /\ \A i \in 1 .. m : native[i].kind # "create"
  BY <1>0, <1>1, NoCreate DEF IInv, Calm, Scripted, BackIn, Sound
<1>3. /\ TypeOK' /\ OthersKept({current})
      /\ frames'[current] = Popped(frames[current]) /\ ip'[current] = Top(native).old
  BY <1>1, FunctionReturnedDoes
<1>4. /\ native \in Seq(Calls) /\ m \in 1 .. m /\ Top(native) = native[m] /\ native[m].loop
      /\ native[m].home = current /\ native[m].height = n
      /\ \A i \in 1 .. m : native[i].loop
      /\ frames[current] \in Stacks /\ frames'[current] \in Stacks /\ n \in Nat \ {0}
      /\ Depth(m) = Top(frames[current]).depth
  <2>1. native \in Seq(Calls)
    BY <1>1, TypedIs DEF Typed
  <2>2. m \in 1 .. m /\ Top(native) = native[m] /\ native[m].loop /\ InPlace(m)
    BY <1>0, <1>1, <1>2, <2>1, TopHas, PlacesHas
  <2>3. \A i \in 1 .. m : i < m \/ i = m
    OBVIOUS
  <2>4. \A i \in 1 .. m : native[i].loop
    BY <1>0, <1>2, <2>2, <2>3 DEF NativeOK, KindsOK
  <2>5. frames[current] \in Stacks /\ frames'[current] \in Stacks /\ n \in Nat \ {0}
    BY <1>1, <1>3, StacksAre, StackHas
  <2> QED BY <2>1, <2>2, <2>4, <2>5 DEF InPlace, Depth, Top
<1>5. \A i \in 1 .. m : Resumes(i) = native[i].old
  BY <1>4 DEF Resumes
<1>6. PICK k \in 1 .. m : SamePlace(k, m) /\ Resumes(k) \in Point
  BY <1>0, <1>2, <1>4 DEF NativeOK, BaseOK
<1>7. ASSUME NEW i \in 1 .. m, SamePlace(i, m), Resumes(i) \in Point
      PROVE  Level(i, m, 1)
  BY <1>0, <1>2, <1>4, <1>7 DEF NativeOK, LevelOK
<1>8. Top(frames[current]).depth \in Nat /\ Top(frames[current]).depth > 0
  <2>1. Resumes(k).depth = Depth(k) - (m - k) - 1 /\ Resumes(k).depth \in Nat
    BY <1>6, <1>7, PointHas DEF Level, Depth, Fits
  <2>2. Depth(k) = Top(frames[current]).depth
    BY <1>4, <1>6 DEF Depth, SamePlace
  <2>3. Top(frames[current]).depth \in Nat
    BY <1>4, StackHas
  <2> QED BY <2>1, <2>2, <2>3
<1>9. /\ SameBelow(frames[current], frames'[current])
      /\ frames'[current][n].depth = frames[current][n].depth - 1
      /\ Top(frames'[current]).depth = Top(frames[current]).depth - 1
      /\ Len(frames'[current]) = n
  <2>1. frames[current][n].depth > 0
    BY <1>8 DEF Top
  <2> QED BY <1>3, <1>4, <2>1, PoppedIs DEF SameBelow, Top
<1>10. FrameOK(current, frames'[current]) /\ KeepsCalls(frames[current], frames'[current])
  BY <1>2, <1>1, <1>4, <1>9, FrameSame, SameKeeps DEF Sound, FramesOK
<1>11. IsChain(s)'
  BY <1>1, <1>2, ChainKept
<1>12. FramesOK' /\ SuspendedOK' /\ ActiveOK' /\ StruckOK'
  BY <1>1, <1>2, <1>3, <1>10, Quiet
<1>13. CASE Top(native).kind = "host"
  <2>1. m = 1
    BY <1>0, <1>2, <1>4, <1>13 DEF NativeOK, KindsOK
  <2>2. native' = <<>>
    BY <1>0, <1>1, <1>4, <1>13, <2>1, RestHas DEF LeaveLoop
  <2>3. CreateOK' /\ ~ Creating' /\ Scripted'
    BY <2>2 DEF CreateOK, Creating, Scripted
  <2>4. CurrentOK'
    <3>1. k = 1
      BY <2>1
    <3>2. Resumes(1) = Top(native).old
      BY <1>4, <1>5, <2>1
    <3>3. Level(1, 1, 1)
      BY <1>6, <1>7, <2>1, <3>1
    <3>4. Depth(1) - (1 - 1) - 1 = Top(frames'[current]).depth
      BY <1>4, <1>8, <1>9, <2>1
    <3>5. Fits(current, ip'[current], n, Top(frames'[current]).depth)
      BY SMTT(20), ZenonT(30), <1>3, <1>4, <2>1, <3>2, <3>3, <3>4 DEF Level, Depth, Fits
    <3> QED BY <1>1, <1>9, <3>5 DEF CurrentOK, Fits, Top
  <2>5. WaitingOK(s)'
    BY <1>1, <1>2, <1>3, <2>3, WaitingKept DEF Calm
  <2>6. NativeOK(s)'
    <3>1. \A i \in 1 .. Len(native') : FALSE
      BY <2>2
    <3>2. TopOK' /\ native' \in Seq(Calls)
      BY <2>2 DEF TopOK
    <3> QED BY <3>1, <3>2, NativeAll
  <2>7. AwaitedOK'
    <3>1. \A i \in 1 .. Len(native) : InPlace(i)
      BY <1>0, <1>4, <2>1 DEF InPlace
    <3> QED BY <1>1, <1>2, <1>3, <1>9, <1>10, <3>1, AwaitedFewer DEF Calm
  <2> QED BY <1>3, <1>11, <1>12, <2>3, <2>4, <2>5, <2>6, <2>7 DEF IInv, Sound, Calm
<1>14. CASE Top(native).kind # "host"
  <2>1. native' \in Seq(Calls) /\ IsRelooped(native, native', FALSE, Top(native).old)
    BY <1>1, <1>14, LeaveLoopIs
  <2>2. /\ Len(native') = m /\ native' # <<>> /\ Top(native)' = native'[m]
        /\ \A i \in 1 .. m : i # m => native'[i] = native[i]
        /\ native'[m].kind = native[m].kind /\ native'[m].home = native[m].home
        /\ native'[m].height = native[m].height /\ ~ native'[m].loop
    <3>2. Top(native).old \in Address
      <4>1. native[m] \in Calls
        BY <1>0, <1>1, <1>4, NativeHas
      <4> QED BY <1>4, <4>1, CallHas
    <3> DEFINE old == Top(native).old

    <3> HIDE DEF old
    <3>5. IsRelooped(native, native', FALSE, old) /\ old \in Address
      BY <2>1, <3>2 DEF old
    <3>6. /\ native'[m].kind = native[m].kind /\ ~ native'[m].loop
          /\ native'[m].home = native[m].home /\ native'[m].height = native[m].height
          /\ Top(native') = native'[m] /\ native' # <<>>
      BY ZenonT(40), <1>0, <1>1, <1>4, <2>1, <3>5, LeftHas
    <3>3. \A i \in 1 .. m : i # m => i \in 1 .. m - 1
      OBVIOUS
    <3>4. Len(native') = m /\ \A i \in 1 .. m : i # m => native'[i] = native[i]
      BY <1>0, <2>1, <3>3 DEF IsRelooped
    <3> QED BY <3>6, <3>4 DEF Top
  <2>3. ~ Scripted' /\ ~ BackIn'
    BY <2>2 DEF Scripted, BackIn
  <2>4. CreateOK' /\ ~ Creating'
    <3>1. \A i \in 1 .. Len(native') : native'[i].kind # "create"
      BY <1>2, <2>2
    <3> QED BY <2>1, <3>1, CreateNone
  <2>5. CurrentOK'
    BY <2>3 DEF CurrentOK
  <2>6. WaitingOK(s)'
    BY <1>1, <1>2, <1>3, <2>4, WaitingKept DEF Calm
  <2>7. ASSUME NEW i \in 1 .. m
        PROVE  /\ Stays(i) /\ (Open(i) \/ InPlace(i))
               /\ Open(i) => Open(i)' /\ Depth(i)' = Depth(i)
               /\ InPlace(i) => Depth(i)' = Depth(i) - 1
               /\ Open(i) => ~ InPlace(i)
               /\ SamePlace(i, m) <=> InPlace(i)
    <3>1. /\ Open(i) \/ InPlace(i)
          /\ Open(i) => ~ InPlace(i)
          /\ SamePlace(i, m) <=> InPlace(i)
          /\ native[i].home \in Context /\ OnChain(native[i].home)
      BY <1>0, <1>1, <1>2, PlacesHas
    <3>2. Stays(i)
      <4>1. Resumes(i)' = Resumes(i)
        <5>1. CASE i = m
          BY <1>1, <1>3, <1>4, <1>5, <2>2, <5>1 DEF Resumes
        <5>2. CASE i # m
          BY <1>4, <2>2, <5>2 DEF Resumes
        <5> QED BY <5>1, <5>2
      <4>2. native'[i].kind = native[i].kind /\ native'[i].home = native[i].home /\ native'[i].height = native[i].height
        BY <2>2
      <4> QED BY <1>1, <3>1, <4>1, <4>2 DEF Stays, OnChain
    <3>3. ASSUME Open(i) PROVE Open(i)' /\ Depth(i)' = Depth(i)
      <4>1. KeepsCalls(frames[native[i].home], frames'[native[i].home])
        BY <1>3, <1>10, <3>1 DEF KeepsCalls, OthersKept
      <4>2. native[i].home = Root \/ parent'[native[i].home] # None
        BY <1>1, <3>1 DEF OnChain
      <4>3. i \in 1 .. Len(native)
        BY <1>0
      <4>4. Untouched(i)
        BY <1>1, <1>3, <3>3, <4>1, <4>2, <4>3, OpenIs
      <4> QED BY <3>2, <3>3, <4>4 DEF Stays, Open, Untouched, Depth
    <3>4. ASSUME InPlace(i) PROVE Depth(i)' = Depth(i) - 1
      BY <1>9, <3>2, <3>4 DEF Stays, Depth, InPlace
    <3> QED BY <3>1, <3>2, <3>3, <3>4
  <2>8. /\ \A i, j \in 1 .. m : SamePlace(i, j)' = SamePlace(i, j)
        /\ \A i, j \in 1 .. m : i < j => Ordered(s, i, j)'
        /\ \A i \in 1 .. m : OnChain(native[i].home)' /\ (native'[i].kind = "host" => i = 1 /\ native[i].loop)
        /\ \A i \in 1 .. m : ResumeOK(i)' /\ Based(i)'
    <3>1. m <= Len(native)
      BY <1>0
    <3> QED BY <1>1, <1>2, <2>7, <3>1, Staying
  <2>9. NativeOK(s)'
    <3>1. TopOK'
      BY <1>1, <1>4, <1>9, <2>2, <2>3 DEF TopOK
    <3>2. \A i \in 1 .. Len(native') :
           /\ i < Len(native') => native'[i].loop
           /\ native'[i].kind = "host" => i = 1 /\ native'[i].loop
           /\ OnChain(native[i].home)'
           /\ ResumeOK(i)' /\ Based(i)'
      <4>1. \A i \in 1 .. m : i = m \/ (i < m /\ i # m)
        OBVIOUS
      <4>2. ~(m < m) /\ native'[m].kind # "host"
        BY <1>4, <1>14, <2>2
      <4> QED BY <1>4, <2>2, <2>8, <4>1, <4>2
    <3>3. \A i, j \in 1 .. Len(native') : i < j => (Open(i)' \/ SamePlace(i, j)') /\ Ordered(s, i, j)'
      <4>1. ASSUME NEW i \in 1 .. m, NEW j \in 1 .. m, i < j
            PROVE  (Open(i)' \/ SamePlace(i, j)') /\ Ordered(s, i, j)'
        <5>1. Open(i) \/ SamePlace(i, j)
          BY <1>0, <1>2, <4>1 DEF NativeOK, OrderOK
        <5> QED BY <2>7, <2>8, <4>1, <5>1
      <4> QED BY <2>2, <4>1
    <3>4. ASSUME NEW i \in 1 .. m, NEW j \in 1 .. m, i <= j, SamePlace(i, j)', Resumes(i)' \in Point,
                 j < m => ~ SamePlace(j, j + 1)'
          PROVE  Level(i, j, 0)'
      <4>1. SamePlace(i, j) /\ Resumes(i) \in Point
        BY <2>7, <2>8, <3>4 DEF Stays
      <4>2. Depth(i) \in Nat
        BY <1>0, <1>1, <1>2, PlacesHas
      <4>3. CASE j = m
        <5>1. Level(i, m, 1)
          BY <1>7, <4>1, <4>3
        <5>2. Depth(i)' = Depth(i) - 1
          BY <2>7, <4>1, <4>3
        <5>3. Depth(i)' - (m - i) - 0 = Depth(i) - (m - i) - 1 /\ Stays(i)
          <6>1. \A d \in Nat : d - 1 - (m - i) - 0 = d - (m - i) - 1
            OBVIOUS
          <6> QED BY <2>7, <4>2, <5>2, <6>1
        <5>4. Level(i, m, 0)'
          BY <5>1, <5>3, LevelStays
        <5> QED BY <4>3, <5>4
      <4>4. CASE j # m
        <5>1. j < m /\ j + 1 \in 1 .. m
          BY <4>4
        <5>2. ~ SamePlace(j, j + 1)
          BY <2>8, <3>4, <5>1
        <5>3. Level(i, j, 0)
          BY <1>0, <1>2, <3>4, <4>1, <4>4, <5>2 DEF NativeOK, LevelOK
        <5>4. Open(j)
          BY <1>0, <1>2, <5>1, <5>2 DEF NativeOK, OrderOK
        <5>5. Open(i)
          BY <4>1, <5>4 DEF Open, SamePlace
        <5>6. Depth(i)' - (j - i) - 0 = Depth(i) - (j - i) - 0 /\ Stays(i)
          BY <2>7, <5>5
        <5> QED BY <5>3, <5>6, LevelStays
      <4> QED BY <4>3, <4>4
    <3>5. \A i, j \in 1 .. Len(native') :
             i <= j /\ SamePlace(i, j)' /\ Resumes(i)' \in Point /\ (j < Len(native') => ~ SamePlace(j, j + 1)') =>
               Level(i, j, IF j = Len(native) /\ BackIn THEN 1 ELSE 0)'
      BY <2>2, <2>3, <3>4
    <3> QED BY <2>1, <3>1, <3>2, <3>3, <3>5, NativeAll
  <2>10. AwaitedOK'
    <3>1. \A i \in 1 .. Len(native) : \E j \in 1 .. Len(native') :
            native'[j].home = native[i].home /\ native'[j].height = native[i].height
      BY <1>0, <2>2, <2>7 DEF Stays
    <3> QED BY <1>1, <1>2, <1>3, <1>9, <1>10, <3>1, AwaitedFewer DEF Calm
  <2> QED BY <1>3, <1>11, <1>12, <2>4, <2>5, <2>6, <2>9, <2>10 DEF IInv, Sound, Calm
<1> QED BY <1>13, <1>14

LEMMA NativeReturnsInv ==
  ASSUME NEW s \in Seq(Context), IInv(s), NativeReturns
  PROVE  IInv(s)'
<1>0. PICK m \in Nat : m = Len(native)
  BY TypedIs DEF Typed, IInv
<1> DEFINE n == Len(frames[current])
<1>1. /\ TypeOK /\ UNCHANGED <<frames, parent, state, current, failed, struck>>
      /\ native # <<>> /\ ~ Top(native).loop /\ Top(native).kind = "call" /\ native' = Rest(native)
      /\ current \in Context /\ IsChain(s) /\ Sound
  BY TypedIs DEF IInv, NativeReturns, NativeRuns, errorVars, Typed
<1>2. /\ TypeOK' /\ OthersKept({current}) /\ ip'[current] = Incremented(ip[current])
  BY <1>1, NativeReturnsDoes
<1>3. ~ Creating /\ \A i \in 1 .. m : native[i].kind # "create"
  <2>1. Top(native).kind # "create"
    BY <1>1
  <2> QED BY <1>0, <1>1, <2>1, NoCreate DEF Sound
<1>4. /\ native \in Seq(Calls) /\ native' \in Seq(Calls) /\ m \in 1 .. m /\ Len(native') = m - 1
      /\ \A i \in 1 .. m - 1 : native'[i] = native[i] /\ i \in 1 .. m
      /\ Top(native) = native[m] /\ ~ native[m].loop
      /\ m > 1 => native' # <<>> /\ Top(native)' = native[m - 1] /\ m - 1 \in 1 .. m
      /\ native' = <<>> <=> m = 1
  <2>1. native \in Seq(Calls)
    BY <1>1, TypedIs DEF Typed
  <2>2. m \in 1 .. m /\ Top(native) = native[m] /\ m \in Nat \ {0}
    BY <1>0, <1>1, <2>1, TopHas
  <2>3. /\ native' \in Seq(Calls) /\ Len(native') = m - 1
        /\ \A i \in 1 .. m - 1 : native'[i] = native[i]
        /\ native' = <<>> <=> m = 1
        /\ m > 1 => Top(native') = native[m - 1]
    BY <1>0, <1>1, <2>1, RestHas
  <2>4. \A i \in 1 .. m - 1 : i \in 1 .. m
    OBVIOUS
  <2>5. m > 1 => m # 1 /\ m - 1 \in 1 .. m
    OBVIOUS
  <2> QED BY <1>1, <2>1, <2>2, <2>3, <2>4, <2>5 DEF Top
<1>5. IsChain(s)'
  BY <1>1, ChainKept
<1>6. FramesOK' /\ SuspendedOK' /\ ActiveOK' /\ StruckOK'
  BY <1>1, <1>2, <1>3, Quiet DEF Sound, FramesOK
<1>7. CreateOK' /\ ~ Creating'
  <2>1. \A i \in 1 .. Len(native') : native'[i].kind # "create"
    BY <1>3, <1>4
  <2> QED BY <1>4, <2>1, CreateNone
<1>8. ASSUME ~ failed' PROVE Calm(s)'
  <2>1. Calm(s) /\ NativeOK(s) /\ ~ Scripted /\ ~ BackIn
    BY <1>1, <1>8 DEF IInv, Calm, Scripted, BackIn
  <2>2. WaitingOK(s)'
    BY <1>1, <1>2, <1>3, <1>7, <2>1, WaitingKept DEF Calm
  <2>3. AwaitedOK'
    <3>1. ASSUME NEW i \in 1 .. Len(native), ~ InPlace(i)
          PROVE  \E j \in 1 .. Len(native') : native'[j].home = native[i].home /\ native'[j].height = native[i].height
      <4>1. InPlace(Len(native))
        BY <1>1, <2>1, PlacesHas
      <4>2. i # m
        BY <1>0, <3>1, <4>1
      <4>3. i \in 1 .. m - 1 /\ i \in 1 .. Len(native')
        BY <1>0, <1>4, <4>2
      <4> QED BY <1>4, <4>3
    <3>2. frames[current] \in Stacks /\ frames'[current] = frames[current]
      BY <1>1, Unpacked
    <3>3. KeepsCalls(frames[current], frames'[current])
      BY <3>2 DEF KeepsCalls
    <3> QED BY <1>1, <1>2, <2>1, <3>1, <3>2, <3>3, AwaitedFewer DEF Calm
  <2>4. /\ InPlace(m) /\ Depth(m) \in Nat /\ SamePlace(m, m) /\ Resumes(m) = ip[current]
        /\ native[m].home = current /\ native[m].height = n /\ Depth(m) = Top(frames[current]).depth
    <3>1. InPlace(m) /\ Depth(m) \in Nat
      BY <1>0, <1>1, <1>4, <2>1, PlacesHas
    <3> QED BY <1>4, <3>1 DEF InPlace, SamePlace, Resumes, Depth, Top
  <2>5. \/ ip[current] \in Point /\ (m > 1 => ~ SamePlace(m - 1, m))
        \/ ip[current] = NativeReturn /\ m > 1 /\ SamePlace(m - 1, m)
    <3>1. \/ /\ Resumes(m) \in Point \/ native[m].kind = "create"
             /\ m > 1 => ~ SamePlace(m - 1, m)
          \/ Resumes(m) = NativeReturn /\ m > 1 /\ SamePlace(m - 1, m)
      BY <1>0, <1>4, <2>1 DEF NativeOK, ResumesOK
    <3> QED BY <1>3, <1>4, <2>4, <3>1
  <2>6. CASE ip[current] \in Point /\ (m > 1 => ~ SamePlace(m - 1, m))
    <3>1. ip'[current] = ip[current] /\ ip'[current'] \in Point
      BY <1>1, <1>2, <2>6, IncrementedIs
    <3>2. \A i \in 1 .. Len(native) - 1 : OnChain(native[i].home)'
      BY <1>0, <1>1, <1>4, <2>1 DEF NativeOK, KindsOK, OnChain
    <3>3. NativeOK(s)'
      BY <1>0, <1>1, <1>4, <2>1, <2>6, <3>1, <3>2, NativePopped
    <3>4. CurrentOK'
      <4>1. Level(m, m, 0)
        BY <1>0, <1>4, <2>1, <2>4, <2>6 DEF NativeOK, LevelOK
      <4>2. Depth(m) - (m - m) - 0 = Top(frames[current]).depth
        BY <2>4
      <4>3. Fits(current, ip[current], n, Top(frames[current]).depth)
        BY <2>4, <4>1, <4>2 DEF Level, Depth
      <4> QED BY <1>1, <3>1, <4>3 DEF CurrentOK, Fits, Top
    <3> QED BY <2>2, <2>3, <3>3, <3>4 DEF Calm
  <2>7. CASE ip[current] = NativeReturn /\ m > 1 /\ SamePlace(m - 1, m)
    <3>1. ip'[current] = Invalid /\ ip'[current'] = Invalid
      BY <1>1, <1>2, <2>7, IncrementedIs
    <3>2. native' # <<>> /\ Top(native)' = native[m - 1] /\ m - 1 \in 1 .. m /\ m - 1 < m
      BY <1>4, <2>7
    <3>3. \A i \in 1 .. m - 1 : native[i].loop
      <4>1. \A i \in 1 .. m - 1 : i \in 1 .. m /\ i < m
        OBVIOUS
      <4> QED BY <1>0, <2>1, <4>1 DEF NativeOK, KindsOK
    <3>4. BackIn' /\ ~ Scripted'
      <4>1. native[m - 1].loop
        BY <2>7, <3>3
      <4> QED BY <3>1, <3>2, <4>1 DEF BackIn, Scripted
    <3>5. CurrentOK'
      BY <3>4 DEF CurrentOK
    <3> DEFINE k == m - 1
    <3>6. k \in Nat /\ k \in 1 .. k /\ k = m - 1 /\ k + 1 = m /\ k < m
      BY <2>7
    <3>7. /\ SamePlace(k, m) /\ Len(native') = k /\ Top(native)' = native[k]
          /\ \A i \in 1 .. k : native'[i] = native[i] /\ i \in 1 .. m /\ native[i].loop
      BY <1>4, <2>7, <3>2, <3>3
    <3> HIDE DEF k
    <3>8. ASSUME NEW i \in 1 .. k
          PROVE  Stays(i) /\ Depth(i)' = Depth(i) /\ Depth(i) \in Nat /\ (Open(i)' <=> Open(i))
      <4>1. /\ native'[i] = native[i] /\ native[i].loop
            /\ OnChain(native[i].home) /\ Depth(i) \in Nat
        BY <1>0, <1>1, <2>1, <3>7, PlacesHas
      <4>2. Resumes(i)' = Resumes(i)
        BY <4>1 DEF Resumes
      <4> QED BY <1>1, <4>1, <4>2 DEF Stays, OnChain, Depth, Open
    <3>9. /\ \A i, j \in 1 .. k : SamePlace(i, j)' = SamePlace(i, j)
          /\ \A i, j \in 1 .. k : i < j => Ordered(s, i, j)'
          /\ \A i \in 1 .. k : OnChain(native[i].home)' /\ (native'[i].kind = "host" => i = 1 /\ native[i].loop)
          /\ \A i \in 1 .. k : ResumeOK(i)' /\ Based(i)'
      <4>1. k <= Len(native)
        BY <1>0, <3>6
      <4> QED BY <1>1, <2>1, <3>6, <3>8, <4>1, Staying
    <3>10. NativeOK(s)'
      <4>1. TopOK'
        <5>1. native[k].home = current /\ native[k].height = n
          BY <2>4, <3>7 DEF SamePlace
        <5> QED BY <1>1, <3>4, <3>7, <5>1 DEF TopOK
      <4>2. \A i \in 1 .. Len(native') :
             /\ i < Len(native') => native'[i].loop
             /\ native'[i].kind = "host" => i = 1 /\ native'[i].loop
             /\ OnChain(native[i].home)'
             /\ ResumeOK(i)' /\ Based(i)'
        BY <3>7, <3>9
      <4>3. \A i, j \in 1 .. Len(native') : i < j => (Open(i)' \/ SamePlace(i, j)') /\ Ordered(s, i, j)'
        <5>1. ASSUME NEW i \in 1 .. k, NEW j \in 1 .. k, i < j
              PROVE  (Open(i)' \/ SamePlace(i, j)') /\ Ordered(s, i, j)'
          <6>1. Open(i) \/ SamePlace(i, j)
            BY <1>0, <2>1, <3>7, <5>1 DEF NativeOK, OrderOK
          <6> QED BY <3>8, <3>9, <5>1, <6>1
        <5> QED BY <3>7, <5>1
      <4>4. ASSUME NEW i \in 1 .. k, NEW j \in 1 .. k, i <= j, SamePlace(i, j)', Resumes(i)' \in Point,
                   j < k => ~ SamePlace(j, j + 1)'
            PROVE  Level(i, j, IF j = k THEN 1 ELSE 0)'
        <5>1. SamePlace(i, j) /\ Resumes(i) \in Point
          BY <3>8, <3>9, <4>4 DEF Stays
        <5>2. CASE j = k
          <6>1. SamePlace(i, m) /\ m \in 1 .. Len(native) /\ i <= m /\ ~(m < Len(native)) /\ i \in 1 .. Len(native)
            BY <1>0, <1>4, <3>6, <3>7, <5>1, <5>2 DEF SamePlace
          <6>2. Level(i, m, 0)
            BY <2>1, <5>1, <6>1 DEF NativeOK, LevelOK
          <6>3. \A d \in Nat : d - (k - i) - 1 = d - (m - i) - 0
            BY <3>6
          <6>4. Depth(i)' - (k - i) - 1 = Depth(i) - (m - i) - 0 /\ Stays(i)
            BY <3>8, <6>3
          <6>5. Level(i, k, 1)'
            BY <6>2, <6>4, LevelStays
          <6> QED BY <5>2, <6>5
        <5>3. CASE j # k
          <6>1. j < k /\ j + 1 \in 1 .. k /\ j < m
            BY <3>6, <5>3
          <6>2. ~ SamePlace(j, j + 1)
            BY <3>9, <4>4, <6>1
          <6>3. Level(i, j, 0)
            BY <1>0, <2>1, <3>7, <4>4, <5>1, <6>1, <6>2 DEF NativeOK, LevelOK
          <6>4. Depth(i)' - (j - i) - 0 = Depth(i) - (j - i) - 0 /\ Stays(i)
            BY <3>8
          <6>5. Level(i, j, 0)'
            BY <6>3, <6>4, LevelStays
          <6> QED BY <5>3, <6>5
        <5> QED BY <5>2, <5>3
      <4>5. \A i, j \in 1 .. Len(native') :
               i <= j /\ SamePlace(i, j)' /\ Resumes(i)' \in Point /\ (j < Len(native') => ~ SamePlace(j, j + 1)') =>
                 Level(i, j, IF j = Len(native) /\ BackIn THEN 1 ELSE 0)'
        BY <3>4, <3>7, <4>4
      <4> QED BY <1>4, <4>1, <4>2, <4>3, <4>5, NativeAll
    <3> QED BY <2>2, <2>3, <3>5, <3>10 DEF Calm
  <2> QED BY <2>5, <2>6, <2>7
<1> QED BY <1>2, <1>5, <1>6, <1>7, <1>8 DEF IInv, Sound

LEMMA NativeCoroutineReturnsInv ==
  ASSUME NEW s \in Seq(Context), IInv(s), NativeCoroutineReturns
  PROVE  IInv(Rest(s))' /\ Rest(s) \in Seq(Context)
<1>0. PICK m \in Nat : m = Len(native)
  BY TypedIs DEF Typed, IInv
<1> DEFINE t == Rest(s)
<1>1. /\ TypeOK /\ frames' = frames /\ failed' = failed /\ IsChain(s) /\ Sound /\ current \in Context
      /\ native # <<>> /\ ~ Top(native).loop /\ Top(native).kind = "create" /\ native' = Rest(native)
      /\ parent' = [parent EXCEPT ![current] = None] /\ current' = parent[current]
      /\ state' = [c \in Context |-> IF c \in Unfinished THEN "none" ELSE state[c]]
      /\ struck' = struck \ Unfinished
  BY TypedIs DEF IInv, NativeCoroutineReturns, NativeRuns, PopExecutionContext, Typed
<1>2. /\ TypeOK' /\ parent[current] \in Context /\ OthersKept({parent[current]})
      /\ ip'[parent[current]] = Incremented(ip[parent[current]])
  BY <1>1, NativeCoroutineReturnsDoes
<1>3. IsChain(t)' /\ t \in Seq(Context) /\ parent[current] # None
  BY <1>1, GiveWayChains
<1> DEFINE p == parent[current]
<1>4. /\ p # current /\ p = s[Len(s) - 1] /\ Len(s) > 1
      /\ Len(s) \in Nat \ {0} /\ \A i \in 1 .. Len(s) : s[i] \in Context
      /\ s[Len(s)] = current
      /\ \A i, j \in 1 .. Len(s) : s[i] = s[j] => i = j
      /\ \A i \in 2 .. Len(s) : parent[s[i]] # None
      /\ s[1] = Root
  BY <1>1, <1>3, ChainHas
<1>5. s # <<>> /\ Len(t) = Len(s) - 1 /\ \A i \in 1 .. Len(s) - 1 : t[i] = s[i]
  <2>1. s # <<>>
    BY <1>1 DEF IsChain
  <2> QED BY <2>1, RestHas
<1> HIDE DEF t
<1>6. OnChain(p)
  <2>1. Len(s) - 1 = 1 \/ Len(s) - 1 \in 2 .. Len(s)
    <3>1. \A n \in Nat : n > 1 => n - 1 = 1 \/ n - 1 \in 2 .. n
      OBVIOUS
    <3>2. Len(s) \in Nat /\ Len(s) > 1
      BY <1>4
    <3> QED BY <3>1, <3>2
  <2> QED BY <1>4, <2>1 DEF OnChain
<1>7. /\ native \in Seq(Calls) /\ native' \in Seq(Calls) /\ m \in 1 .. m /\ Len(native') = m - 1
      /\ \A i \in 1 .. m - 1 : native'[i] = native[i] /\ i \in 1 .. m /\ i # m
      /\ Top(native) = native[m] /\ ~ native[m].loop /\ native[m].kind = "create"
  <2>1. native \in Seq(Calls)
    BY <1>1, TypedIs DEF Typed
  <2>2. m \in 1 .. m /\ Top(native) = native[m] /\ m \in Nat \ {0}
    BY <1>0, <1>1, <2>1, TopHas
  <2>3. /\ native' \in Seq(Calls) /\ Len(native') = m - 1
        /\ \A i \in 1 .. m - 1 : native'[i] = native[i]
    BY <1>0, <1>1, <2>1, RestHas
  <2>4. \A i \in 1 .. m - 1 : i \in 1 .. m /\ i # m
    OBVIOUS
  <2> QED BY <1>1, <2>1, <2>2, <2>3, <2>4
<1>8. /\ native[m].height = 1 /\ native[m].home = current /\ current \in Co
      /\ state[current] = "created" /\ Len(frames[current]) = 1 /\ ip[current] = Invalid
      /\ \A i \in 1 .. m - 1 : native[i].kind # "create"
  BY <1>0, <1>1, <1>7 DEF Sound, CreateOK
<1>9. Unfinished = IF failed THEN {current} ELSE {}
  BY <1>7, <1>8 DEF Unfinished
<1>10. /\ parent'[current] = None /\ \A d \in Context \ {current} : parent'[d] = parent[d] /\ state'[d] = state[d]
       /\ state'[current] = IF failed THEN "none" ELSE "created"
       /\ ip'[current] = ip[current] /\ struck' = IF failed THEN struck \ {current} ELSE struck
  BY <1>1, <1>2, <1>4, <1>8, <1>9, TypedIs DEF Typed, OthersKept
<1>11. CreateOK' /\ ~ Creating'
  <2>1. \A i \in 1 .. Len(native') : native'[i].kind # "create"
    BY <1>7, <1>8
  <2> QED BY <1>7, <2>1, CreateNone
<1>12. FramesOK'
  BY <1>1 DEF Sound, FramesOK, FrameOK, Fits
<1>13. SuspendedOK'
  <2>1. ASSUME NEW d \in Co, parent'[d] = None PROVE Suspended(d)'
    <3>1. CASE d = current
      <4>1. state'[d] # "running" /\ ip'[d] = Invalid
        BY <1>8, <1>10, <3>1
      <4> QED BY <4>1 DEF Suspended
    <3>2. CASE d # current
      <4>1. d \in Context /\ parent[d] = None /\ d # p /\ Suspended(d)
        BY <1>1, <1>6, <1>10, <2>1, <3>2, Ranges DEF OnChain, Sound, SuspendedOK
      <4>2. frames'[d] = frames[d] /\ ip'[d] = ip[d] /\ state'[d] = state[d]
        BY <1>1, <1>2, <1>10, <3>2, <4>1 DEF OthersKept
      <4> QED BY <4>1, <4>2, SuspendedKept
    <3> QED BY <3>1, <3>2
  <2> QED BY <2>1 DEF SuspendedOK
<1>14. ActiveOK'
  <2>1. ASSUME NEW d \in Co, parent'[d] # None PROVE state'[d] = "running"
    <3>1. d # current /\ d \in Context
      BY <1>10, <2>1, Ranges
    <3>2. state[d] = "running"
      BY <1>1, <1>10, <2>1, <3>1 DEF Sound, ActiveOK
    <3> QED BY <1>10, <3>1, <3>2
  <2> QED BY <2>1 DEF ActiveOK
<1>15. StruckOK'
  <2>1. ASSUME NEW d \in struck' PROVE state'[d] = "invalid" \/ (failed' /\ parent'[d] # None)
    <3>1. d \in struck /\ d \in Context
      BY <1>1, <1>10, TypedIs, Ranges DEF Typed
    <3>2. state[d] = "invalid" \/ (failed /\ parent[d] # None)
      BY <1>1, <3>1 DEF Sound, StruckOK
    <3>3. d # current
      BY <1>8, <1>10, <2>1, <3>2
    <3> QED BY <1>1, <1>10, <3>1, <3>2, <3>3
  <2> QED BY <2>1 DEF StruckOK
<1>16. ASSUME ~ failed' PROVE Calm(t)'
  <2>1. Calm(s) /\ NativeOK(s) /\ ~ Scripted /\ ~ BackIn /\ Creating
    BY <1>1, <1>16 DEF IInv, Calm, Scripted, BackIn, Creating
  <2>2. Fits(p, ip[p], Len(frames[p]), Top(frames[p]).depth) /\ ip'[p] = ip[p] /\ ip[p] \in Point
    <3>1. Len(s) - 1 \in 1 .. Len(s) - 1
      BY <1>4
    <3>2. Fits(p, ip[p], Len(frames[p]), Top(frames[p]).depth + 0)
      BY <1>4, <2>1, <3>1 DEF Calm, WaitingOK
    <3>3. Top(frames[p]).depth \in Nat
      BY <1>1, <1>2, StacksAre, StackHas
    <3>4. Top(frames[p]).depth + 0 = Top(frames[p]).depth
      BY <3>3
    <3>5. ip[p] \in Point
      BY <3>2 DEF Fits
    <3> QED BY <1>2, <3>2, <3>4, <3>5, IncrementedIs
  <2>3. CurrentOK'
    BY <1>1, <2>2 DEF CurrentOK, Fits, Top
  <2>4. WaitingOK(t)'
    <3>1. ASSUME NEW i \in 1 .. Len(t) - 1
          PROVE  Fits(t[i], ip'[t[i]], Len(frames'[t[i]]), Top(frames'[t[i]]).depth + 1)
      <4>1. /\ i \in 1 .. Len(s) - 1 /\ i \in 1 .. Len(s)
            /\ Len(s) - 1 \in 1 .. Len(s) /\ i # Len(s) - 1
        BY <1>4, <1>5
      <4>2. s[i] # p /\ s[i] \in Context /\ t[i] = s[i]
        BY <1>4, <1>5, <4>1
      <4>3. Fits(s[i], ip[s[i]], Len(frames[s[i]]), Top(frames[s[i]]).depth + 1)
        BY <2>1, <4>1 DEF Calm, WaitingOK
      <4>4. frames'[s[i]] = frames[s[i]] /\ ip'[s[i]] = ip[s[i]]
        BY <1>2, <4>2 DEF OthersKept
      <4> QED BY <4>2, <4>3, <4>4
    <3> QED BY <1>11, <3>1 DEF WaitingOK, Fits, Top
  <2>5. ASSUME NEW i \in 1 .. m - 1, Open(i)
        PROVE  native[i].home # current /\ OnChain(native[i].home)'
    <3>1. i \in 1 .. Len(native) /\ native[i].height \in Nat \ {0} /\ native[i].home \in Context
          /\ OnChain(native[i].home)
      BY <1>0, <1>1, <1>7, <2>1, NativeHas DEF NativeOK, KindsOK
    <3>2. native[i].home # current
      BY <1>8, <2>5, <3>1 DEF Open
    <3>3. native'[i].home = native[i].home
      BY <1>7
    <3> QED BY <1>10, <3>1, <3>2, <3>3 DEF OnChain
  <2>6. NativeOK(t)'
    <3>1. m > 1 => ~ SamePlace(m - 1, m)
      <4>1. Resumes(m) # NativeReturn
        BY <1>7, <1>8, ContextAssumption DEF Resumes
      <4> QED BY <1>0, <1>7, <2>1, <4>1 DEF NativeOK, ResumesOK
    <3>2. ip'[current'] \in Point
      BY <1>1, <2>2
    <3>3. \A i \in 1 .. Len(native) - 1 : Open(i) =>
           \A q \in 1 .. Len(t) : t[q] = native[i].home => q \in 1 .. Len(s) /\ s[q] = t[q]
      <4>1. \A q \in 1 .. Len(t) : q \in 1 .. Len(s) - 1 /\ q \in 1 .. Len(s)
        BY <1>4, <1>5
      <4> QED BY <1>5, <4>1
    <3> QED BY <1>0, <1>1, <1>3, <1>7, <2>1, <2>5, <3>1, <3>2, <3>3, NativePopped
  <2>7. AwaitedOK'
    <3>1. ASSUME NEW c \in Context, OnChain(c)'
          PROVE  OnChain(c)
      <4>1. current # Root
        BY <1>1, <1>3, ChainHas
      <4> QED BY <1>10, <3>1, <4>1 DEF OnChain
    <3>2. ASSUME NEW i \in 1 .. Len(native), native[i].height < Len(frames'[native[i].home])
          PROVE  \E j \in 1 .. Len(native') : native'[j].home = native[i].home /\ native'[j].height = native[i].height
      <4>1. i # m
        <5>1. Len(frames'[native[m].home]) = 1
          BY <1>1, <1>8
        <5>2. native[m].height = 1
          BY <1>8
        <5>3. i = m => 1 < 1
          BY <3>2, <5>1, <5>2
        <5> QED BY <5>3
      <4>2. i \in 1 .. m - 1 /\ i \in 1 .. Len(native')
        BY <1>0, <1>7, <4>1
      <4> QED BY <1>7, <4>2
    <3> QED BY <1>1, <1>2, <2>1, <3>1, <3>2, AwaitedKept DEF Calm
  <2> QED BY <2>3, <2>4, <2>6, <2>7 DEF Calm
<1> QED BY <1>2, <1>3, <1>11, <1>12, <1>13, <1>14, <1>15, <1>16 DEF IInv, Sound, t

(***************************************************************************)
(* Failure, and what happens outside the contexts that wait.               *)
(***************************************************************************)
LEMMA CalmKept ==
  ASSUME TypeOK, TypeOK', NEW s \in Seq(Context), IsChain(s), Calm(s),
         native' = native, parent' = parent, current' = current,
         \A c \in Context : OnChain(c) => frames'[c] = frames[c] /\ ip'[c] = ip[c]
  PROVE  Calm(s)'
<1>1. /\ Len(s) \in Nat \ {0} /\ \A i \in 1 .. Len(s) : s[i] \in Context /\ OnChain(s[i])
      /\ current \in Context /\ OnChain(current)
  <2>1. /\ Len(s) \in Nat \ {0} /\ \A i \in 1 .. Len(s) : s[i] \in Context
        /\ \A i \in 2 .. Len(s) : parent[s[i]] # None
        /\ s[1] = Root /\ s[Len(s)] = current
    BY ChainHas
  <2>2. \A i \in 1 .. Len(s) : i = 1 \/ i \in 2 .. Len(s)
    BY <2>1
  <2>3. \A i \in 1 .. Len(s) : OnChain(s[i])
    BY <2>1, <2>2 DEF OnChain
  <2>4. Len(s) \in 1 .. Len(s)
    BY <2>1
  <2> QED BY <2>1, <2>3, <2>4
<1>2. frames'[current] = frames[current] /\ ip'[current] = ip[current]
  BY <1>1
<1>3. ~ (Scripted' /\ ~ Scripted) /\ ~ (Scripted /\ ~ Scripted') /\ BackIn' = BackIn /\ Creating' = Creating
  BY <1>2 DEF Scripted, BackIn, Creating, Top
<1>4. \A i \in 1 .. Len(native) : /\ native[i].home \in Context /\ OnChain(native[i].home)
                                  /\ frames'[native[i].home] = frames[native[i].home]
  <2>1. \A i \in 1 .. Len(native) : native[i].home \in Context /\ OnChain(native[i].home)
    BY NativeHas DEF Calm, NativeOK, KindsOK
  <2> QED BY <2>1
<1>5. \A i \in 1 .. Len(native) : Open(i)' = Open(i)
  BY <1>4 DEF Open
<1>6. \A i, j \in 1 .. Len(native) : SamePlace(i, j)' = SamePlace(i, j)
  BY DEF SamePlace
<1>7. \A i \in 1 .. Len(native) : Resumes(i)' = Resumes(i)
  BY <1>2 DEF Resumes
<1>8. CurrentOK'
  BY <1>2, <1>3 DEF Calm, CurrentOK, Fits, Top
<1>9. WaitingOK(s)'
  <2>1. \A i \in 1 .. Len(s) - 1 : frames'[s[i]] = frames[s[i]] /\ ip'[s[i]] = ip[s[i]]
    BY <1>1
  <2> QED BY <1>3, <2>1 DEF Calm, WaitingOK, Fits, Top
<1>10. KindsOK'
  BY DEF Calm, NativeOK, KindsOK, OnChain
<1>11. OrderOK(s)'
  <2>1. \A i, j \in 1 .. Len(native) : i < j => (Open(i) \/ SamePlace(i, j)) /\ Ordered(s, i, j)
    BY DEF Calm, NativeOK, OrderOK
  <2>2. \A i, j \in 1 .. Len(native) : Ordered(s, i, j)' = Ordered(s, i, j)
    BY DEF Ordered
  <2>3. \A i, j \in 1 .. Len(native) : i < j => (Open(i)' \/ SamePlace(i, j)') /\ Ordered(s, i, j)'
    BY <1>5, <1>6, <2>1, <2>2
  <2> QED BY <2>3 DEF OrderOK
<1>12. TopOK'
  BY <1>2, <1>3, <1>5, NativeHas DEF Calm, NativeOK, TopOK, Top
<1>13. ResumesOK'
  BY <1>7 DEF Calm, NativeOK, ResumesOK, SamePlace
<1>14. LevelOK'
  <2>1. \A i, j \in 1 .. Len(native) : \A above : Level(i, j, above)' = Level(i, j, above)
    BY <1>4, <1>7 DEF Level, Fits
  <2>2. \A j \in 1 .. Len(native) : (j < Len(native) => ~ SamePlace(j, j + 1)') <=> (j < Len(native) => ~ SamePlace(j, j + 1))
    BY DEF SamePlace
  <2>3. ASSUME NEW i \in 1 .. Len(native), NEW j \in 1 .. Len(native), i <= j, SamePlace(i, j)',
               Resumes(i)' \in Point, j < Len(native) => ~ SamePlace(j, j + 1)'
        PROVE  Level(i, j, IF j = Len(native) /\ BackIn THEN 1 ELSE 0)
    BY <1>6, <1>7, <2>2, <2>3 DEF Calm, NativeOK, LevelOK
  <2>4. ASSUME NEW i \in 1 .. Len(native), NEW j \in 1 .. Len(native), i <= j, SamePlace(i, j)',
               Resumes(i)' \in Point, j < Len(native) => ~ SamePlace(j, j + 1)'
        PROVE  Level(i, j, IF j = Len(native) /\ BackIn THEN 1 ELSE 0)'
    BY <1>3, <2>1, <2>3, <2>4
  <2> QED BY <2>4 DEF LevelOK
<1>15. BaseOK'
  <2>1. ASSUME NEW j \in 1 .. Len(native), native[j].kind # "create"
        PROVE  \E i \in 1 .. j : SamePlace(i, j)' /\ Resumes(i)' \in Point
    <3>1. PICK i \in 1 .. j : SamePlace(i, j) /\ Resumes(i) \in Point
      BY <2>1 DEF Calm, NativeOK, BaseOK
    <3>2. i \in 1 .. Len(native)
      BY TypedIs DEF Typed
    <3> QED BY <1>6, <1>7, <3>1, <3>2
  <2> QED BY <2>1 DEF BaseOK
<1>16. AwaitedOK'
  <2>1. ASSUME NEW c \in Context, OnChain(c)' PROVE OnChain(c) /\ frames'[c] = frames[c]
    BY <2>1 DEF OnChain
  <2> QED BY <2>1 DEF Calm, AwaitedOK, OnChain
<1> QED BY <1>8, <1>9, <1>10, <1>11, <1>12, <1>13, <1>14, <1>15, <1>16 DEF Calm, NativeOK

(* The coroutines struck by an error are active.                           *)
LEMMA StruckAre ==
  ASSUME TypeOK, NEW s \in Seq(Context), IsChain(s), Fail
  PROVE  failed' /\ \A c \in struck' : c \in struck \/ parent[c] # None
<1>1. \A c \in Waiting \ {Root} : parent[c] # None
  <2>1. ASSUME NEW i \in 1 .. Len(s), s[i] # Root PROVE parent[s[i]] # None
    <3>1. i \in 2 .. Len(s)
      BY <2>1, ChainHas
    <3> QED BY <3>1, ChainHas
  <2> QED BY <2>1, WaitingIs
<1> QED BY <1>1 DEF Fail

LEMMA RuntimeErrorInv ==
  ASSUME NEW s \in Seq(Context), IInv(s), RuntimeError
  PROVE  IInv(s)'
<1>1. /\ TypeOK /\ Running /\ Room /\ Fail /\ UNCHANGED <<parent, state, current, native>>
      /\ current \in Context
  BY TypedIs DEF IInv, RuntimeError, Typed
<1>2. /\ IsChain(s) /\ Sound /\ ~ failed /\ ~ Creating
      /\ \A i \in 1 .. Len(native) : native[i].kind # "create"
  BY <1>1, RunningHas
<1>3. /\ TypeOK' /\ OthersKept({current}) /\ SameBelow(frames[current], frames'[current])
  BY <1>1, RuntimeErrorDoes DEF SameBelow
<1>4. FrameOK(current, frames'[current])
  BY <1>1, <1>2, <1>3, StacksAre, FrameSame DEF Sound, FramesOK
<1>5. failed' /\ \A c \in struck' : c \in struck \/ parent[c] # None
  BY <1>1, <1>2, StruckAre
<1>6. IsChain(s)'
  BY <1>1, <1>2, ChainKept
<1>7. FramesOK' /\ SuspendedOK' /\ ActiveOK' /\ StruckOK'
  BY <1>1, <1>2, <1>3, <1>4, <1>5, Quiet
<1>8. CreateOK'
  BY <1>1, <1>2 DEF CreateOK
<1> QED BY <1>3, <1>5, <1>6, <1>7, <1>8 DEF IInv, Sound

LEMMA NativeErrorInv ==
  ASSUME NEW s \in Seq(Context), IInv(s), NativeError
  PROVE  IInv(s)'
<1>1. TypeOK /\ Fail /\ UNCHANGED <<frames, ip, parent, state, current, native>> /\ IsChain(s) /\ Sound /\ ~ failed
  BY DEF IInv, NativeError
<1>2. TypeOK'
  BY <1>1, NativeErrorDoes
<1>3. failed' /\ \A c \in struck' : c \in struck \/ parent[c] # None
  BY <1>1, StruckAre
<1>4. IsChain(s)'
  BY <1>1, ChainKept
<1>5. FramesOK'
  BY <1>1 DEF Sound, FramesOK, FrameOK, Fits
<1>6. SuspendedOK'
  <2>1. ASSUME NEW c \in Co, parent[c] = None PROVE Suspended(c)'
    <3>1. c \in Context /\ Suspended(c)
      BY <1>1, <2>1, Ranges DEF Sound, SuspendedOK
    <3> QED BY <1>1, <3>1, SuspendedKept
  <2> QED BY <1>1, <2>1 DEF SuspendedOK
<1>7. ActiveOK'
  BY <1>1 DEF Sound, ActiveOK, Creating, Top
<1>8. CreateOK'
  BY <1>1 DEF Sound, CreateOK
<1>9. StruckOK'
  BY <1>1, <1>3 DEF Sound, StruckOK
<1> QED BY <1>2, <1>3, <1>4, <1>5, <1>6, <1>7, <1>8, <1>9 DEF IInv, Sound

(* A loop that ends leaves no creation in progress.                        *)
LEMMA LeaveNone ==
  ASSUME TypeOK, CreateOK, native # <<>>, Top(native).loop, LeaveLoop
  PROVE  ~ Creating /\ ~ Creating' /\ CreateOK'
<1>1. native \in Seq(Calls) /\ Top(native) = native[Len(native)]
  BY TypedIs, TopHas DEF Typed
<1>2. ~ Creating /\ \A i \in 1 .. Len(native) : native[i].kind # "create"
  BY NoCreate
<1>3. native' \in Seq(Calls)
  BY <1>1, LeaveLoopIs
<1>4. ASSUME NEW i \in 1 .. Len(native') PROVE native'[i].kind # "create"
  <2>1. CASE Top(native).kind = "host"
    <3>1. native' = Rest(native)
      BY <1>1, <2>1, LeaveLoopIs
    <3>2. Len(native') = Len(native) - 1 /\ \A k \in 1 .. Len(native) - 1 : native'[k] = native[k]
      BY <1>1, <3>1, RestHas
    <3>3. i \in 1 .. Len(native) - 1 /\ i \in 1 .. Len(native)
      BY <1>1, <3>2
    <3> QED BY <1>2, <3>2, <3>3
  <2>2. CASE Top(native).kind # "host"
    <3>1. IsRelooped(native, native', FALSE, Top(native).old)
      BY <1>1, <2>2, LeaveLoopIs
    <3>2. Top(native).old \in Address
      BY <1>1, TopHas, CallHas
    <3>3. native'[Len(native)].kind = native[Len(native)].kind
      BY <1>1, <1>3, <3>1, <3>2, LeftHas
    <3>6. Len(native) \in 1 .. Len(native)
      BY <1>1, TopHas
    <3>4. i \in 1 .. Len(native) /\ (i # Len(native) => i \in 1 .. Len(native) - 1)
      BY <1>1, <3>1 DEF IsRelooped
    <3>5. i # Len(native) => native'[i] = native[i]
      BY <3>1, <3>4 DEF IsRelooped
    <3> QED BY <1>2, <3>3, <3>4, <3>5, <3>6
  <2> QED BY <2>1, <2>2
<1> QED BY <1>2, <1>3, <1>4, CreateNone

LEMMA FunctionFailedInv ==
  ASSUME NEW s \in Seq(Context), IInv(s), FunctionFailed
  PROVE  IInv(s)'
<1>1. /\ TypeOK /\ UNCHANGED <<parent, state, current, failed, struck>> /\ LeaveLoop
      /\ native # <<>> /\ Top(native).loop /\ failed /\ IsChain(s) /\ Sound /\ current \in Context
      /\ native \in Seq(Calls) /\ Top(native) = native[Len(native)]
  BY TypedIs, TopHas DEF IInv, FunctionFailed, errorVars, Typed
<1>2. ~ Creating /\ \A i \in 1 .. Len(native) : native[i].kind # "create"
  BY <1>1, NoCreate DEF Sound
<1>3. /\ TypeOK' /\ OthersKept({current})
      /\ frames'[current] \in {frames[current], Popped(frames[current])}
  BY <1>1, FunctionFailedDoes
<1>4. SameBelow(frames[current], frames'[current]) /\ frames[current] \in Stacks /\ frames'[current] \in Stacks
  BY <1>1, <1>3, StacksAre, PoppedIs DEF SameBelow
<1>5. FrameOK(current, frames'[current])
  BY <1>1, <1>4, FrameSame DEF Sound, FramesOK
<1>6. IsChain(s)'
  BY <1>1, ChainKept
<1>7. FramesOK' /\ SuspendedOK' /\ ActiveOK' /\ StruckOK'
  BY <1>1, <1>2, <1>3, <1>5, Quiet
<1>8. CreateOK'
  BY <1>1, LeaveNone DEF Sound
<1>9. failed'
  BY <1>1
<1> QED BY <1>3, <1>6, <1>7, <1>8, <1>9 DEF IInv, Sound

LEMMA ClearReplErrorStateInv ==
  ASSUME NEW s \in Seq(Context), IInv(s), ClearReplErrorState
  PROVE  IInv(<<Root>>)' /\ <<Root>> \in Seq(Context)
<1> DEFINE t == <<Root>>
<1>1. /\ TypeOK /\ IsChain(s) /\ Sound /\ native = <<>> /\ native' = <<>> /\ struck' = struck
      /\ current' = Root /\ ~ failed'
  BY DEF IInv, ClearReplErrorState
<1>2. TypeOK' /\ IsChain(t)' /\ t \in Seq(Context)
  BY <1>1, ClearReplErrorStateDoes, ClearChains
<1>3. \A c \in Context : IF c \in Waiting
        THEN frames'[c] = Empty /\ ip'[c] = Start /\ parent'[c] = None /\ state'[c] = "invalid"
        ELSE frames'[c] = frames[c] /\ ip'[c] = ip[c] /\ parent'[c] = parent[c] /\ state'[c] = state[c]
  BY DEF ClearReplErrorState, Cleared
<1>4. \A c \in Co : c \notin Waiting => parent[c] = None
  <2>1. ASSUME NEW c \in Co, parent[c] # None PROVE c \in {s[i] : i \in 1 .. Len(s)}
    <3>1. c \in Context
      BY Ranges
    <3>2. PICK i \in 2 .. Len(s) : s[i] = c
      BY <1>1, <2>1, <3>1, ChainHas
    <3>3. i \in 1 .. Len(s)
      OBVIOUS
    <3> QED BY <3>2, <3>3
  <2> QED BY <1>1, <2>1, WaitingIs
<1>5. Root \in Waiting /\ Root \in Context
  <2>1. 1 \in 1 .. Len(s) /\ s[1] = Root
    BY <1>1, ChainHas
  <2> QED BY <1>1, <2>1, WaitingIs, Ranges
<1>6. \A c \in Co : parent'[c] = None
  BY <1>3, <1>4, Ranges
<1>7. FramesOK'
  <2>1. ASSUME NEW c \in Context PROVE FrameOK(c, frames'[c])
    BY <1>1, <1>3, FrameEmpty DEF Sound, FramesOK
  <2> QED BY <2>1 DEF FramesOK, FrameOK, Fits
<1>8. SuspendedOK'
  <2>1. ASSUME NEW c \in Co PROVE Suspended(c)'
    <3>1. c \in Context
      BY Ranges
    <3>2. CASE c \in Waiting
      <4>1. state'[c] = "invalid"
        BY <1>3, <3>1, <3>2
      <4>2. state'[c] # "created" /\ state'[c] # "running"
        BY <4>1
      <4> QED BY <4>2 DEF Suspended
    <3>3. CASE c \notin Waiting
      BY <1>1, <1>3, <1>4, <3>1, <3>3, SuspendedKept DEF Sound, SuspendedOK
    <3> QED BY <3>2, <3>3
  <2> QED BY <2>1 DEF SuspendedOK
<1>9. ActiveOK'
  BY <1>6 DEF ActiveOK
<1>10. CreateOK' /\ ~ Creating'
  <2>1. \A i \in 1 .. Len(native') : FALSE
    BY <1>1
  <2> QED BY <1>1, <2>1 DEF CreateOK, Creating
<1>11. StruckOK'
  <2>1. ASSUME NEW c \in struck PROVE state'[c] = "invalid"
    <3>1. c \in Co /\ c \in Context
      BY <1>1, TypedIs, Ranges DEF Typed
    <3> QED BY <1>1, <1>3, <1>4, <3>1 DEF Sound, StruckOK
  <2> QED BY <1>1, <2>1 DEF StruckOK
<1>12. Calm(t)'
  <2>1. frames'[Root] = Empty /\ ip'[Root] = Start
    BY <1>3, <1>5
  <2>2. CurrentOK'
    <3>1. Len(frames'[current']) = 1 /\ Top(frames'[current']).depth = 0 /\ ip'[current'] = Start
      BY <1>1, <2>1, EmptyIs
    <3>2. Start \in Point /\ Start.depth = 0 /\ Start.code = "main"
      BY Ranges DEF Start
    <3> QED BY <1>1, <3>1, <3>2 DEF CurrentOK, Fits, Top
  <2>3. WaitingOK(t)'
    <3>1. Len(t) = 1
      OBVIOUS
    <3>2. \A i \in 1 .. Len(t) - 1 : FALSE
      BY <3>1
    <3> HIDE DEF t
    <3> QED BY <3>2 DEF WaitingOK
  <2>4. NativeOK(t)'
    <3>1. \A i \in 1 .. Len(native') : FALSE
      BY <1>1
    <3> QED BY <1>1, <3>1 DEF NativeOK, KindsOK, OrderOK, TopOK, ResumesOK, LevelOK, BaseOK
  <2>5. AwaitedOK'
    <3>1. ASSUME NEW c \in Context, OnChain(c)' PROVE \A g \in 1 .. Len(frames'[c]) - 1 : FALSE
      <4>1. c = Root
        BY <1>6, <3>1 DEF OnChain, Context
      <4>2. Len(frames'[c]) = 1
        BY <2>1, <4>1, EmptyIs
      <4> QED BY <4>2
    <3> QED BY <3>1 DEF AwaitedOK, OnChain
  <2> QED BY <2>2, <2>3, <2>4, <2>5 DEF Calm
<1> QED BY <1>2, <1>7, <1>8, <1>9, <1>10, <1>11, <1>12 DEF IInv, Sound

LEMMA CollectInv ==
  ASSUME NEW s \in Seq(Context), IInv(s), NEW c \in Co, Collect(c)
  PROVE  IInv(s)'
<1>1. /\ TypeOK /\ IsChain(s) /\ Sound /\ UNCHANGED <<parent, current, native, failed>>
      /\ parent[c] = None /\ c # current /\ c \in Context /\ c # Root /\ c \notin {Root}
      /\ struck' = struck \ {c} /\ state' = [state EXCEPT ![c] = "none"]
  BY Ranges DEF IInv, Collect
<1>2. TypeOK' /\ OthersKept({c}) /\ frames'[c] = Empty
  BY <1>1, CollectDoes
<1>3. state'[c] = "none" /\ \A d \in Context \ {c} : state'[d] = state[d]
  BY <1>1, TypedIs DEF Typed
<1>4. IsChain(s)'
  BY <1>1, OtherChains
<1>5. FramesOK'
  <2>1. ASSUME NEW d \in Context PROVE FrameOK(d, frames'[d])
    BY <1>1, <1>2, FrameEmpty DEF Sound, FramesOK, OthersKept
  <2> QED BY <2>1 DEF FramesOK, FrameOK, Fits
<1>6. SuspendedOK'
  <2>1. ASSUME NEW d \in Co, parent[d] = None PROVE Suspended(d)'
    <3>1. CASE d = c
      <4>1. state'[d] # "created" /\ state'[d] # "running"
        BY <1>3, <3>1
      <4> QED BY <4>1 DEF Suspended
    <3>2. CASE d # c
      BY <1>1, <1>2, <1>3, <2>1, <3>2, SuspendedKept, Ranges DEF Sound, SuspendedOK, OthersKept
    <3> QED BY <3>1, <3>2
  <2> QED BY <1>1, <2>1 DEF SuspendedOK
<1>7. ActiveOK'
  <2>1. ASSUME NEW d \in Co, parent[d] # None
        PROVE  state'[d] = "running" \/ (state'[d] = "created" /\ Creating /\ d = current)
    BY <1>1, <1>3, <2>1, Ranges DEF Sound, ActiveOK
  <2> QED BY <1>1, <2>1 DEF ActiveOK, Creating, Top
<1>8. CreateOK'
  <2>1. current \in Context \ {c}
    BY <1>1, TypedIs DEF Typed
  <2>2. state'[current] = state[current] /\ frames'[current] = frames[current] /\ ip'[current] = ip[current]
    BY <1>2, <1>3, <2>1 DEF OthersKept
  <2> QED BY <1>1, <2>2 DEF Sound, CreateOK
<1>9. StruckOK'
  <2>1. ASSUME NEW d \in struck, d # c PROVE state'[d] = "invalid" \/ (failed /\ parent[d] # None)
    <3>1. d \in Context
      BY <1>1, TypedIs, Ranges DEF Typed
    <3> QED BY <1>1, <1>3, <2>1, <3>1 DEF Sound, StruckOK
  <2> QED BY <1>1, <2>1 DEF StruckOK
<1>10. ~ failed' => Calm(s)'
  <2>1. \A d \in Context : OnChain(d) => frames'[d] = frames[d] /\ ip'[d] = ip[d]
    BY <1>1, <1>2 DEF OnChain, OthersKept
  <2>2. ~ failed' => Calm(s)
    BY <1>1 DEF IInv
  <2> QED BY <1>1, <1>2, <2>1, <2>2, CalmKept
<1> QED BY <1>2, <1>4, <1>5, <1>6, <1>7, <1>8, <1>9, <1>10 DEF IInv, Sound

LEMMA StutterInv ==
  ASSUME NEW s \in Seq(Context), IInv(s), UNCHANGED vars
  PROVE  IInv(s)'
<1>1. /\ TypeOK /\ IsChain(s) /\ Sound
      /\ UNCHANGED <<frames, ip, parent, state, current, native, failed, struck>>
  BY DEF IInv, vars, errorVars
<1>2. TypeOK'
  <2>1. Typed'
    BY <1>1, TypedIs DEF Typed
  <2> QED BY <2>1, TypedStep DEF Typed
<1>3. IsChain(s)'
  BY <1>1, ChainKept
<1>4. FramesOK'
  BY <1>1 DEF Sound, FramesOK, FrameOK, Fits
<1>5. SuspendedOK'
  <2>1. ASSUME NEW c \in Co, parent[c] = None PROVE Suspended(c)'
    <3>1. c \in Context /\ Suspended(c)
      BY <1>1, <2>1, Ranges DEF Sound, SuspendedOK
    <3> QED BY <1>1, <3>1, SuspendedKept
  <2> QED BY <1>1, <2>1 DEF SuspendedOK
<1>6. ActiveOK'
  BY <1>1 DEF Sound, ActiveOK, Creating, Top
<1>7. CreateOK'
  BY <1>1 DEF Sound, CreateOK
<1>8. StruckOK'
  BY <1>1 DEF Sound, StruckOK
<1>9. ~ failed' => Calm(s)'
  <2>1. ~ failed' => Calm(s)
    BY <1>1 DEF IInv
  <2> QED BY <1>1, <1>2, <2>1, CalmKept
<1> QED BY <1>2, <1>3, <1>4, <1>5, <1>6, <1>7, <1>8, <1>9 DEF IInv, Sound

(***************************************************************************)
(* The invariant, and what it says of the program.                         *)
(***************************************************************************)
LEMMA InitInv == Init => IInv(<<Root>>)
<1> DEFINE t == <<Root>>
<1> SUFFICES ASSUME Init PROVE IInv(t)
  OBVIOUS
<1>1. TypeOK /\ IsChain(t)
  BY InitChains
<1>2. /\ \A c \in Context : frames[c] = Empty /\ ip[c] = Start /\ parent[c] = None
      /\ \A c \in Co : state[c] = "none"
      /\ current = Root /\ native = <<>> /\ struck = {} /\ Root \in Context
  BY Ranges DEF Init
<1>3. FramesOK
  BY <1>2, FrameEmpty DEF FramesOK
<1>4. SuspendedOK
  <2>1. ASSUME NEW c \in Co PROVE state[c] # "created" /\ state[c] # "running"
    BY <1>2
  <2> QED BY <2>1 DEF SuspendedOK, Suspended
<1>5. ActiveOK
  <2>1. \A c \in Co : parent[c] = None
    BY <1>2, Ranges
  <2> QED BY <2>1 DEF ActiveOK
<1>6. \A i \in 1 .. Len(native) : FALSE
  BY <1>2
<1>7. CreateOK /\ StruckOK
  BY <1>2, <1>6 DEF CreateOK, StruckOK
<1>8. CurrentOK
  <2>1. Len(frames[current]) = 1 /\ Top(frames[current]).depth = 0 /\ ip[current] = Start
    BY <1>2, EmptyIs
  <2>2. Start \in Point /\ Start.depth = 0 /\ Start.code = "main"
    BY Ranges DEF Start
  <2> QED BY <1>2, <2>1, <2>2 DEF CurrentOK, Fits
<1>9. WaitingOK(t)
  <2>1. \A i \in 1 .. Len(t) - 1 : FALSE
    OBVIOUS
  <2> HIDE DEF t
  <2> QED BY <2>1 DEF WaitingOK
<1>10. NativeOK(t)
  BY <1>2, <1>6 DEF NativeOK, KindsOK, OrderOK, TopOK, ResumesOK, LevelOK, BaseOK
<1>11. AwaitedOK
  <2>1. ASSUME NEW c \in Context PROVE \A g \in 1 .. Len(frames[c]) - 1 : FALSE
    <3>1. Len(frames[c]) = 1
      BY <1>2, EmptyIs
    <3> QED BY <3>1
  <2> QED BY <2>1 DEF AwaitedOK
<1> QED BY <1>1, <1>3, <1>4, <1>5, <1>7, <1>8, <1>9, <1>10, <1>11 DEF IInv, Sound, Calm

LEMMA StepInv ==
  ASSUME Usual, NEW s \in Seq(Context), IInv(s), [Next]_vars
  PROVE  \E t \in Seq(Context) : IInv(t)'
<1>1. CASE \E d \in 0 .. DepthBound : Compute(d)
  BY <1>1, ComputeInv
<1>2. CASE CallFunction \/ Return \/ CallNative \/ RuntimeError
  BY <1>2, CallFunctionInv, ReturnInv, ReturnNativeInv, CallNativeInv, RuntimeErrorInv
<1>3. CASE \E c \in Co : CreateCoroutine(c) \/ ResumeFinished(c) \/ Collect(c)
  BY <1>3, CreateCoroutineInv, ResumeFinishedInv, CollectInv
<1>4. CASE CallBack \/ CallBackNative \/ FunctionReturned \/ FunctionFailed
  BY <1>4, CallBackInv, CallBackNativeInv, FunctionReturnedInv, FunctionFailedInv
<1>5. CASE NativeReturns \/ NativeError \/ HostCall \/ UNCHANGED vars
  BY <1>5, NativeReturnsInv, NativeErrorInv, HostCallInv, StutterInv
<1>6. CASE Finish \/ Yield \/ NativeCoroutineReturns \/ ClearReplErrorState
  BY <1>6, FinishInv, YieldInv, NativeCoroutineReturnsInv, ClearReplErrorStateInv
<1>7. CASE \E c \in Co : Resume(c) \/ CreateNativeCoroutine(c)
  BY <1>7, ResumeInv, CreateNativeCoroutineInv
<1> QED BY <1>1, <1>2, <1>3, <1>4, <1>5, <1>6, <1>7, NextIs

CoroutineInv == \E s \in Seq(Context) : IInv(s)

LEMMA CoroutineInvariant ==
  ASSUME Usual
  PROVE  Spec => []CoroutineInv
<1>1. Init => CoroutineInv
  <2>1. <<Root>> \in Seq(Context)
    BY Ranges
  <2> QED BY <2>1, InitInv DEF CoroutineInv
<1>2. CoroutineInv /\ [Next]_vars => CoroutineInv'
  BY StepInv DEF CoroutineInv
<1> QED BY <1>1, <1>2, PTL DEF Spec

(* Wherever a script goes on - after a return, a yield, a resume, a call   *)
(* from native code, an error that was cleared - its frame is as deep as   *)
(* the compiler counted, and the main program runs in the root context     *)
(* alone (nkopcode.c, nkfunc.c, nkcorout.c).                               *)
THEOREM ScriptsFindTheirStack ==
  ASSUME Usual
  PROVE  Spec => []StackAsCompiled
<1>1. CoroutineInv => StackAsCompiled
  <2> SUFFICES ASSUME NEW s \in Seq(Context), IInv(s), Running
               PROVE  /\ Top(frames[current]).depth = At.depth
                      /\ At.code = "main" <=> Len(frames[current]) = 1
                      /\ At.code = "main" => current = Root
    BY DEF CoroutineInv, StackAsCompiled
  <2>1. Fits(current, At, Len(frames[current]), Top(frames[current]).depth)
    BY RunningHas DEF IInv, At
  <2> QED BY <2>1 DEF Fits
<1> QED BY <1>1, CoroutineInvariant, PTL

(* The loop of nkiVmCallFunction ends when the function it called has      *)
(* returned and not when another has, and native code always runs in the   *)
(* context and above the frames it was called from (nkfunc.c, nkx.h).      *)
THEOREM NativeCodeRunsAtHome ==
  ASSUME Usual
  PROVE  Spec => []NativeAtHome
<1>1. CoroutineInv => NativeAtHome
  <2> SUFFICES ASSUME NEW s \in Seq(Context), IInv(s), ~ failed, native # <<>>,
                      Top(native).loop => ip[current] = Invalid
               PROVE  current = Top(native).home /\ Len(frames[current]) = Top(native).height
    BY DEF CoroutineInv, NativeAtHome
  <2>1. ~ Scripted
    BY DEF Scripted
  <2> QED BY <2>1 DEF IInv, Calm, NativeOK, TopOK
<1> QED BY <1>1, CoroutineInvariant, PTL

(* Once an error was cleared no coroutine that was active when it occurred *)
(* can be resumed (nkcompil.c, nkcorout.c).                                *)
THEOREM ErrorsInvalidateCoroutines ==
  ASSUME Usual
  PROVE  Spec => []ErrorsInvalidate
<1>1. CoroutineInv => ErrorsInvalidate
  <2> SUFFICES ASSUME NEW s \in Seq(Context), IInv(s), ~ failed, NEW c \in struck
               PROVE  state[c] \notin {"created", "running"}
    BY DEF CoroutineInv, ErrorsInvalidate
  <2>1. state[c] = "invalid"
    BY DEF IInv, Sound, StruckOK
  <2> QED BY <2>1
<1> QED BY <1>1, CoroutineInvariant, PTL

(***************************************************************************)
(* The abstract coroutines.                                                *)
(***************************************************************************)
ChainOf(s) == IF Creating THEN Rest(s) ELSE s

LEMMA CreationIs ==
  ASSUME TypeOK, CreateOK
  PROVE  \A c : InCreation(c) <=> Creating /\ c = current
<1>1. native \in Seq(Calls)
  BY TypedIs DEF Typed
<1>2. ASSUME NEW c, InCreation(c) PROVE Creating /\ c = current
  <2>1. PICK i \in 1 .. Len(native) : native[i].kind = "create" /\ native[i].home = c
    BY <1>2 DEF InCreation
  <2>2. i = Len(native) /\ native[i].home = current
    BY <2>1 DEF CreateOK
  <2>3. native # <<>> /\ Top(native) = native[i]
    BY <1>1, <2>2 DEF Top
  <2> QED BY <2>1, <2>2, <2>3 DEF Creating
<1>3. ASSUME Creating PROVE InCreation(current)
  <2>1. native # <<>> /\ Top(native).kind = "create"
    BY <1>3 DEF Creating
  <2>2. Len(native) \in 1 .. Len(native) /\ Top(native) = native[Len(native)]
    BY <1>1, <2>1, TopHas
  <2>3. native[Len(native)].home = current
    BY <2>1, <2>2 DEF CreateOK
  <2> QED BY <2>1, <2>2, <2>3 DEF InCreation
<1> QED BY <1>2, <1>3

LEMMA NoRepetition ==
  ASSUME NEW t \in Seq(Context), \A i, j \in 1 .. Len(t) : t[i] = t[j] => i = j
  PROVE  Len(t) <= Cardinality(Context) /\ Cardinality(Context) \in Nat
<1>1. IsFiniteSet(Context)
  <2>1. IsFiniteSet(Co)
    BY ContextAssumption
  <2> QED BY <2>1, FS_AddElement DEF Context
<1>2. Cardinality(Context) \in Nat
  BY <1>1, FS_CardinalityType
<1>3. Len(t) \in Nat /\ t \in [1 .. Len(t) -> Context]
  OBVIOUS
<1>4. t \in Injection(1 .. Len(t), Context)
  BY <1>3 DEF Injection, IsInjective
<1>5. Cardinality(1 .. Len(t)) <= Cardinality(Context)
  BY <1>1, <1>4, FS_Injection
<1>6. Cardinality(1 .. Len(t)) = Len(t)
  <2>1. 1 \in Int /\ Len(t) \in Int
    BY <1>3
  <2>2. Cardinality(1 .. Len(t)) = IF 1 > Len(t) THEN 0 ELSE Len(t) - 1 + 1
    BY <2>1, FS_Interval
  <2> QED BY <1>3, <2>2
<1> QED BY <1>2, <1>5, <1>6

LEMMA ChainOfHas ==
  ASSUME NEW s \in Seq(Context), IInv(s)
  PROVE  LET t == ChainOf(s)
             x == IF Creating THEN parent[current] ELSE current IN
         /\ t \in Seq(Context) /\ t # <<>> /\ t[1] = Root /\ t[Len(t)] = x
         /\ \A i \in 1 .. Len(t) - 1 : parent[t[i + 1]] = t[i]
         /\ \A i, j \in 1 .. Len(t) : t[i] = t[j] => i = j
         /\ Creating => t = Rest(s)
         /\ ~ Creating => t = s
<1>1. TypeOK /\ IsChain(s) /\ CreateOK
  BY DEF IInv, Sound
<1>2. /\ Len(s) \in Nat \ {0} /\ s[1] = Root /\ s[Len(s)] = current
      /\ \A i \in 1 .. Len(s) - 1 : parent[s[i + 1]] = s[i]
      /\ \A i, j \in 1 .. Len(s) : s[i] = s[j] => i = j
      /\ parent[current] # None => Len(s) > 1 /\ parent[current] = s[Len(s) - 1]
      /\ parent[current] = None => Len(s) = 1 /\ current = Root
      /\ Root \notin Co /\ s # <<>>
  BY <1>1, ChainHas DEF IsChain
<1>3. CASE ~ Creating
  BY <1>2, <1>3 DEF ChainOf
<1>4. CASE Creating
  <2>1. parent[current] # None
    <3>1. current \in Co
      <4>1. InCreation(current)
        BY <1>1, <1>4, CreationIs
      <4> QED BY <1>1, <4>1 DEF InCreation, CreateOK
    <3> QED BY <1>2, <3>1
  <2> DEFINE t == Rest(s)
  <2>2. t \in Seq(Context) /\ Len(t) = Len(s) - 1 /\ \A i \in 1 .. Len(s) - 1 : t[i] = s[i]
    BY <1>2, RestHas
  <2>3. ChainOf(s) = t
    BY <1>4 DEF ChainOf
  <2> HIDE DEF t
  <2>4. Len(s) > 1 /\ parent[current] = s[Len(s) - 1] /\ Len(t) \in Nat \ {0} /\ t # <<>>
    BY <1>2, <2>1, <2>2
  <2>5. t[1] = Root /\ t[Len(t)] = parent[current]
    <3>1. 1 \in 1 .. Len(s) - 1 /\ Len(s) - 1 \in 1 .. Len(s) - 1
      BY <1>2, <2>4
    <3> QED BY <1>2, <2>2, <2>4, <3>1
  <2>6. ASSUME NEW i \in 1 .. Len(t) - 1 PROVE parent[t[i + 1]] = t[i]
    <3>1. i \in 1 .. Len(s) - 1 /\ i + 1 \in 1 .. Len(s) - 1
      BY <1>2, <2>2
    <3> QED BY <1>2, <2>2, <3>1
  <2>7. ASSUME NEW i \in 1 .. Len(t), NEW j \in 1 .. Len(t), t[i] = t[j] PROVE i = j
    <3>1. i \in 1 .. Len(s) - 1 /\ j \in 1 .. Len(s) - 1 /\ i \in 1 .. Len(s) /\ j \in 1 .. Len(s)
      BY <1>2, <2>2
    <3> QED BY <1>2, <2>2, <2>7, <3>1
  <2> QED BY <1>4, <2>2, <2>3, <2>4, <2>5, <2>6, <2>7 DEF t
<1> QED BY <1>3, <1>4

LEMMA ChainIs ==
  ASSUME NEW s \in Seq(Context), IInv(s)
  PROVE  Chain = ChainOf(s)
<1> DEFINE t == ChainOf(s)
           x == IF Creating THEN parent[current] ELSE current
           IsIt(u) == /\ u[1] = Root /\ Top(u) = x
                      /\ \A i \in 1 .. Len(u) - 1 : parent[u[i + 1]] = u[i]
           All == UNION {[1 .. n -> Context] : n \in 1 .. Cardinality(Context)}
<1>1. /\ TypeOK /\ parent[Root] = None /\ CreateOK
      /\ t \in Seq(Context) /\ t # <<>> /\ t[1] = Root /\ t[Len(t)] = x
      /\ \A i \in 1 .. Len(t) - 1 : parent[t[i + 1]] = t[i]
      /\ \A i, j \in 1 .. Len(t) : t[i] = t[j] => i = j
  BY ChainOfHas, ChainHas DEF IInv, Sound
<1>2. InCreation(current) <=> Creating
  BY <1>1, CreationIs
<1> HIDE DEF t, x
<1>3. t \in All /\ IsIt(t)
  <2>1. Len(t) \in Nat \ {0} /\ t \in [1 .. Len(t) -> Context]
    BY <1>1
  <2>2. Len(t) \in 1 .. Cardinality(Context)
    BY <1>1, <2>1, NoRepetition
  <2> QED BY <1>1, <2>1, <2>2 DEF Top
<1>4. ASSUME NEW u \in All, IsIt(u) PROVE u = t
  <2>1. PICK n \in 1 .. Cardinality(Context) : u \in [1 .. n -> Context]
    OBVIOUS
  <2>2. n \in Nat \ {0}
    OBVIOUS
  <2>3. u \in Seq(Context) /\ Len(u) = n /\ u # <<>>
    BY <2>1, <2>2
  <2>4. /\ u[1] = Root /\ u[Len(u)] = x
        /\ \A i \in 1 .. Len(u) - 1 : parent[u[i + 1]] = u[i]
    BY <1>4 DEF Top
  <2>5. Len(u) <= Len(t) \/ Len(t) <= Len(u)
    BY <1>1, <2>3
  <2>6. Len(u) <= Len(t) => u = t
    BY <1>1, <2>3, <2>4, ChainUnique
  <2>7. Len(t) <= Len(u) => t = u
    BY <1>1, <2>3, <2>4, ChainUnique
  <2> QED BY <2>5, <2>6, <2>7
<1>5. Chain = CHOOSE u \in All : IsIt(u)
  BY <1>2 DEF Chain, x
<1> HIDE DEF All, IsIt
<1> QED BY <1>3, <1>4, <1>5 DEF t

Mapped ==
  \A s \in Seq(Context) : IInv(s) =>
    Chain = ChainOf(s) /\ \A c \in Co : InCreation(c) <=> Creating /\ c = current

LEMMA MappedIs == Mapped
BY ChainIs, CreationIs DEF Mapped, IInv, Sound

LEMMA MappedNext ==
  ASSUME NEW s \in Seq(Context), IInv(s)'
  PROVE  Chain' = ChainOf(s)' /\ \A c \in Co : InCreation(c)' <=> Creating' /\ c = current'
<1>1. Mapped'
  BY MappedIs, PTL
<1> QED BY <1>1 DEF Mapped

Statuses == [c \in Co |-> StatusOf(c)]

LEMMA StatusIs ==
  ASSUME NEW s \in Seq(Context), IInv(s), NEW c \in Co
  PROVE  /\ Creating /\ c = current => StatusOf(c) = "none"
         /\ ~ (Creating /\ c = current) =>
              StatusOf(c) = IF parent[c] # None THEN "active"
                            ELSE IF state[c] = "running" THEN "suspended" ELSE state[c]
BY MappedIs DEF Mapped, StatusOf

LEMMA StatusNext ==
  ASSUME NEW s \in Seq(Context), IInv(s)', NEW c \in Co
  PROVE  /\ Creating' /\ c = current' => StatusOf(c)' = "none"
         /\ ~ (Creating' /\ c = current') =>
              StatusOf(c)' = IF parent'[c] # None THEN "active"
                             ELSE IF state'[c] = "running" THEN "suspended" ELSE state'[c]
BY MappedNext DEF StatusOf

(* Most steps leave the coroutines as they are.                            *)
LEMMA SameMap ==
  ASSUME NEW s \in Seq(Context), IInv(s), IInv(s)', parent' = parent, current' = current,
         \A c \in Co : state'[c] = state[c], Creating' <=> Creating
  PROVE  UNCHANGED <<Chain, Statuses>>
<1>1. Chain' = Chain
  BY MappedIs, MappedNext DEF Mapped, ChainOf
<1>2. \A c \in Co : StatusOf(c)' = StatusOf(c)
  BY StatusIs, StatusNext
<1> QED BY <1>1, <1>2 DEF Statuses

LEMMA SameCreating ==
  ASSUME Usual, NEW s \in Seq(Context), IInv(s),
         \/ native' = native \/ CallNative \/ CallBack \/ CallBackNative \/ HostCall
         \/ FunctionReturned \/ FunctionFailed \/ NativeReturns
  PROVE  Creating' <=> Creating
<1>1. TypeOK /\ CreateOK /\ native \in Seq(Calls) /\ current \in Context /\ Len(frames[current]) \in Nat \ {0}
  BY TypedIs, Unpacked DEF IInv, Sound, Typed
<1>2. CASE native' = native
  BY <1>2 DEF Creating, Top
<1>3. \A u \in Seq(Calls) : LET e == Entry("call", FALSE, current, Len(frames[current])) IN
        native' = Append(u, e) => ~ Creating'
  <2> DEFINE e == Entry("call", FALSE, current, Len(frames[current]))
  <2>1. e.kind = "call"
    BY DEF Entry
  <2>2. e \in Calls /\ e.kind = "call"
    BY <1>1, <2>1, EntriesAre
  <2> HIDE DEF e
  <2>3. \A u \in Seq(Calls) : native' = Append(u, e) => Top(native') = e
    BY <2>2, AppendHas
  <2>4. e.kind # "create"
    BY <2>2
  <2> QED BY <2>3, <2>4 DEF Creating, e, Top
<1>4. CASE CallNative
  BY <1>1, <1>3, <1>4, RunningHas DEF CallNative
<1>5. CASE CallBack
  <2>1. native # <<>> /\ Top(native).kind = "call" /\ native' = Looping(native)
    BY <1>5 DEF CallBack, MayCallBack, NativeRuns, Usual
  <2>2. IsRelooped(native, native', TRUE, ip[current]) /\ native' \in Seq(Calls) /\ TRUE \in BOOLEAN /\ ip[current] \in Address
    BY <1>1, <2>1, LoopingIs, Unpacked
  <2>3. Top(native').kind = Top(native).kind
    BY ZenonT(40), <1>1, <2>1, <2>2, ReloopedHas
  <2> QED BY <2>1, <2>3 DEF Creating, Top
<1>6. CASE CallBackNative
  <2>1. native # <<>> /\ Top(native).kind = "call"
        /\ native' = Append(Looping(native), Entry("call", FALSE, current, Len(frames[current])))
    BY <1>6 DEF CallBackNative, MayCallBack, NativeRuns, Usual
  <2>2. ~ Creating'
    BY <1>1, <1>3, <2>1, LoopingIs
  <2> QED BY <2>1, <2>2 DEF Creating
<1>7. CASE HostCall
  <2> DEFINE e == Entry("host", TRUE, current, Len(frames[current]))
  <2>1. native = <<>> /\ native' = <<e>>
    BY <1>7 DEF HostCall
  <2>2. e.kind = "host"
    BY DEF Entry
  <2> HIDE DEF e
  <2>3. Top(native') = e
    BY <2>1 DEF Top
  <2>4. Top(native').kind # "create"
    BY <2>2, <2>3
  <2> QED BY <2>1, <2>4 DEF Creating, Top
<1>8. CASE FunctionReturned \/ FunctionFailed
  BY <1>1, <1>8, LeaveNone DEF FunctionReturned, FunctionFailed
<1>9. CASE NativeReturns
  <2>1. native # <<>> /\ Top(native).kind = "call" /\ native' = Rest(native)
    BY <1>9 DEF NativeReturns, NativeRuns
  <2>2. ~ Creating /\ \A i \in 1 .. Len(native) : native[i].kind # "create"
    BY <1>1, <2>1, NoCreate
  <2>3. native' \in Seq(Calls) /\ Len(native') = Len(native) - 1 /\ \A i \in 1 .. Len(native) - 1 : native'[i] = native[i]
    BY <1>1, <2>1, RestHas
  <2>4. \A i \in 1 .. Len(native') : i \in 1 .. Len(native) - 1 /\ i \in 1 .. Len(native)
    BY <1>1, <2>3
  <2> QED BY <2>2, <2>3, <2>4, CreateNone
<1> QED BY <1>2, <1>4, <1>5, <1>6, <1>7, <1>8, <1>9

(* Steps that nobody notices who only looks at the coroutines.             *)
LEMMA StutterMaps ==
  ASSUME Usual, NEW s \in Seq(Context), IInv(s), IInv(s)',
         \/ \E d \in 0 .. DepthBound : Compute(d)
         \/ CallFunction \/ Return \/ CallNative \/ RuntimeError
         \/ \E c \in Co : ResumeFinished(c)
         \/ CallBack \/ CallBackNative \/ FunctionReturned \/ FunctionFailed
         \/ NativeReturns \/ NativeError \/ HostCall \/ UNCHANGED vars
  PROVE  UNCHANGED <<Chain, Statuses>>
<1>1. parent' = parent /\ current' = current /\ state' = state
  BY DEF Compute, CallFunction, Return, CallNative, RuntimeError, ResumeFinished,
         CallBack, CallBackNative, FunctionReturned, FunctionFailed, NativeReturns,
         NativeError, HostCall, vars
<1>2. \/ native' = native \/ CallNative \/ CallBack \/ CallBackNative \/ HostCall
      \/ FunctionReturned \/ FunctionFailed \/ NativeReturns
  BY DEF Compute, CallFunction, Return, RuntimeError, ResumeFinished, NativeError, vars
<1>3. Creating' <=> Creating
  BY <1>2, SameCreating
<1> QED BY <1>1, <1>3, SameMap

(* A coroutine is there when it has a status.                              *)
LEMMA CreateMaps ==
  ASSUME NEW s \in Seq(Context), IInv(s), NEW c \in Co, CreateCoroutine(c), IInv(s)'
  PROVE  Coroutines!Create(c)
<1>1. /\ TypeOK /\ IsChain(s) /\ Running /\ state[c] = "none" /\ state' = [state EXCEPT ![c] = "created"]
      /\ parent' = parent /\ current' = current /\ native' = native
  BY DEF IInv, CreateCoroutine
<1>2. parent[c] = None /\ c # current /\ ~ Creating /\ ~ Creating'
  BY <1>1, NotActive, RunningHas DEF Creating, Top
<1>3. state'[c] = "created" /\ \A d \in Co \ {c} : state'[d] = state[d]
  BY <1>1, TypedIs, Ranges DEF Typed
<1>4. Chain' = Chain
  BY <1>2, MappedIs, MappedNext DEF Mapped, ChainOf
<1>5. StatusOf(c) = "none"
  BY <1>1, <1>2, StatusIs
<1>6. StatusOf(c)' = "created"
  BY <1>1, <1>2, <1>3, StatusNext
<1>7. \A d \in Co \ {c} : StatusOf(d)' = StatusOf(d)
  BY <1>1, <1>2, <1>3, StatusIs, StatusNext
<1>8. Statuses[c] = "none" /\ Statuses' = [Statuses EXCEPT ![c] = "created"]
  BY <1>5, <1>6, <1>7 DEF Statuses
<1> QED BY <1>4, <1>8 DEF Coroutines!Create, Statuses

LEMMA ResumeMaps ==
  ASSUME NEW s \in Seq(Context), IInv(s), NEW c \in Co, Resume(c), IInv(Append(s, c))', Append(s, c) \in Seq(Context)
  PROVE  Coroutines!Resume(c)
<1>1. /\ TypeOK /\ IsChain(s) /\ Running /\ parent[c] = None /\ state[c] \in {"created", "running"}
      /\ state' = [state EXCEPT ![c] = "running"] /\ parent' = [parent EXCEPT ![c] = current]
      /\ current' = c /\ native' = native
  BY DEF IInv, Resume
<1>2. c # current /\ ~ Creating /\ ~ Creating' /\ current # None /\ current \in Context
  BY <1>1, NotActive, RunningHas, TypedIs, Ranges DEF Creating, Top, Typed
<1>3. /\ parent'[c] = current /\ \A d \in Co \ {c} : state'[d] = state[d] /\ parent'[d] = parent[d]
  BY <1>1, TypedIs, Ranges DEF Typed
<1>4. Chain = s /\ Chain' = Append(s, c)
  BY <1>2, MappedIs, MappedNext DEF Mapped, ChainOf
<1>5. StatusOf(c) \in {"created", "suspended"}
  BY <1>1, <1>2, StatusIs
<1>6. StatusOf(c)' = "active"
  BY <1>2, <1>3, StatusNext
<1>7. \A d \in Co \ {c} : StatusOf(d)' = StatusOf(d)
  BY SMTT(20), ZenonT(30), <1>2, <1>3, StatusIs, StatusNext
<1>8. Statuses[c] \in {"created", "suspended"} /\ Statuses' = [Statuses EXCEPT ![c] = "active"]
  BY <1>5, <1>6, <1>7 DEF Statuses
<1> QED BY <1>4, <1>8 DEF Coroutines!Resume, Statuses

LEMMA GiveWayMaps ==
  ASSUME NEW s \in Seq(Context), IInv(s), Finish \/ Yield, IInv(Rest(s))', Rest(s) \in Seq(Context)
  PROVE  Coroutines!GiveWay
<1>1. /\ TypeOK /\ IsChain(s) /\ Sound /\ Running /\ native' = native
      /\ parent[current] # None /\ current' = parent[current] /\ parent' = [parent EXCEPT ![current] = None]
      /\ state' = state \/ state' = [state EXCEPT ![current] = "finished"]
  BY DEF IInv, Finish, Yield, SwitchToParent, PopExecutionContext
<1>2. /\ ~ Creating /\ ~ Creating' /\ Len(s) > 1 /\ s[Len(s)] = current /\ current \in Context /\ current \in Co
  BY <1>1, ChainHas, RunningHas, TypedIs DEF Creating, Top, Typed
<1>3. state[current] = "running"
  BY <1>1, <1>2 DEF Sound, ActiveOK
<1>4. /\ parent'[current] = None /\ state'[current] \in {"running", "finished"}
      /\ \A d \in Co \ {current} : state'[d] = state[d] /\ parent'[d] = parent[d]
  BY <1>1, <1>2, <1>3, TypedIs, Ranges DEF Typed
<1>5. Chain = s /\ Chain' = Rest(s)
  BY <1>2, MappedIs, MappedNext DEF Mapped, ChainOf
<1>6. StatusOf(current) = "active"
  BY <1>1, <1>2, StatusIs
<1>7. \A d \in Co \ {current} : StatusOf(d)' = StatusOf(d)
  BY <1>2, <1>4, StatusIs, StatusNext
<1>8. PICK c \in Co : c = current
  BY <1>2
<1>9. StatusOf(c)' \in {"suspended", "finished"}
  BY <1>2, <1>4, <1>8, StatusNext
<1>10. Statuses' = [Statuses EXCEPT ![c] = StatusOf(c)']
  BY <1>7, <1>8 DEF Statuses
<1>11. Chain[Len(Chain)] = c /\ Len(Chain) > 1 /\ Chain' = SubSeq(Chain, 1, Len(Chain) - 1)
  BY <1>2, <1>5, <1>8 DEF Rest
<1> QED BY <1>9, <1>10, <1>11 DEF Coroutines!GiveWay, Statuses

(* The creation of a native coroutine: nothing when its native function is *)
(* called, a coroutine when it has returned and there was no error.        *)
LEMMA CreateNativeMaps ==
  ASSUME NEW s \in Seq(Context), IInv(s), NEW c \in Co, CreateNativeCoroutine(c),
         IInv(Append(s, c))', Append(s, c) \in Seq(Context)
  PROVE  UNCHANGED <<Chain, Statuses>>
<1>1. /\ TypeOK /\ IsChain(s) /\ Running /\ state[c] = "none" /\ native \in Seq(Calls)
      /\ state' = [state EXCEPT ![c] = "created"] /\ parent' = [parent EXCEPT ![c] = current]
      /\ current' = c /\ native' = Append(native, Entry("create", FALSE, c, 1))
  BY TypedIs DEF IInv, CreateNativeCoroutine, Typed
<1>2. parent[c] = None /\ c # current /\ ~ Creating /\ c \in Context
  BY <1>1, NotActive, RunningHas
<1>3. Creating'
  <2> DEFINE e == Entry("create", FALSE, c, 1)
  <2>5. 1 \in Nat \ {0}
    OBVIOUS
  <2>1. e \in Calls
    BY <1>1, <1>2, <2>5, EntriesAre
  <2>2. e.kind = "create"
    BY DEF Entry
  <2> HIDE DEF e
  <2>3. native' = Append(native, e)
    BY <1>1 DEF e
  <2>6. native \in Seq(Calls)
    BY <1>1
  <2>7. Append(native, e) # <<>> /\ Top(Append(native, e)) = e
    BY <2>1, <2>6, AppendHas
  <2>4. native' # <<>> /\ Top(native') = e
    BY <2>3, <2>7
  <2> QED BY <2>2, <2>4 DEF Creating, Top
<1>4. \A d \in Co \ {c} : state'[d] = state[d] /\ parent'[d] = parent[d]
  BY <1>1, TypedIs, Ranges DEF Typed
<1>5. Chain = s /\ Chain' = Rest(Append(s, c))
  BY <1>2, <1>3, MappedIs, MappedNext DEF Mapped, ChainOf, Rest
<1>6. Rest(Append(s, c)) = s
  <2> DEFINE t == Append(s, c)
  <2>1. /\ t \in Seq(Context) /\ t # <<>> /\ Len(t) = Len(s) + 1 /\ Len(s) \in Nat
        /\ \A i \in 1 .. Len(s) : t[i] = s[i]
    BY <1>2
  <2> HIDE DEF t
  <2>2. Rest(t) \in Seq(Context) /\ Len(Rest(t)) = Len(s) /\ \A i \in 1 .. Len(s) : Rest(t)[i] = s[i]
    BY <2>1, RestHas
  <2>3. Rest(t) = s
    BY <2>2, SeqEqual
  <2> QED BY <2>3 DEF t
<1>7. StatusOf(c) = "none"
  BY <1>1, <1>2, StatusIs
<1>8. StatusOf(c)' = "none"
  BY <1>1, <1>3, StatusNext
<1>9. ASSUME NEW d \in Co \ {c} PROVE StatusOf(d)' = StatusOf(d)
  <2>1. d # current' /\ d \in Co /\ state'[d] = state[d] /\ parent'[d] = parent[d]
    BY <1>1, <1>4
  <2>2. StatusOf(d) = IF parent[d] # None THEN "active"
                      ELSE IF state[d] = "running" THEN "suspended" ELSE state[d]
    BY <1>2, <2>1, StatusIs
  <2>3. StatusOf(d)' = IF parent'[d] # None THEN "active"
                       ELSE IF state'[d] = "running" THEN "suspended" ELSE state'[d]
    BY <2>1, StatusNext
  <2> QED BY <2>1, <2>2, <2>3
<1> QED BY <1>5, <1>6, <1>7, <1>8, <1>9 DEF Statuses

LEMMA NativeCreatedMaps ==
  ASSUME Usual, NEW s \in Seq(Context), IInv(s), NativeCoroutineReturns, IInv(Rest(s))', Rest(s) \in Seq(Context)
  PROVE  (\E c \in Co : Coroutines!Create(c)) \/ UNCHANGED <<Chain, Statuses>>
<1>1. /\ TypeOK /\ IsChain(s) /\ CreateOK /\ Creating /\ native \in Seq(Calls) /\ native' = Rest(native)
      /\ native # <<>> /\ Top(native) = native[Len(native)] /\ Len(native) \in 1 .. Len(native)
      /\ Top(native).kind = "create"
      /\ parent' = [parent EXCEPT ![current] = None]
      /\ state' = [c \in Context |-> IF c \in Unfinished THEN "none" ELSE state[c]]
  BY TypedIs, TopHas DEF IInv, Sound, NativeCoroutineReturns, NativeRuns, PopExecutionContext, Typed, Creating
<1>2. /\ Top(native).home = current /\ current \in Co /\ state[current] = "created" /\ current \in Context
  BY <1>1, Ranges DEF CreateOK
<1>3. ~ Creating'
  <2>1. Len(native') = Len(native) - 1 /\ \A i \in 1 .. Len(native) - 1 : native'[i] = native[i]
    BY <1>1, RestHas
  <2>2. ASSUME native' # <<>>, Top(native').kind = "create" PROVE FALSE
    <3>1. native' \in Seq(Calls)
      BY <1>1, RestHas
    <3>2. Top(native') = native'[Len(native')] /\ Len(native') \in 1 .. Len(native')
      BY <2>2, <3>1, TopHas
    <3>3. Len(native') \in 1 .. Len(native) /\ Len(native') # Len(native) /\ native'[Len(native')] = native[Len(native')]
      BY <1>1, <2>1, <3>2
    <3>4. native[Len(native')].kind = "create"
      BY <2>2, <3>2, <3>3
    <3> QED BY <1>1, <3>3, <3>4 DEF CreateOK
  <2> QED BY <2>2 DEF Creating, Top
<1>4. /\ parent'[current] = None
      /\ state'[current] = IF failed THEN "none" ELSE "created"
      /\ \A d \in Co \ {current} : state'[d] = state[d] /\ parent'[d] = parent[d]
  <2>1. \A d \in Co : d \in Unfinished <=> failed /\ d = current
    BY <1>2 DEF Unfinished
  <2> QED BY <1>1, <1>2, <2>1, TypedIs, Ranges DEF Typed
<1>5. Chain' = Chain
  <2>1. Chain = Rest(s)
    BY <1>1, MappedIs DEF Mapped, ChainOf
  <2>2. Chain' = Rest(s)
    BY <1>3, MappedNext DEF ChainOf
  <2> QED BY <2>1, <2>2
<1>6. StatusOf(current) = "none"
  BY <1>1, <1>2, StatusIs
<1>7. ASSUME NEW d \in Co \ {current} PROVE StatusOf(d)' = StatusOf(d)
  <2>1. d # current /\ d \in Co /\ state'[d] = state[d] /\ parent'[d] = parent[d]
    BY <1>4
  <2>2. StatusOf(d) = IF parent[d] # None THEN "active"
                      ELSE IF state[d] = "running" THEN "suspended" ELSE state[d]
    BY <2>1, StatusIs
  <2>3. StatusOf(d)' = IF parent'[d] # None THEN "active"
                       ELSE IF state'[d] = "running" THEN "suspended" ELSE state'[d]
    BY <1>3, <2>1, StatusNext
  <2> QED BY <2>1, <2>2, <2>3
<1>8. PICK c \in Co : c = current
  BY <1>2
<1>9. StatusOf(c)' = IF failed THEN "none" ELSE "created"
  <2>1. StatusOf(c)' = IF parent'[c] # None THEN "active"
                       ELSE IF state'[c] = "running" THEN "suspended" ELSE state'[c]
    BY <1>3, StatusNext
  <2> QED BY <1>4, <1>8, <2>1
<1>10. CASE failed
  <2>1. \A d \in Co : StatusOf(d)' = StatusOf(d)
    BY <1>6, <1>7, <1>8, <1>9, <1>10
  <2> QED BY <1>5, <2>1 DEF Statuses
<1>11. CASE ~ failed
  <2>1. Statuses[c] = "none" /\ Statuses' = [Statuses EXCEPT ![c] = "created"]
    BY <1>6, <1>7, <1>8, <1>9, <1>11 DEF Statuses
  <2> QED BY <1>5, <2>1 DEF Coroutines!Create, Statuses
<1> QED BY <1>10, <1>11

LEMMA AbandonMaps ==
  ASSUME NEW s \in Seq(Context), IInv(s), ClearReplErrorState, IInv(<<Root>>)', <<Root>> \in Seq(Context)
  PROVE  Coroutines!Abandon
<1>1. /\ TypeOK /\ IsChain(s) /\ native = <<>> /\ native' = <<>>
      /\ parent' = [c \in Context |-> IF c \in Waiting THEN None ELSE parent[c]]
      /\ state' = [c \in Context |-> IF c \in Waiting THEN "invalid" ELSE state[c]]
  BY DEF IInv, ClearReplErrorState, Cleared
<1>2. ~ Creating /\ ~ Creating'
  BY <1>1 DEF Creating
<1>3. Chain' = <<Root>>
  BY <1>2, MappedNext DEF ChainOf
<1>4. \A c \in Co : c \in Waiting <=> parent[c] # None
  <2>1. \A i \in 2 .. Len(s) : i \in 1 .. Len(s)
    OBVIOUS
  <2>2. \A c \in Co : parent[c] # None <=> \E i \in 1 .. Len(s) : s[i] = c
    BY <1>1, <2>1, ChainHas, Ranges
  <2> QED BY <1>1, <2>2, WaitingIs
<1>5. ASSUME NEW c \in Co
      PROVE  StatusOf(c)' = IF StatusOf(c) = "active" THEN "invalid" ELSE StatusOf(c)
  <2>1. c \in Context /\ state[c] \in States
    BY <1>1, TypedIs, Ranges DEF Typed
  <2>2. StatusOf(c) = IF parent[c] # None THEN "active"
                      ELSE IF state[c] = "running" THEN "suspended" ELSE state[c]
    BY <1>2, StatusIs
  <2>3. StatusOf(c)' = IF parent'[c] # None THEN "active"
                       ELSE IF state'[c] = "running" THEN "suspended" ELSE state'[c]
    BY <1>2, StatusNext
  <2>4. CASE parent[c] # None
    BY <1>1, <1>4, <2>1, <2>2, <2>3, <2>4
  <2>5. CASE parent[c] = None
    BY <1>1, <1>4, <2>1, <2>2, <2>3, <2>5 DEF States
  <2> QED BY <2>4, <2>5
<1>6. Statuses' = [c \in Co |-> IF Statuses[c] = "active" THEN "invalid" ELSE Statuses[c]]
  BY <1>5 DEF Statuses
<1> QED BY <1>3, <1>6 DEF Coroutines!Abandon, Statuses

LEMMA CollectMaps ==
  ASSUME NEW s \in Seq(Context), IInv(s), NEW c \in Co, Collect(c), IInv(s)'
  PROVE  Coroutines!Collect(c)
<1>1. /\ TypeOK /\ parent[c] = None /\ c # current /\ state' = [state EXCEPT ![c] = "none"]
      /\ parent' = parent /\ current' = current /\ native' = native
  BY DEF IInv, Collect
<1>2. Creating' <=> Creating
  BY <1>1 DEF Creating, Top
<1>3. state'[c] = "none" /\ \A d \in Co \ {c} : state'[d] = state[d]
  BY <1>1, TypedIs, Ranges DEF Typed
<1>4. Chain' = Chain
  BY <1>1, <1>2, MappedIs, MappedNext DEF Mapped, ChainOf
<1>5. StatusOf(c) # "active"
  <2>1. StatusOf(c) = IF state[c] = "running" THEN "suspended" ELSE state[c]
    BY <1>1, StatusIs
  <2>2. state[c] \in States
    BY <1>1, TypedIs, Ranges DEF Typed
  <2> QED BY <2>1, <2>2 DEF States
<1>6. StatusOf(c)' = "none"
  <2>1. StatusOf(c)' = IF parent'[c] # None THEN "active"
                       ELSE IF state'[c] = "running" THEN "suspended" ELSE state'[c]
    BY <1>1, StatusNext
  <2> QED BY <1>1, <1>3, <2>1
<1>7. \A d \in Co \ {c} : StatusOf(d)' = StatusOf(d)
  BY <1>1, <1>2, <1>3, StatusIs, StatusNext
<1>8. Statuses[c] # "active" /\ Statuses' = [Statuses EXCEPT ![c] = "none"]
  BY <1>5, <1>6, <1>7 DEF Statuses
<1> QED BY <1>4, <1>8 DEF Coroutines!Collect, Statuses

LEMMA StepMaps ==
  ASSUME Usual, NEW s \in Seq(Context), IInv(s), [Next]_vars
  PROVE  [Coroutines!Next]_<<Chain, Statuses>>
<1>1. CASE \/ \E d \in 0 .. DepthBound : Compute(d)
           \/ CallFunction \/ Return \/ CallNative \/ RuntimeError
           \/ \E c \in Co : ResumeFinished(c)
           \/ CallBack \/ CallBackNative \/ FunctionReturned \/ FunctionFailed
           \/ NativeReturns \/ NativeError \/ HostCall \/ UNCHANGED vars
  <2>1. IInv(s)'
    BY <1>1, ComputeInv, CallFunctionInv, ReturnInv, ReturnNativeInv, CallNativeInv, RuntimeErrorInv,
       ResumeFinishedInv, CallBackInv, CallBackNativeInv, FunctionReturnedInv, FunctionFailedInv,
       NativeReturnsInv, NativeErrorInv, HostCallInv, StutterInv
  <2>2. UNCHANGED <<Chain, Statuses>>
    BY <1>1, <2>1, StutterMaps
  <2> QED BY <2>2
<1>2. ASSUME NEW c \in Co, CreateCoroutine(c) PROVE Coroutines!Next
  BY <1>2, CreateCoroutineInv, CreateMaps DEF Coroutines!Next
<1>3. ASSUME NEW c \in Co, Resume(c) PROVE Coroutines!Next
  BY <1>3, ResumeInv, ResumeMaps DEF Coroutines!Next
<1>4. CASE Finish \/ Yield
  <2>1. Coroutines!GiveWay
    BY <1>4, FinishInv, YieldInv, GiveWayMaps
  <2> QED BY <2>1 DEF Coroutines!Next
<1>5. ASSUME NEW c \in Co, CreateNativeCoroutine(c) PROVE UNCHANGED <<Chain, Statuses>>
  BY <1>5, CreateNativeCoroutineInv, CreateNativeMaps
<1>6. CASE NativeCoroutineReturns
  <2>1. (\E c \in Co : Coroutines!Create(c)) \/ UNCHANGED <<Chain, Statuses>>
    BY <1>6, NativeCoroutineReturnsInv, NativeCreatedMaps
  <2> QED BY <2>1 DEF Coroutines!Next
<1>7. CASE ClearReplErrorState
  <2>1. Coroutines!Abandon
    BY <1>7, ClearReplErrorStateInv, AbandonMaps
  <2> QED BY <2>1 DEF Coroutines!Next
<1>8. ASSUME NEW c \in Co, Collect(c) PROVE Coroutines!Next
  BY <1>8, CollectInv, CollectMaps DEF Coroutines!Next
<1> QED BY <1>1, <1>2, <1>3, <1>4, <1>5, <1>6, <1>7, <1>8, NextIs

LEMMA InitMaps == Init => Coroutines!Init
<1> SUFFICES ASSUME Init PROVE Coroutines!Init
  OBVIOUS
<1> DEFINE t == <<Root>>
<1>1. IInv(t) /\ t \in Seq(Context)
  BY InitInv, Ranges
<1>2. ~ Creating /\ \A c \in Co : state[c] = "none" /\ parent[c] = None
  BY Ranges DEF Creating, Init
<1>3. Chain = t
  BY <1>1, <1>2, MappedIs DEF Mapped, ChainOf
<1>4. \A c \in Co : StatusOf(c) = "none"
  BY <1>1, <1>2, StatusIs
<1> QED BY <1>3, <1>4 DEF Coroutines!Init

(* Contexts, their parents and their states are the coroutines of the      *)
(* language (nkcorout.c, README.md:376-456): every step of the program     *)
(* creates, resumes, suspends, ends, invalidates or collects one, or is    *)
(* none of theirs.                                                         *)
THEOREM ContextsImplementCoroutines ==
  ASSUME Usual
  PROVE  Spec => ImplementsCoroutines
<1>1. CoroutineInv /\ [Next]_vars => [Coroutines!Next]_<<Chain, Statuses>>
  BY StepMaps DEF CoroutineInv
<1> QED BY <1>1, InitMaps, CoroutineInvariant, PTL DEF Spec, ImplementsCoroutines, Coroutines!Spec, Statuses
=============================================================================
