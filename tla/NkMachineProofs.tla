-------------------------- MODULE NkMachineProofs --------------------------
(***************************************************************************)
(* The loop that runs instructions.  First, what NkMachine does with code  *)
(* that has a certificate, of any length, with any functions and integers: *)
(* every step is inside the code and the stack, and none of them fails.    *)
(* Then the counters of the loop, NkIterate: the limit on instructions     *)
(* holds for every width, interval and limit, with the host changing       *)
(* intervals, saving and loading at any time, as long as no interval is 0  *)
(* and no image comes from a VM with an interval longer than loading       *)
(* allows.                                                                 *)
(***************************************************************************)
EXTENDS NkTyping, NkIterate, TLAPS

(* What is ever on the stack: Stale is not.                                *)
Value == [t : {"int", "function", "object"}, v : Int]

(* What a value of a kind is, in a function that returns to back.          *)
Holds(value, kind, back) ==
  \/ kind.t = "exact" /\ value = Raw(kind.v)
  \/ kind.t = "int" /\ value.t = "int"
  \/ kind.t \in {"function", "object"} /\ value = kind
  \/ kind.t = "back" /\ value = Raw(back)

(* A frame is a function that has not returned: the address of its next    *)
(* instruction, or of the call it waits for, and what is below it.         *)
Frame == [at : Nat, base : Nat]

Shape(c, fs, i) == c.points[fs[i].at].shape
Home(c, fs, i)  == c.points[fs[i].at].home
Below(shape)    == Len(shape) - 2 - Top(shape)  \* below what a call takes
Rim(c, fs, i)  == fs[i].base + Below(Shape(c, fs, i))
BackOf(fs, i)   == IF i = 1 THEN 0 ELSE fs[i - 1].at

Linked(c, image, fs, i) ==
  /\ image.code[fs[i].at + 1].op = "CALL"
  /\ fs[i + 1].base = Rim(c, fs, i)
  /\ Home(c, fs, i + 1) = Callee(Shape(c, fs, i))

Chain(c, image, fs) ==
  /\ fs \in Seq(Frame) /\ fs # <<>>
  /\ fs[1].base = 0 /\ Home(c, fs, 1) = Nowhere
  /\ \A i \in 1 .. Len(fs) : fs[i].at \in DOMAIN c.points
  /\ \A i \in 1 .. Len(fs) - 1 : Linked(c, image, fs, i)
  /\ \A i, k \in 1 .. Len(fs) : i < k => Rim(c, fs, i) <= fs[k].base

Filled(c, fs, i, n, values) ==
  \A j \in 1 .. n : Holds(values[fs[i].base + j], Shape(c, fs, i)[j], BackOf(fs, i))

IsGiven(c, k, globals) == k \in DOMAIN c.global => Holds(globals[k + 1], c.global[k], 0)

(* All of it but what the function that runs has on the stack.             *)
Waiting(c, image, fs, values, globals) ==
  /\ Chain(c, image, fs)
  /\ values \in Seq(Value)
  /\ globals \in [1 .. image.staticVariableCount -> Value]
  /\ \A i \in 1 .. Len(fs) - 1 : Filled(c, fs, i, Below(Shape(c, fs, i)), values)
  /\ \A i \in 1 .. Len(fs) : \A k \in c.points[fs[i].at].known : IsGiven(c, k, globals)

Framed(c, image, fs, at, values, globals) ==
  LET top == Len(fs)
      s   == Shape(c, fs, top)
  IN  /\ Waiting(c, image, fs, values, globals)
      /\ at = fs[top].at
      /\ Len(values) = fs[top].base + Len(s)
      /\ Filled(c, fs, top, Len(s), values)

Certain ==
  /\ status \in {"rejected", "running", "ended"}
  /\ status = "running" =>
       \E c : /\ Certifies(c, compiler)
              /\ \E fs : Framed(c, compiler, fs, ip, stack, statics)

-----------------------------------------------------------------------------
(* Sequences, values and kinds.                                            *)

LEMMA AppendIs ==
  ASSUME NEW S, NEW s \in Seq(S), NEW e \in S
  PROVE  /\ Append(s, e) \in Seq(S) /\ Len(Append(s, e)) = Len(s) + 1
         /\ \A i \in 1 .. Len(s) : Append(s, e)[i] = s[i]
         /\ Append(s, e)[Len(s) + 1] = e
OBVIOUS

LEMMA CutIs ==
  ASSUME NEW S, NEW s \in Seq(S), NEW n \in 0 .. Len(s)
  PROVE  /\ SubSeq(s, 1, Len(s) - n) \in Seq(S)
         /\ Len(SubSeq(s, 1, Len(s) - n)) = Len(s) - n
         /\ \A i \in 1 .. Len(s) - n : SubSeq(s, 1, Len(s) - n)[i] = s[i]
OBVIOUS

LEMMA ElementIs ==
  ASSUME NEW S, NEW s \in Seq(S), NEW i \in 1 .. Len(s)
  PROVE  s[i] \in S
OBVIOUS

LEMMA RawIs ==
  ASSUME NEW n \in Int
  PROVE  Raw(n) \in Value /\ Raw(n).t = "int" /\ Raw(n).v = n
BY DEF Raw, Value

LEMMA KindsAre ==
  /\ \A n \in Int : Exact(n) \in Kinds /\ OneFunction(n) \in Kinds
  /\ Whole \in Kinds /\ Object \in Kinds /\ Back \in Kinds
BY DEF Exact, OneFunction, Whole, Object, Back, Kinds

LEMMA HoldsFits ==
  ASSUME NEW value, NEW kind, NEW wider, NEW back,
         Holds(value, kind, back), Fits(kind, wider)
  PROVE  Holds(value, wider, back)
BY DEF Holds, Fits, IsExact, Whole, Raw

(* What a value is that is not a return address does not depend on the     *)
(* function.                                                               *)
LEMMA HoldsAnywhere ==
  ASSUME NEW value, NEW kind \in Kinds, NEW back, NEW other,
         Holds(value, kind, back), kind # Back
  PROVE  Holds(value, kind, other)
<1>1. kind.t # "back"
  BY DEF Kinds, Back, Whole, Object
<1> QED BY <1>1 DEF Holds

LEMMA HoldsCopy ==
  ASSUME NEW value \in Value, NEW kind \in Kinds, NEW back, NEW other,
         Holds(value, kind, back)
  PROVE  Holds(value, Copy(kind), other) /\ Copy(kind) \in Kinds
BY KindsAre, HoldsAnywhere DEF Holds, Copy, Whole, Back, Raw

-----------------------------------------------------------------------------

LEMMA Within ==
  \A a, b \in Nat : \A m \in Int : \A j \in 1 .. m : a + m <= b => a + j \in 1 .. b
OBVIOUS

(* What a certificate says at an address.                                  *)
LEMMA PointIs ==
  ASSUME NEW c, NEW image, Certifies(c, image), NEW a \in DOMAIN c.points
  PROVE  /\ a \in 0 .. Len(image.code) - 1 /\ a \in Nat
         /\ c.points[a].home \in Nat \cup {Nowhere}
         /\ c.points[a].shape \in Seq(Kinds)
         /\ c.points[a].known \subseteq Nat
         /\ Legal(image, c, a)
         /\ image.code \in Seq([op : STRING, v : Int])
         /\ Len(image.code) \in Nat
<1>1. IsCertificate(c, image) /\ Legal(image, c, a)
  BY DEF Certifies
<1>2. IsImage(image) /\ a \in 0 .. Len(image.code) - 1 /\ c.points[a] \in Points
  BY <1>1 DEF IsCertificate
<1>3. image.code \in Seq([op : STRING, v : Int]) /\ Len(image.code) \in Nat
  BY <1>2 DEF IsImage
<1>4. a \in Nat
  BY <1>2, <1>3
<1> QED BY <1>1, <1>2, <1>3, <1>4 DEF Points

(* A call that can be made: its function and arguments are there.          *)
LEMMA CallIs ==
  ASSUME NEW c, NEW image, Certifies(c, image), NEW a \in DOMAIN c.points,
         image.code[a + 1].op \in {"CALL", "COROUTINE_CREATE"},
         NEW s, s = c.points[a].shape
  PROVE  /\ HasTop(s) /\ MayCall(image, s)
         /\ s \in Seq(Kinds) /\ Len(s) \in Nat
         /\ Top(s) \in 0 .. Len(s) - 2 /\ Below(s) \in 0 .. Len(s) - 2
         /\ Callee(s) \in 0 .. Len(image.functions) - 1
         /\ Len(image.functions) \in Nat
<1>1. Legal(image, c, a) /\ s \in Seq(Kinds) /\ Len(s) \in Nat
  BY PointIs
<1>2. MayCall(image, s)
  BY <1>1 DEF Legal
<1>3. HasTop(s) /\ Top(s) \in 0 .. Len(s) - 2 /\ Callee(s) \in 0 .. Len(image.functions) - 1
  BY <1>2 DEF MayCall
<1>4. Below(s) \in 0 .. Len(s) - 2
  BY <1>1, <1>3 DEF Below
<1>5. Len(image.functions) \in Nat
  BY DEF Certifies, IsCertificate, IsImage
<1> QED BY <1>1, <1>2, <1>3, <1>4, <1>5

(* Where an instruction leads to there is a point, and what is known there *)
(* is true of what the instruction leaves.                                 *)
LEMMA LeadsTo ==
  ASSUME NEW c, NEW image, Certifies(c, image), NEW a \in DOMAIN c.points,
         NEW b, NEW shape, <<b, shape>> \in Leads(image, c, a)
  PROVE  /\ b \in DOMAIN c.points
         /\ c.points[b].home = c.points[a].home
         /\ c.points[b].known \subseteq KnownAfter(image, c, a)
         /\ Len(c.points[b].shape) = Len(shape)
         /\ \A i \in 1 .. Len(shape) : Fits(shape[i], c.points[b].shape[i])
<1> DEFINE next == <<b, Point(c.points[a].home, shape, KnownAfter(image, c, a))>>
<1>1. next \in Successors(image, c, a)
  <2>1. next \in {<<n[1], Point(c.points[a].home, n[2], KnownAfter(image, c, a))>>
                     : n \in Leads(image, c, a)}
    OBVIOUS
  <2> QED BY <2>1 DEF Successors
<1>2. Meets(c, next[1], next[2])
  BY <1>1 DEF Certifies
<1> QED BY <1>2 DEF Meets, Covers, Point

(* A call at a of what s says is to b.                                     *)
EntryIs(c, image, a, s, b) ==
  /\ b \in DOMAIN c.points
  /\ c.points[b].home = Callee(s)
  /\ c.points[b].known \subseteq c.points[a].known
  /\ Len(c.points[b].shape) = Len(Append(Given(s), Back))
  /\ \A i \in 1 .. Len(Append(Given(s), Back)) :
       Fits(Append(Given(s), Back)[i], c.points[b].shape[i])

LEMMA CallLeadsTo ==
  ASSUME NEW c, NEW image, Certifies(c, image), NEW a \in DOMAIN c.points,
         image.code[a + 1].op = "CALL"
  PROVE  EntryIs(c, image, a, c.points[a].shape,
                 image.functions[Callee(c.points[a].shape) + 1].firstInstructionIndex)
<1> DEFINE s == c.points[a].shape
           b == image.functions[Callee(s) + 1].firstInstructionIndex
<1> DEFINE next == <<b, Point(Callee(s), Append(Given(s), Back), c.points[a].known)>>
<1>1. next \in Successors(image, c, a)
  BY DEF Successors
<1>2. Meets(c, next[1], next[2])
  BY <1>1 DEF Certifies
<1> QED BY <1>2 DEF EntryIs, Meets, Covers, Point

(* An instruction of the last frame has been executed: it has left shape   *)
(* above what the others wait for, and goes on at b.                       *)
LEMMA Onward ==
  ASSUME NEW c, NEW image, Certifies(c, image),
         NEW fs, NEW old, NEW known, Waiting(c, image, fs, old, known),
         NEW b, NEW shape, <<b, shape>> \in Leads(image, c, fs[Len(fs)].at),
         NEW values \in Seq(Value),
         Len(values) = fs[Len(fs)].base + Len(shape),
         \A j \in 1 .. fs[Len(fs)].base : values[j] = old[j],
         \A j \in 1 .. Len(shape) :
            Holds(values[fs[Len(fs)].base + j], shape[j], BackOf(fs, Len(fs))),
         NEW globals \in [1 .. image.staticVariableCount -> Value],
         \A i \in 1 .. Len(fs) : \A k \in c.points[fs[i].at].known : IsGiven(c, k, globals),
         \A k \in KnownAfter(image, c, fs[Len(fs)].at) : IsGiven(c, k, globals)
  PROVE  \E gs : Framed(c, image, gs, b, values, globals)
<1> DEFINE n == Len(fs)
           gs == [i \in 1 .. n |->
                    IF i = n THEN [at |-> b, base |-> fs[n].base] ELSE fs[i]]
<1>1. /\ fs \in Seq(Frame) /\ fs # <<>> /\ n \in Nat \ {0}
      /\ \A i \in 1 .. n : fs[i] \in Frame /\ fs[i].at \in DOMAIN c.points
  BY DEF Waiting, Chain
<1>2. /\ b \in DOMAIN c.points /\ b \in Nat
      /\ c.points[b].home = c.points[fs[n].at].home
      /\ c.points[b].known \subseteq KnownAfter(image, c, fs[n].at)
      /\ Len(c.points[b].shape) = Len(shape)
      /\ \A i \in 1 .. Len(shape) : Fits(shape[i], c.points[b].shape[i])
  BY <1>1, LeadsTo, PointIs
<1>3. /\ gs \in Seq(Frame) /\ Len(gs) = n
      /\ \A i \in 1 .. n - 1 : gs[i] = fs[i]
      /\ gs[n].at = b /\ gs[n].base = fs[n].base
  <2>1. \A i \in 1 .. n : gs[i] \in Frame
    <3> SUFFICES ASSUME NEW i \in 1 .. n PROVE gs[i] \in Frame
      OBVIOUS
    <3>1. CASE i = n
      BY <3>1, <1>1, <1>2 DEF Frame
    <3>2. CASE i # n
      BY <3>2, <1>1
    <3> QED BY <3>1, <3>2
  <2>2. gs \in Seq(Frame) /\ Len(gs) = n
    BY <1>1, <2>1
  <2>3. \A i \in 1 .. n - 1 : gs[i] = fs[i]
    <3> SUFFICES ASSUME NEW i \in 1 .. n - 1 PROVE gs[i] = fs[i]
      OBVIOUS
    <3>1. i \in 1 .. n /\ i # n
      BY <1>1
    <3> QED BY <3>1
  <2>4. gs[n] = [at |-> b, base |-> fs[n].base]
    BY <1>1
  <2> QED BY <2>2, <2>3, <2>4
<1> HIDE DEF gs
<1>4. \A i \in 1 .. n : gs[i].base = fs[i].base /\ Home(c, gs, i) = Home(c, fs, i)
  <2> SUFFICES ASSUME NEW i \in 1 .. n
               PROVE  gs[i].base = fs[i].base /\ Home(c, gs, i) = Home(c, fs, i)
    OBVIOUS
  <2>1. CASE i = n
    BY <2>1, <1>2, <1>3 DEF Home
  <2>2. CASE i # n
    <3>1. i \in 1 .. n - 1
      BY <2>2, <1>1
    <3> QED BY <3>1, <1>3 DEF Home
  <2> QED BY <2>1, <2>2
<1>5. \A i \in 1 .. n : BackOf(gs, i) = BackOf(fs, i)
  BY <1>1, <1>3 DEF BackOf
<1>6. \A i \in 1 .. n - 1 : Shape(c, gs, i) = Shape(c, fs, i) /\ Rim(c, gs, i) = Rim(c, fs, i)
  BY <1>3 DEF Shape, Rim
<1>7. Chain(c, image, gs)
  <2>1. gs # <<>> /\ gs[1].base = 0 /\ Home(c, gs, 1) = Nowhere
    BY <1>1, <1>3, <1>4 DEF Waiting, Chain
  <2>2. \A i \in 1 .. n : gs[i].at \in DOMAIN c.points
    <3> SUFFICES ASSUME NEW i \in 1 .. n PROVE gs[i].at \in DOMAIN c.points
      OBVIOUS
    <3>1. CASE i = n
      BY <3>1, <1>2, <1>3
    <3>2. CASE i # n
      <4>1. i \in 1 .. n - 1
        BY <3>2, <1>1
      <4> QED BY <4>1, <1>1, <1>3
    <3> QED BY <3>1, <3>2
  <2>3. \A i \in 1 .. n - 1 : Linked(c, image, gs, i)
    <3> SUFFICES ASSUME NEW i \in 1 .. n - 1 PROVE Linked(c, image, gs, i)
      OBVIOUS
    <3>1. Linked(c, image, fs, i)
      BY DEF Waiting, Chain
    <3>2. i \in 1 .. n /\ i + 1 \in 1 .. n
      BY <1>1
    <3> QED BY <3>1, <3>2, <1>3, <1>4, <1>6 DEF Linked
  <2>4. \A i, k \in 1 .. n : i < k => Rim(c, gs, i) <= gs[k].base
    <3> SUFFICES ASSUME NEW i \in 1 .. n, NEW k \in 1 .. n, i < k
                 PROVE  Rim(c, gs, i) <= gs[k].base
      OBVIOUS
    <3>1. i \in 1 .. n - 1
      BY <1>1
    <3>2. Rim(c, fs, i) <= fs[k].base
      BY DEF Waiting, Chain
    <3> QED BY <3>1, <3>2, <1>4, <1>6
  <2> QED BY <1>3, <2>1, <2>2, <2>3, <2>4 DEF Chain
<1>8. \A i \in 1 .. n - 1 : Filled(c, gs, i, Below(Shape(c, gs, i)), values)
  <2> SUFFICES ASSUME NEW i \in 1 .. n - 1, NEW j \in 1 .. Below(Shape(c, fs, i))
               PROVE  Holds(values[fs[i].base + j], Shape(c, fs, i)[j], BackOf(fs, i))
    BY <1>1, <1>4, <1>5, <1>6 DEF Filled
  <2>1. Holds(old[fs[i].base + j], Shape(c, fs, i)[j], BackOf(fs, i))
    BY DEF Waiting, Filled
  <2>2. i \in 1 .. n /\ n \in 1 .. n /\ i < n
    BY <1>1
  <2>3. fs[i].base + Below(Shape(c, fs, i)) <= fs[n].base
    BY <2>2 DEF Waiting, Chain, Rim
  <2>4. fs[i].base \in Nat /\ fs[n].base \in Nat
    BY <1>1, <2>2 DEF Frame
  <2>5. Below(Shape(c, fs, i)) \in Int
    <3>1. fs[i].at \in DOMAIN c.points /\ image.code[fs[i].at + 1].op = "CALL"
      BY <1>1, <2>2 DEF Waiting, Chain, Linked
    <3>2. Below(c.points[fs[i].at].shape) \in Int
      BY <3>1, CallIs, SMTT(30)
    <3> QED BY <3>2 DEF Shape
  <2>6. fs[i].base + j \in 1 .. fs[n].base
    BY <2>3, <2>4, <2>5, Within
  <2> QED BY <2>1, <2>6
<1>9. Shape(c, gs, n) = c.points[b].shape
  BY <1>3 DEF Shape
<1>10. Filled(c, gs, n, Len(shape), values)
  <2> SUFFICES ASSUME NEW j \in 1 .. Len(shape)
               PROVE  Holds(values[fs[n].base + j], c.points[b].shape[j], BackOf(fs, n))
    BY <1>1, <1>3, <1>5, <1>9 DEF Filled
  <2> QED BY <1>2, HoldsFits
<1>11. \A i \in 1 .. n : \A k \in c.points[gs[i].at].known : IsGiven(c, k, globals)
  <2> SUFFICES ASSUME NEW i \in 1 .. n, NEW k \in c.points[gs[i].at].known
               PROVE  IsGiven(c, k, globals)
    OBVIOUS
  <2>1. CASE i = n
    BY <2>1, <1>2, <1>3
  <2>2. CASE i # n
    <3>1. i \in 1 .. n - 1
      BY <2>2, <1>1
    <3> QED BY <3>1, <1>3
  <2> QED BY <2>1, <2>2
<1>12. Waiting(c, image, gs, values, globals)
  BY <1>3, <1>7, <1>8, <1>11 DEF Waiting
<1>13. Framed(c, image, gs, b, values, globals)
  BY <1>2, <1>3, <1>9, <1>10, <1>12 DEF Framed
<1> QED BY <1>13

-----------------------------------------------------------------------------
(* The frame that runs, and what it has on the stack.                      *)

Last(fs)  == fs[Len(fs)]
Here(c)   == c.points[ip].shape
Reads(fs) == BackOf(fs, Len(fs))

(* A state whose code is certified.                                        *)
IsRun(c, fs) == Certifies(c, compiler) /\ Framed(c, compiler, fs, ip, stack, statics)

LEMMA LastIs ==
  ASSUME NEW c, NEW fs, IsRun(c, fs)
  PROVE  /\ Len(fs) \in Nat \ {0} /\ fs \in Seq(Frame)
         /\ ip \in DOMAIN c.points /\ ip \in Nat /\ Last(fs).at = ip
         /\ Last(fs).base \in Nat
         /\ Here(c) \in Seq(Kinds) /\ Len(Here(c)) \in Nat
         /\ stack \in Seq(Value) /\ Len(stack) \in Nat
         /\ Len(stack) = Last(fs).base + Len(Here(c))
         /\ \A j \in 1 .. Len(Here(c)) :
               Holds(stack[Last(fs).base + j], Here(c)[j], Reads(fs))
         /\ Waiting(c, compiler, fs, stack, statics)
         /\ Certifies(c, compiler)
<1>1. /\ Waiting(c, compiler, fs, stack, statics) /\ ip = Last(fs).at
      /\ Certifies(c, compiler)
  BY DEF IsRun, Framed, Last
<1>2. fs \in Seq(Frame) /\ Len(fs) \in Nat \ {0} /\ Last(fs) \in Frame
  BY <1>1 DEF Waiting, Chain, Last
<1>3. ip \in DOMAIN c.points
  BY <1>1, <1>2 DEF Waiting, Chain, Last
<1>4. Here(c) \in Seq(Kinds) /\ Len(Here(c)) \in Nat /\ ip \in Nat
  BY <1>1, <1>3, PointIs DEF Here
<1>5. Shape(c, fs, Len(fs)) = Here(c)
  BY <1>1 DEF Shape, Here, Last
<1>6. /\ stack \in Seq(Value) /\ Len(stack) = Last(fs).base + Len(Here(c))
      /\ Filled(c, fs, Len(fs), Len(Here(c)), stack)
  BY <1>1, <1>5 DEF IsRun, Framed, Last, Waiting
<1>7. \A j \in 1 .. Len(Here(c)) : Holds(stack[Last(fs).base + j], Here(c)[j], Reads(fs))
  BY <1>5, <1>6 DEF Filled, Last, Reads
<1> QED BY <1>1, <1>2, <1>3, <1>4, <1>6, <1>7 DEF Frame

(* Each value counted from the top is of its kind.                         *)
LEMMA FromTopIs ==
  ASSUME NEW c, NEW fs, IsRun(c, fs), NEW n \in 1 .. Len(Here(c))
  PROVE  /\ FromTop(n) \in Value /\ Off(Here(c), n) \in Kinds
         /\ FromTop(n) = stack[Len(stack) + 1 - n]
         /\ Holds(FromTop(n), Off(Here(c), n), Reads(fs))
<1> DEFINE s == Here(c)  base == Last(fs).base  i == Len(s) + 1 - n
<1>1. /\ base \in Nat /\ s \in Seq(Kinds) /\ Len(s) \in Nat
      /\ stack \in Seq(Value) /\ Len(stack) = base + Len(s)
      /\ \A j \in 1 .. Len(s) : Holds(stack[base + j], s[j], Reads(fs))
  BY LastIs
<1>2. i \in 1 .. Len(s) /\ base + i = Len(stack) - n + 1 /\ base + i \in 1 .. Len(stack)
  BY <1>1
<1>3. FromTop(n) = stack[base + i]
  <2>1. Len(stack) - n \in 0 .. Len(stack) - 1
    BY <1>1
  <2> QED BY <1>2, <2>1 DEF FromTop, Peek
<1>4. stack[base + i] \in Value /\ s[i] \in Kinds
  BY <1>1, <1>2, ElementIs
<1>5. Off(s, n) = s[i]
  BY DEF Off
<1>6. base + i = Len(stack) + 1 - n
  BY <1>1, <1>2
<1> QED BY <1>1, <1>2, <1>3, <1>4, <1>5, <1>6

LEMMA TopExact ==
  ASSUME NEW c, NEW fs, IsRun(c, fs), HasTop(Here(c))
  PROVE  /\ Len(Here(c)) >= 1 /\ Top(Here(c)) \in Int
         /\ FromTop(1) = Raw(Top(Here(c)))
         /\ IsInt(FromTop(1)) /\ FromTop(1).v = Top(Here(c))
<1>1. Here(c) \in Seq(Kinds) /\ Here(c) # <<>> /\ Len(Here(c)) \in Nat
  BY LastIs DEF HasTop
<1>2. Len(Here(c)) >= 1
  BY <1>1
<1>3. Off(Here(c), 1) \in Kinds /\ Holds(FromTop(1), Off(Here(c), 1), Reads(fs))
  BY <1>1, <1>2, FromTopIs
<1>4. Off(Here(c), 1).t = "exact" /\ Top(Here(c)) = Off(Here(c), 1).v
  BY DEF HasTop, IsExact, Top
<1>5. Top(Here(c)) \in Int
  BY <1>3, <1>4 DEF Kinds, Whole, Object, Back
<1>6. FromTop(1) = Raw(Top(Here(c)))
  BY <1>3, <1>4 DEF Holds
<1> QED BY <1>2, <1>5, <1>6, RawIs DEF IsInt

(* A value known to be an integer is one.                                  *)
LEMMA IntegerIs ==
  ASSUME NEW c, NEW fs, IsRun(c, fs), NEW n \in 1 .. Len(Here(c)),
         IsInteger(Off(Here(c), n))
  PROVE  IsInt(FromTop(n)) /\ FromTop(n).v \in Int
<1>1. FromTop(n) \in Value /\ Holds(FromTop(n), Off(Here(c), n), Reads(fs))
  BY FromTopIs
<1> QED BY <1>1 DEF IsInteger, IsInt, Holds, Raw, Value

(* The instruction takes p values off the stack.                           *)
LEMMA Takes ==
  ASSUME NEW c, NEW fs, IsRun(c, fs), NEW p \in 0 .. Len(Here(c))
  PROVE  /\ Popped(p) \in Seq(Value) /\ Less(Here(c), p) \in Seq(Kinds)
         /\ Len(Popped(p)) = Len(stack) - p /\ Len(Less(Here(c), p)) = Len(Here(c)) - p
         /\ Len(Popped(p)) = Last(fs).base + Len(Less(Here(c), p))
         /\ \A j \in 1 .. Last(fs).base : Popped(p)[j] = stack[j]
         /\ \A j \in 1 .. Len(Less(Here(c), p)) :
               Holds(Popped(p)[Last(fs).base + j], Less(Here(c), p)[j], Reads(fs))
<1> DEFINE s == Here(c)  base == Last(fs).base
<1>1. /\ base \in Nat /\ s \in Seq(Kinds) /\ Len(s) \in Nat
      /\ stack \in Seq(Value) /\ Len(stack) = base + Len(s)
      /\ \A j \in 1 .. Len(s) : Holds(stack[base + j], s[j], Reads(fs))
  BY LastIs
<1>2. p \in 0 .. Len(stack)
  BY <1>1
<1>3. /\ Less(s, p) \in Seq(Kinds) /\ Len(Less(s, p)) = Len(s) - p
      /\ \A j \in 1 .. Len(s) - p : Less(s, p)[j] = s[j]
  BY <1>1, CutIs DEF Less
<1>4. /\ Popped(p) \in Seq(Value) /\ Len(Popped(p)) = Len(stack) - p
      /\ \A j \in 1 .. Len(stack) - p : Popped(p)[j] = stack[j]
  BY <1>1, <1>2, CutIs DEF Popped
<1>5. \A j \in 1 .. base : j \in 1 .. Len(stack) - p
  BY <1>1
<1>6. \A j \in 1 .. Len(s) - p : j \in 1 .. Len(s) /\ base + j \in 1 .. Len(stack) - p
  BY <1>1
<1>7. Len(Popped(p)) = base + Len(Less(s, p))
  BY <1>1, <1>3, <1>4
<1>8. \A j \in 1 .. base : Popped(p)[j] = stack[j]
  BY <1>4, <1>5
<1>9. \A j \in 1 .. Len(Less(s, p)) : Holds(Popped(p)[base + j], Less(s, p)[j], Reads(fs))
  BY <1>1, <1>3, <1>4, <1>6
<1> QED BY <1>3, <1>4, <1>7, <1>8, <1>9

LEMMA Puts ==
  ASSUME NEW c, NEW fs, IsRun(c, fs), NEW p \in 0 .. Len(Here(c)),
         NEW v \in Value, NEW kind \in Kinds, Holds(v, kind, Reads(fs)),
         NEW values, values = Append(Popped(p), v),
         NEW shape, shape = Append(Less(Here(c), p), kind)
  PROVE  /\ values \in Seq(Value) /\ shape \in Seq(Kinds)
         /\ Len(values) = Last(fs).base + Len(shape)
         /\ \A j \in 1 .. Last(fs).base : values[j] = stack[j]
         /\ \A j \in 1 .. Len(shape) :
               Holds(values[Last(fs).base + j], shape[j], Reads(fs))
<1> DEFINE s == Less(Here(c), p)  base == Last(fs).base
<1>1. /\ Popped(p) \in Seq(Value) /\ s \in Seq(Kinds)
      /\ Len(Popped(p)) = base + Len(s)
      /\ \A j \in 1 .. base : Popped(p)[j] = stack[j]
      /\ \A j \in 1 .. Len(s) : Holds(Popped(p)[base + j], s[j], Reads(fs))
  BY Takes
<1>2. base \in Nat
  BY LastIs
<1> HIDE DEF s, base
<1>3. /\ values \in Seq(Value) /\ Len(values) = Len(Popped(p)) + 1
      /\ \A i \in 1 .. Len(Popped(p)) : values[i] = Popped(p)[i]
      /\ values[Len(Popped(p)) + 1] = v
  BY <1>1, AppendIs
<1>4. /\ shape \in Seq(Kinds) /\ Len(shape) = Len(s) + 1 /\ Len(s) \in Nat
      /\ \A i \in 1 .. Len(s) : shape[i] = s[i]
      /\ shape[Len(s) + 1] = kind
  BY <1>1, AppendIs DEF s
<1>5. Len(values) = base + Len(shape)
  BY <1>1, <1>2, <1>3, <1>4
<1>6. \A j \in 1 .. base : values[j] = stack[j]
  <2> SUFFICES ASSUME NEW j \in 1 .. base PROVE values[j] = stack[j]
    OBVIOUS
  <2>1. j \in 1 .. Len(Popped(p))
    BY <1>1, <1>2, <1>4
  <2> QED BY <2>1, <1>1, <1>3
<1>7. \A j \in 1 .. Len(shape) : Holds(values[base + j], shape[j], Reads(fs))
  <2> SUFFICES ASSUME NEW j \in 1 .. Len(shape)
               PROVE  Holds(values[base + j], shape[j], Reads(fs))
    OBVIOUS
  <2>1. CASE j = Len(s) + 1
    <3>1. base + j = Len(Popped(p)) + 1
      BY <2>1, <1>1, <1>2, <1>4
    <3> QED BY <2>1, <3>1, <1>3, <1>4
  <2>2. CASE j # Len(s) + 1
    <3>1. j \in 1 .. Len(s) /\ base + j \in 1 .. Len(Popped(p))
      BY <2>2, <1>1, <1>2, <1>4
    <3> QED BY <3>1, <1>1, <1>3, <1>4
  <2> QED BY <2>1, <2>2
<1> QED BY <1>3, <1>4, <1>5, <1>6, <1>7 DEF base

(* Static addresses that have been given a value keep one of its kind.     *)
LEMMA StaysGiven ==
  ASSUME NEW c, NEW fs, IsRun(c, fs), Word(ip).op # "STATICPOKE"
  PROVE  /\ statics \in [1 .. compiler.staticVariableCount -> Value]
         /\ \A i \in 1 .. Len(fs) : \A k \in c.points[fs[i].at].known : IsGiven(c, k, statics)
         /\ \A k \in KnownAfter(compiler, c, ip) : IsGiven(c, k, statics)
<1>1. Waiting(c, compiler, fs, stack, statics) /\ Len(fs) \in 1 .. Len(fs) /\ fs[Len(fs)].at = ip
  BY LastIs DEF Last
<1>2. \A i \in 1 .. Len(fs) : \A k \in c.points[fs[i].at].known : IsGiven(c, k, statics)
  BY <1>1 DEF Waiting
<1>3. KnownAfter(compiler, c, ip) = c.points[ip].known
  BY DEF KnownAfter, Word
<1> QED BY <1>1, <1>2, <1>3 DEF Waiting

(* An instruction that puts a value in the place of p, or takes p.         *)
LEMMA Replaces ==
  ASSUME NEW c, NEW fs, IsRun(c, fs), Word(ip).op # "STATICPOKE",
         NEW p \in 0 .. Len(Here(c)),
         NEW v \in Value, NEW kind \in Kinds, Holds(v, kind, Reads(fs)),
         NEW b, <<b, Append(Less(Here(c), p), kind)>> \in Leads(compiler, c, ip)
  PROVE  \E gs : Framed(c, compiler, gs, b, Append(Popped(p), v), statics)
<1> DEFINE shape == Append(Less(Here(c), p), kind)  values == Append(Popped(p), v)
<1>1. /\ values \in Seq(Value) /\ shape \in Seq(Kinds)
      /\ Len(values) = Last(fs).base + Len(shape)
      /\ \A j \in 1 .. Last(fs).base : values[j] = stack[j]
      /\ \A j \in 1 .. Len(shape) : Holds(values[Last(fs).base + j], shape[j], Reads(fs))
  BY Puts
<1>2. /\ Waiting(c, compiler, fs, stack, statics) /\ Certifies(c, compiler)
      /\ fs[Len(fs)].at = ip
  BY LastIs DEF Last
<1> HIDE DEF shape, values
<1>3. \E gs : Framed(c, compiler, gs, b, values, statics)
  <2>1. <<b, shape>> \in Leads(compiler, c, fs[Len(fs)].at)
    BY <1>2 DEF shape
  <2>2. /\ Len(values) = fs[Len(fs)].base + Len(shape)
        /\ \A j \in 1 .. fs[Len(fs)].base : values[j] = stack[j]
        /\ \A j \in 1 .. Len(shape) :
              Holds(values[fs[Len(fs)].base + j], shape[j], BackOf(fs, Len(fs)))
    BY <1>1 DEF Last, Reads
  <2> QED BY <2>1, <2>2, <1>1, <1>2, StaysGiven, Onward, ZenonT(60)
<1> QED BY <1>3 DEF values

LEMMA Drops ==
  ASSUME NEW c, NEW fs, IsRun(c, fs), NEW p \in 0 .. Len(Here(c)),
         NEW b, <<b, Less(Here(c), p)>> \in Leads(compiler, c, ip),
         NEW globals \in [1 .. compiler.staticVariableCount -> Value],
         \A i \in 1 .. Len(fs) : \A k \in c.points[fs[i].at].known : IsGiven(c, k, globals),
         \A k \in KnownAfter(compiler, c, ip) : IsGiven(c, k, globals)
  PROVE  \E gs : Framed(c, compiler, gs, b, Popped(p), globals)
<1> DEFINE shape == Less(Here(c), p)  values == Popped(p)
<1>1. /\ values \in Seq(Value)
      /\ Len(values) = Last(fs).base + Len(shape)
      /\ \A j \in 1 .. Last(fs).base : values[j] = stack[j]
      /\ \A j \in 1 .. Len(shape) : Holds(values[Last(fs).base + j], shape[j], Reads(fs))
  BY Takes
<1>2. /\ Waiting(c, compiler, fs, stack, statics) /\ Certifies(c, compiler)
      /\ fs[Len(fs)].at = ip
  BY LastIs DEF Last
<1> HIDE DEF shape, values
<1>3. \E gs : Framed(c, compiler, gs, b, values, globals)
  <2>1. <<b, shape>> \in Leads(compiler, c, fs[Len(fs)].at)
    BY <1>2 DEF shape
  <2>2. /\ Len(values) = fs[Len(fs)].base + Len(shape)
        /\ \A j \in 1 .. fs[Len(fs)].base : values[j] = stack[j]
        /\ \A j \in 1 .. Len(shape) :
              Holds(values[fs[Len(fs)].base + j], shape[j], BackOf(fs, Len(fs)))
    BY <1>1 DEF Last, Reads
  <2> QED BY <2>1, <2>2, <1>1, <1>2, Onward, ZenonT(60)
<1> QED BY <1>3 DEF values

-----------------------------------------------------------------------------
(* One instruction after the other.                                        *)

Continues(c) ==
  /\ status' = status /\ compiler' = compiler
  /\ \E gs : Framed(c, compiler, gs, ip', stack', statics')

LEMMA WordIs ==
  ASSUME NEW c, NEW fs, IsRun(c, fs)
  PROVE  /\ Legal(compiler, c, ip)
         /\ ip + 1 < Len(compiler.code) => Word(ip + 1).v \in Int
<1>1. /\ Legal(compiler, c, ip) /\ ip \in Nat
      /\ compiler.code \in Seq([op : STRING, v : Int]) /\ Len(compiler.code) \in Nat
  BY LastIs, PointIs
<1>2. ASSUME ip + 1 < Len(compiler.code) PROVE Word(ip + 1).v \in Int
  <2>1. ip + 1 + 1 \in 1 .. Len(compiler.code)
    BY <1>1, <1>2
  <2>2. Word(ip + 1) \in [op : STRING, v : Int]
    BY <2>1, <1>1, ElementIs DEF Word
  <2> QED BY <2>2
<1> QED BY <1>1, <1>2

LEMMA NothingTaken ==
  ASSUME NEW c, NEW fs, IsRun(c, fs)
  PROVE  0 \in 0 .. Len(Here(c)) /\ Popped(0) = stack /\ Less(Here(c), 0) = Here(c)
<1>1. stack \in Seq(Value) /\ Here(c) \in Seq(Kinds) /\ Len(Here(c)) \in Nat
  BY LastIs
<1> QED BY <1>1 DEF Popped, Less

LEMMA PushLiteralIntContinues ==
  ASSUME NEW c, NEW fs, IsRun(c, fs), PushLiteralInt
  PROVE  Continues(c)
<1> DEFINE v == Raw(Word(ip + 1).v)  kind == Exact(Word(ip + 1).v)
<1>1. Word(ip).op = "PUSHLITERAL_INT" /\ ip \in Nat
  BY LastIs DEF PushLiteralInt, Executes
<1>2. Word(ip + 1).v \in Int
  <2>1. ip + 1 < Len(compiler.code)
    BY <1>1, WordIs DEF Legal, Word
  <2> QED BY <2>1, WordIs
<1>3. v \in Value /\ kind \in Kinds /\ Holds(v, kind, Reads(fs))
  BY <1>2, RawIs, KindsAre DEF Holds, Exact
<1>4. <<ip + 2, Append(Less(Here(c), 0), kind)>> \in Leads(compiler, c, ip)
  <2>1. ip + 1 + 1 = ip + 2
    BY <1>1
  <2> QED BY <2>1, <1>1, NothingTaken DEF Leads, Here, Word
<1> HIDE DEF v, kind
<1>5. \E gs : Framed(c, compiler, gs, ip + 2, Append(Popped(0), v), statics)
  BY <1>1, <1>3, <1>4, NothingTaken, Replaces
<1>6. /\ stack' = Append(Popped(0), v) /\ ip' = ip + 2 /\ statics' = statics
      /\ status' = status /\ compiler' = compiler
  BY <1>1, NothingTaken DEF PushLiteralInt, Goes, v
<1> QED BY <1>5, <1>6 DEF Continues

LEMMA PushLiteralFunctionIdContinues ==
  ASSUME NEW c, NEW fs, IsRun(c, fs), PushLiteralFunctionId
  PROVE  Continues(c)
<1> DEFINE v == [t |-> "function", v |-> Word(ip + 1).v]
           kind == OneFunction(Word(ip + 1).v)
<1>1. Word(ip).op = "PUSHLITERAL_FUNCTIONID" /\ ip \in Nat
  BY LastIs DEF PushLiteralFunctionId, Executes
<1>2. Word(ip + 1).v \in Int
  <2>1. ip + 1 < Len(compiler.code)
    BY <1>1, WordIs DEF Legal, Word
  <2> QED BY <2>1, WordIs
<1>3. v \in Value /\ kind \in Kinds /\ Holds(v, kind, Reads(fs))
  BY <1>2, KindsAre DEF Holds, OneFunction, Value
<1>4. <<ip + 2, Append(Less(Here(c), 0), kind)>> \in Leads(compiler, c, ip)
  <2>1. ip + 1 + 1 = ip + 2
    BY <1>1
  <2> QED BY <2>1, <1>1, NothingTaken DEF Leads, Here, Word
<1> HIDE DEF kind
<1>5. \E gs : Framed(c, compiler, gs, ip + 2, Append(Popped(0), v), statics)
  BY <1>1, <1>3, <1>4, NothingTaken, Replaces
<1>6. /\ stack' = Append(Popped(0), v) /\ ip' = ip + 2 /\ statics' = statics
      /\ status' = status /\ compiler' = compiler
  BY <1>1, NothingTaken DEF PushLiteralFunctionId, Goes
<1> QED BY <1>5, <1>6 DEF Continues

(* An instruction that has what it wants, and does not set a static        *)
(* address, continues.                                                     *)
LEMMA DoesReplace ==
  ASSUME NEW c, NEW fs, IsRun(c, fs), Word(ip).op # "STATICPOKE",
         NEW legal, legal, NEW p \in 0 .. Len(Here(c)),
         NEW v \in Value, NEW kind \in Kinds, Holds(v, kind, Reads(fs)),
         NEW b \in Int,
         <<b + 1, Append(Less(Here(c), p), kind)>> \in Leads(compiler, c, ip),
         Does(legal, Append(Popped(p), v), b)
  PROVE  Continues(c)
<1>1. \E gs : Framed(c, compiler, gs, b + 1, Append(Popped(p), v), statics)
  BY Replaces
<1>2. /\ stack' = Append(Popped(p), v) /\ ip' = b + 1 /\ statics' = statics
      /\ status' = status /\ compiler' = compiler
  BY DEF Does, Goes
<1> QED BY <1>1, <1>2 DEF Continues

LEMMA DoesDrop ==
  ASSUME NEW c, NEW fs, IsRun(c, fs), Word(ip).op # "STATICPOKE",
         NEW legal, legal, NEW p \in 0 .. Len(Here(c)), NEW b \in Int,
         <<b + 1, Less(Here(c), p)>> \in Leads(compiler, c, ip),
         Does(legal, Popped(p), b)
  PROVE  Continues(c)
<1>1. \E gs : Framed(c, compiler, gs, b + 1, Popped(p), statics)
  BY Drops, StaysGiven
<1>2. /\ stack' = Popped(p) /\ ip' = b + 1 /\ statics' = statics
      /\ status' = status /\ compiler' = compiler
  BY DEF Does, Goes
<1> QED BY <1>1, <1>2 DEF Continues

LEMMA PopContinues ==
  ASSUME NEW c, NEW fs, IsRun(c, fs), Pop
  PROVE  Continues(c)
<1>1. Word(ip).op = "POP" /\ ip \in Int /\ Does(stack # <<>>, Popped(1), ip)
  BY LastIs DEF Pop, Executes
<1>2. Here(c) # <<>>
  BY <1>1, WordIs DEF Legal, Word, Here
<1>3. 1 \in 0 .. Len(Here(c)) /\ stack # <<>>
  BY <1>2, LastIs
<1>4. <<ip + 1, Less(Here(c), 1)>> \in Leads(compiler, c, ip)
  BY <1>1 DEF Leads, Here, Word
<1> QED BY <1>1, <1>3, <1>4, DoesDrop

LEMMA PopNContinues ==
  ASSUME NEW c, NEW fs, IsRun(c, fs), PopN
  PROVE  Continues(c)
<1> DEFINE s == Here(c)  n == FromTop(1)
<1>1. /\ Word(ip).op = "POPN" /\ ip \in Int
      /\ Does(IsInt(n) /\ n.v < Len(stack), Popped(1 + n.v), ip)
  BY LastIs DEF PopN, Executes
<1>2. HasTop(s) /\ Top(s) \in 0 .. Len(s) - 1
  BY <1>1, WordIs DEF Legal, Word, Here
<1>3. IsInt(n) /\ n.v = Top(s)
  BY <1>2, TopExact
<1>4. 1 + n.v \in 0 .. Len(s) /\ n.v < Len(stack)
  BY <1>2, <1>3, LastIs
<1>5. <<ip + 1, Less(s, 1 + n.v)>> \in Leads(compiler, c, ip)
  BY <1>1, <1>3 DEF Leads, Here, Word
<1> QED BY <1>1, <1>3, <1>4, <1>5, DoesDrop

LEMMA AddContinues ==
  ASSUME NEW c, NEW fs, IsRun(c, fs), Add
  PROVE  Continues(c)
<1> DEFINE s == Here(c)  a == FromTop(2)  b == FromTop(1)  v == Number(a.v + b.v)
<1>1. /\ Word(ip).op = "ADD" /\ ip \in Int
      /\ Does(IsInt(a) /\ IsInt(b), Append(Popped(2), v), ip)
  BY LastIs DEF Add, Executes
<1>2. Len(s) >= 2 /\ IsInteger(Off(s, 1)) /\ IsInteger(Off(s, 2))
  BY <1>1, WordIs DEF Legal, Word, Here
<1>3. 1 \in 1 .. Len(s) /\ 2 \in 1 .. Len(s) /\ 2 \in 0 .. Len(s)
  BY <1>2, LastIs
<1>4. IsInt(a) /\ IsInt(b) /\ a.v \in Int /\ b.v \in Int
  BY <1>2, <1>3, IntegerIs
<1>5. v \in Value /\ Whole \in Kinds /\ Holds(v, Whole, Reads(fs))
  <2>1. (a.v + b.v) % IntValues \in Int
    BY <1>4, MachineAssumption
  <2> QED BY <2>1, KindsAre DEF Number, Value, Holds, Whole
<1>6. <<ip + 1, Append(Less(s, 2), Whole)>> \in Leads(compiler, c, ip)
  BY <1>1 DEF Leads, Here, Word
<1> QED BY <1>1, <1>3, <1>4, <1>5, <1>6, DoesReplace

LEMMA NotContinues ==
  ASSUME NEW c, NEW fs, IsRun(c, fs), Not
  PROVE  Continues(c)
<1> DEFINE s == Here(c)  a == FromTop(1)  v == Raw(IF a.v = 0 THEN 1 ELSE 0)
<1>1. /\ Word(ip).op = "NOT" /\ ip \in Int
      /\ Does(IsInt(a), Append(Popped(1), v), ip)
  BY LastIs DEF Not, Executes
<1>2. s # <<>> /\ IsInteger(Off(s, 1))
  BY <1>1, WordIs DEF Legal, Word, Here
<1>3. 1 \in 1 .. Len(s) /\ 1 \in 0 .. Len(s)
  BY <1>2, LastIs
<1>4. IsInt(a)
  BY <1>2, <1>3, IntegerIs
<1>5. v \in Value /\ Whole \in Kinds /\ Holds(v, Whole, Reads(fs))
  BY RawIs, KindsAre DEF Holds, Whole
<1>6. <<ip + 1, Append(Less(s, 1), Whole)>> \in Leads(compiler, c, ip)
  BY <1>1 DEF Leads, Here, Word
<1> HIDE DEF v
<1> QED BY <1>1, <1>3, <1>4, <1>5, <1>6, DoesReplace

(* A local address that is known is that of one of the values.             *)
LEMMA LocalIs ==
  ASSUME NEW c, NEW fs, IsRun(c, fs), IsLocal(Here(c)),
         NEW s, s = Here(c), NEW n, n = 1 - Top(s)
  PROVE  /\ Len(s) >= 2 /\ n \in 2 .. Len(s) /\ Top(s) \in Int
         /\ IsInt(FromTop(1)) /\ FromTop(1).v = Top(s)
         /\ Slot(FromTop(1).v) = Len(stack) - n
         /\ Peek(Slot(FromTop(1).v)) = FromTop(n)
         /\ Off(s, n) = s[Len(s) + Top(s)]
<1>1. /\ HasTop(s) /\ Top(s) \in 1 - Len(s) .. -1
      /\ Len(s) \in Nat /\ Len(stack) \in Nat
  BY LastIs DEF IsLocal
<1>2. IsInt(FromTop(1)) /\ FromTop(1).v = Top(s)
  BY <1>1, TopExact
<1>3. Len(s) >= 2 /\ n \in 2 .. Len(s) /\ Top(s) \in Int
  BY <1>1
<1>4. Slot(Top(s)) = Len(stack) - n
  BY <1>1 DEF Slot
<1>5. Len(s) + 1 - n = Len(s) + Top(s)
  BY <1>1
<1> QED BY <1>2, <1>3, <1>4, <1>5 DEF FromTop, Off

LEMMA StackPeekContinues ==
  ASSUME NEW c, NEW fs, IsRun(c, fs), StackPeek
  PROVE  Continues(c)
<1> DEFINE s == Here(c)  n == 1 - Top(s)  kind == Copy(s[Len(s) + Top(s)])
           v == Peek(Slot(FromTop(1).v))
<1>1. /\ Word(ip).op = "STACKPEEK" /\ ip \in Int
      /\ Does(IsInt(FromTop(1)), Append(Popped(1), v), ip)
  BY LastIs DEF StackPeek, Executes
<1>2. IsLocal(s)
  BY <1>1, WordIs DEF Legal, Word, Here
<1>3. /\ IsInt(FromTop(1)) /\ n \in 2 .. Len(s) /\ Len(s) >= 2
      /\ v = FromTop(n) /\ Off(s, n) = s[Len(s) + Top(s)]
  BY <1>2, LocalIs
<1>4. n \in 1 .. Len(s) /\ 1 \in 0 .. Len(s)
  BY <1>3, LastIs
<1>5. v \in Value /\ kind \in Kinds /\ Holds(v, kind, Reads(fs))
  BY <1>3, <1>4, FromTopIs, HoldsCopy
<1>6. <<ip + 1, Append(Less(s, 1), kind)>> \in Leads(compiler, c, ip)
  BY <1>1 DEF Leads, Here, Word
<1> HIDE DEF v, kind
<1> QED BY <1>1, <1>3, <1>4, <1>5, <1>6, DoesReplace

LEMMA Cancels == \A x, y, z \in Int : x + y = x + z => y = z
OBVIOUS

LEMMA IsBelow ==
  \A b, l, t \in Int : l >= 2 /\ t >= 1 => \A j \in 1 .. b : j \in 1 .. b + l - 1 /\ j # b + t
OBVIOUS

LEMMA StackPokeContinues ==
  ASSUME NEW c, NEW fs, IsRun(c, fs), StackPoke
  PROVE  Continues(c)
<1> DEFINE s == Here(c)  n == 1 - Top(s)  base == Last(fs).base  v == FromTop(2)
           to == Slot(FromTop(1).v)
           values == [i \in 1 .. Len(stack) - 1 |-> IF i = to + 1 THEN v ELSE stack[i]]
           shape == [i \in 1 .. Len(s) - 1 |->
                       IF i = Len(s) + Top(s) THEN Copy(Off(s, 2)) ELSE s[i]]
<1>1. /\ Word(ip).op = "STACKPOKE" /\ ip \in Int
      /\ Does(IsInt(FromTop(1)), values, ip)
  BY LastIs DEF StackPoke, Executes
<1>2. IsLocal(s)
  BY <1>1, WordIs DEF Legal, Word, Here
<1>3. /\ IsInt(FromTop(1)) /\ n \in 2 .. Len(s) /\ Len(s) >= 2 /\ Top(s) \in Int
      /\ to = Len(stack) - n
  BY <1>2, LocalIs
<1>4. /\ base \in Nat /\ Len(s) \in Nat /\ s \in Seq(Kinds)
      /\ stack \in Seq(Value) /\ Len(stack) \in Nat /\ Len(stack) = base + Len(s)
      /\ \A j \in 1 .. Len(s) : Holds(stack[base + j], s[j], Reads(fs))
  BY LastIs
<1>5. v \in Value /\ Holds(v, Copy(Off(s, 2)), Reads(fs))
  <2>1. 2 \in 1 .. Len(s)
    BY <1>3, <1>4
  <2> QED BY <2>1, FromTopIs, HoldsCopy
<1>6. to + 1 = base + (Len(s) + Top(s)) /\ Len(s) + Top(s) >= 1 /\ Len(s) + Top(s) \in Int
  <2> HIDE DEF to, s, base
  <2> QED BY <1>3, <1>4
<1> HIDE DEF v, to, s, base
<1>7. /\ values \in Seq(Value) /\ Len(values) = Len(stack) - 1
      /\ \A i \in 1 .. Len(stack) - 1 : values[i] = IF i = to + 1 THEN v ELSE stack[i]
  <2>1. \A i \in 1 .. Len(stack) - 1 : stack[i] \in Value
    BY <1>4
  <2>2. Len(stack) - 1 \in Nat
    BY <1>3, <1>4
  <2> QED BY <2>1, <2>2, <1>5
<1>8. /\ Len(shape) = Len(s) - 1
      /\ \A i \in 1 .. Len(s) - 1 :
           shape[i] = IF i = Len(s) + Top(s) THEN Copy(Off(s, 2)) ELSE s[i]
  <2>1. Len(s) - 1 \in Nat
    BY <1>3, <1>4
  <2> QED BY <2>1
<1>9. <<ip + 1, shape>> \in Leads(compiler, c, ip)
  BY <1>1 DEF Leads, Here, Word, s
<1> HIDE DEF values, shape
<1>10. Len(values) = base + Len(shape)
  BY <1>4, <1>7, <1>8
<1>11. \A j \in 1 .. base : values[j] = stack[j]
  <2> SUFFICES ASSUME NEW j \in 1 .. base PROVE values[j] = stack[j]
    OBVIOUS
  <2>1. j \in 1 .. base + Len(s) - 1 /\ j # base + (Len(s) + Top(s))
    <3>1. base \in Int /\ Len(s) \in Int /\ Len(s) >= 2
      BY <1>3, <1>4
    <3> QED BY <3>1, <1>6, IsBelow
  <2>2. j \in 1 .. Len(stack) - 1 /\ j # to + 1
    BY <2>1, <1>4, <1>6
  <2> QED BY <2>2, <1>7
<1>12. \A j \in 1 .. Len(shape) : Holds(values[base + j], shape[j], Reads(fs))
  <2> SUFFICES ASSUME NEW j \in 1 .. Len(shape)
               PROVE  Holds(values[base + j], shape[j], Reads(fs))
    OBVIOUS
  <2>1. j \in 1 .. Len(s) /\ j \in 1 .. Len(s) - 1 /\ base + j \in 1 .. Len(stack) - 1
    BY <1>4, <1>8
  <2>2. CASE j = Len(s) + Top(s)
    <3>1. base + j = to + 1
      BY <2>2, <1>6
    <3> QED BY <2>1, <2>2, <3>1, <1>5, <1>7, <1>8
  <2>3. CASE j # Len(s) + Top(s)
    <3>1. base + j # to + 1
      BY <2>1, <2>3, <1>4, <1>6, Cancels
    <3> QED BY <2>1, <2>3, <3>1, <1>4, <1>7, <1>8
  <2> QED BY <2>2, <2>3
<1>13. \E gs : Framed(c, compiler, gs, ip + 1, values, statics)
  <2>1. /\ Waiting(c, compiler, fs, stack, statics) /\ Certifies(c, compiler)
        /\ fs[Len(fs)].at = ip
    BY LastIs DEF Last
  <2> QED BY <2>1, <1>1, <1>7, <1>9, <1>10, <1>11, <1>12, StaysGiven, Onward
       DEF Last, Reads, base
<1>14. /\ stack' = values /\ ip' = ip + 1 /\ statics' = statics
       /\ status' = status /\ compiler' = compiler
  BY <1>1, <1>3 DEF Does, Goes
<1> QED BY <1>13, <1>14 DEF Continues

LEMMA StaticPeekContinues ==
  ASSUME NEW c, NEW fs, IsRun(c, fs), StaticPeek
  PROVE  Continues(c)
<1> DEFINE s == Here(c)  v == statics[FromTop(1).v + 1]  kind == c.global[Top(s)]
<1>1. /\ Word(ip).op = "STATICPEEK" /\ ip \in Int
      /\ Does(IsInt(FromTop(1)), Append(Popped(1), v), ip)
  BY LastIs DEF StaticPeek, Executes
<1>2. HasTop(s) /\ Top(s) \in c.points[ip].known \cap DOMAIN c.global
  BY <1>1, WordIs DEF Legal, Word, Here
<1>3. IsInt(FromTop(1)) /\ FromTop(1).v = Top(s) /\ 1 \in 0 .. Len(s)
  BY <1>2, TopExact, LastIs
<1>4. kind \in Kinds /\ kind # Back /\ Top(s) \in 0 .. compiler.staticVariableCount - 1
  BY <1>2, LastIs DEF Certifies, IsCertificate
<1>5. Holds(v, kind, 0)
  <2>1. KnownAfter(compiler, c, ip) = c.points[ip].known
    BY <1>1 DEF KnownAfter, Word
  <2>2. IsGiven(c, Top(s), statics)
    BY <1>1, <1>2, <2>1, StaysGiven
  <2> QED BY <1>2, <1>3, <2>2 DEF IsGiven
<1>6. v \in Value
  <2>1. Top(s) + 1 \in 1 .. compiler.staticVariableCount
    BY <1>4, LastIs DEF Certifies, IsCertificate, IsImage
  <2> QED BY <1>1, <1>3, <2>1, StaysGiven
<1>7. Holds(v, kind, Reads(fs))
  BY <1>4, <1>5, HoldsAnywhere
<1>8. <<ip + 1, Append(Less(s, 1), kind)>> \in Leads(compiler, c, ip)
  BY <1>1 DEF Leads, Here, Word
<1> HIDE DEF v, kind
<1> QED BY <1>1, <1>3, <1>4, <1>6, <1>7, <1>8, DoesReplace

LEMMA StaticPokeContinues ==
  ASSUME NEW c, NEW fs, IsRun(c, fs), StaticPoke
  PROVE  Continues(c)
<1> DEFINE s == Here(c)  v == FromTop(2)
<1>1. Word(ip).op = "STATICPOKE" /\ ip \in Int
  BY LastIs DEF StaticPoke, Executes
<1>2. HasTop(s) /\ Top(s) \in DOMAIN c.global /\ Len(s) >= 2 /\ Fits(Off(s, 2), c.global[Top(s)])
  BY <1>1, WordIs DEF Legal, Word, Here
<1>3. /\ IsInt(FromTop(1)) /\ FromTop(1).v = Top(s) /\ Top(s) \in Int
      /\ 1 \in 0 .. Len(s) /\ 2 \in 1 .. Len(s)
  BY <1>2, TopExact, LastIs
<1>4. /\ \A k \in DOMAIN c.global : c.global[k] \in Kinds /\ c.global[k] # Back
      /\ DOMAIN c.global \subseteq 0 .. compiler.staticVariableCount - 1
  BY LastIs DEF Certifies, IsCertificate
<1>5. v \in Value /\ Off(s, 2) \in Kinds /\ Holds(v, Off(s, 2), Reads(fs))
  BY <1>3, FromTopIs
<1>6. Holds(v, c.global[Top(s)], 0)
  <2>1. Holds(v, c.global[Top(s)], Reads(fs))
    BY <1>2, <1>5, HoldsFits
  <2> QED BY <2>1, <1>2, <1>4, HoldsAnywhere
<1>7. /\ stack' = Popped(1) /\ ip' = ip + 1 /\ compiler' = compiler /\ status' = status
      /\ statics' = [statics EXCEPT ![Top(s) + 1] = v]
  BY <1>3 DEF StaticPoke
<1>8. /\ statics \in [1 .. compiler.staticVariableCount -> Value]
      /\ \A i \in 1 .. Len(fs) : \A k \in c.points[fs[i].at].known : IsGiven(c, k, statics)
  BY LastIs DEF Waiting
<1>9. /\ statics' \in [1 .. compiler.staticVariableCount -> Value]
      /\ statics'[Top(s) + 1] = v
      /\ \A k \in DOMAIN c.global : k # Top(s) => statics'[k + 1] = statics[k + 1]
  <2>1. Top(s) + 1 \in 1 .. compiler.staticVariableCount
    BY <1>2, <1>4, LastIs DEF Certifies, IsCertificate, IsImage
  <2>2. \A k \in DOMAIN c.global : k # Top(s) => k + 1 # Top(s) + 1
    BY <1>3, <1>4
  <2>3. compiler.staticVariableCount \in Nat
    BY LastIs DEF Certifies, IsCertificate, IsImage
  <2>4. \A k \in DOMAIN c.global : k + 1 \in 1 .. compiler.staticVariableCount
    BY <1>4, <2>3
  <2> HIDE DEF s, v
  <2> QED BY <1>5, <1>7, <1>8, <2>1, <2>2, <2>4
<1>10. \A k : IsGiven(c, k, statics) => IsGiven(c, k, statics')
  <2> SUFFICES ASSUME NEW k, IsGiven(c, k, statics), k \in DOMAIN c.global
               PROVE  Holds(statics'[k + 1], c.global[k], 0)
    BY DEF IsGiven
  <2>1. CASE k = Top(s)
    BY <2>1, <1>6, <1>9
  <2>2. CASE k # Top(s)
    BY <2>2, <1>9 DEF IsGiven
  <2> QED BY <2>1, <2>2
<1>11. IsGiven(c, Top(s), statics')
  BY <1>6, <1>9 DEF IsGiven
<1>12. \A i \in 1 .. Len(fs) : \A k \in c.points[fs[i].at].known : IsGiven(c, k, statics')
  BY <1>8, <1>10
<1>13. \A k \in KnownAfter(compiler, c, ip) : IsGiven(c, k, statics')
  <2>1. KnownAfter(compiler, c, ip) = c.points[ip].known \cup {Top(s)}
    BY <1>1 DEF KnownAfter, Word, Here
  <2>2. Len(fs) \in 1 .. Len(fs) /\ fs[Len(fs)].at = ip
    BY LastIs DEF Last
  <2> QED BY <2>1, <2>2, <1>11, <1>12
<1>14. <<ip + 1, Less(s, 1)>> \in Leads(compiler, c, ip)
  BY <1>1 DEF Leads, Here, Word
<1>15. \E gs : Framed(c, compiler, gs, ip + 1, Popped(1), statics')
  BY <1>3, <1>9, <1>12, <1>13, <1>14, Drops
<1> QED BY <1>7, <1>15 DEF Continues

LEMMA JumpRelativeContinues ==
  ASSUME NEW c, NEW fs, IsRun(c, fs), JumpRelative
  PROVE  Continues(c)
<1> DEFINE s == Here(c)
<1>1. /\ Word(ip).op = "JUMP_RELATIVE" /\ ip \in Int
      /\ Does(IsInt(FromTop(1)), Popped(1), ip + FromTop(1).v)
  BY LastIs DEF JumpRelative, Executes
<1>2. HasTop(s)
  BY <1>1, WordIs DEF Legal, Word, Here
<1>3. IsInt(FromTop(1)) /\ FromTop(1).v = Top(s) /\ Top(s) \in Int /\ 1 \in 0 .. Len(s)
  BY <1>2, TopExact, LastIs
<1>4. <<ip + Top(s) + 1, Less(s, 1)>> \in Leads(compiler, c, ip)
  <2>1. ip + Top(s) + 1 = ip + 1 + Top(s)
    BY <1>1, <1>3
  <2> QED BY <1>1, <2>1 DEF Leads, Here, Word
<1>5. ip + Top(s) \in Int
  BY <1>1, <1>3
<1> HIDE DEF s
<1> QED BY <1>1, <1>3, <1>4, <1>5, DoesDrop DEF s

LEMMA JumpIfZeroContinues ==
  ASSUME NEW c, NEW fs, IsRun(c, fs), JumpIfZero
  PROVE  Continues(c)
<1> DEFINE s == Here(c)  test == FromTop(2)
           to == IF test.v = 0 THEN ip + Top(s) ELSE ip
<1>1. /\ Word(ip).op = "JUMP_IF_ZERO" /\ ip \in Int
      /\ Does(IsInt(test) /\ IsInt(FromTop(1)), Popped(2),
              IF test.v = 0 THEN ip + FromTop(1).v ELSE ip)
  BY LastIs DEF JumpIfZero, Executes
<1>2. HasTop(s) /\ Len(s) >= 2 /\ IsInteger(Off(s, 2))
  BY <1>1, WordIs DEF Legal, Word, Here
<1>3. /\ IsInt(FromTop(1)) /\ FromTop(1).v = Top(s) /\ Top(s) \in Int
      /\ 2 \in 0 .. Len(s) /\ 2 \in 1 .. Len(s)
  BY <1>2, TopExact, LastIs
<1>4. IsInt(test)
  BY <1>2, <1>3, IntegerIs
<1>5. Leads(compiler, c, ip) = {<<ip + 1, Less(s, 2)>>, <<ip + 1 + Top(s), Less(s, 2)>>}
  BY <1>1 DEF Leads, Here, Word
<1>6. to \in Int /\ (to + 1 = ip + 1 \/ to + 1 = ip + 1 + Top(s))
  BY <1>1, <1>3
<1>7. <<to + 1, Less(s, 2)>> \in Leads(compiler, c, ip)
  BY <1>5, <1>6
<1>8. Does(IsInt(test) /\ IsInt(FromTop(1)), Popped(2), to)
  BY <1>1, <1>3
<1> HIDE DEF to, s
<1> QED BY <1>1, <1>3, <1>4, <1>6, <1>7, <1>8, DoesDrop DEF s

(* What is called is there, with as many arguments as it wants.            *)
LEMMA CalleeIs ==
  ASSUME NEW c, NEW fs, IsRun(c, fs), Word(ip).op \in {"CALL", "COROUTINE_CREATE"},
         NEW s, s = Here(c)
  PROVE  /\ IsInt(FromTop(1)) /\ FromTop(1).v = Top(s)
         /\ Top(s) \in 0 .. Len(s) - 2 /\ Len(s) \in Nat
         /\ FromTop(Top(s) + 2).v = Callee(s)
         /\ Callable(FromTop(Top(s) + 2), Top(s))
         /\ Callee(s) \in 0 .. Len(compiler.functions) - 1
<1>1. compiler.code[ip + 1].op \in {"CALL", "COROUTINE_CREATE"} /\ s = c.points[ip].shape
  BY DEF Word, Here
<1>2. /\ HasTop(s) /\ MayCall(compiler, s) /\ Len(s) \in Nat
      /\ Top(s) \in 0 .. Len(s) - 2
      /\ Callee(s) \in 0 .. Len(compiler.functions) - 1
      /\ Len(compiler.functions) \in Nat
  BY <1>1, LastIs, CallIs
<1>3. IsInt(FromTop(1)) /\ FromTop(1).v = Top(s)
  BY <1>2, TopExact
<1>4. Top(s) + 2 \in 1 .. Len(s)
  BY <1>2
<1>5. Holds(FromTop(Top(s) + 2), Off(s, Top(s) + 2), Reads(fs))
  BY <1>4, FromTopIs
<1>6. FromTop(Top(s) + 2) = Off(s, Top(s) + 2) /\ Off(s, Top(s) + 2).t = "function"
  BY <1>2, <1>5 DEF Holds, MayCall
<1>7. Callable(FromTop(Top(s) + 2), Top(s))
  BY <1>2, <1>6 DEF Callable, MayCall, Callee
<1> QED BY <1>2, <1>3, <1>6, <1>7 DEF Callee

LEMMA CoroutineCreateContinues ==
  ASSUME NEW c, NEW fs, IsRun(c, fs), CoroutineCreate
  PROVE  Continues(c)
<1> DEFINE s == Here(c)  n == FromTop(1).v
<1>1. /\ Word(ip).op = "COROUTINE_CREATE" /\ ip \in Int
      /\ Does(IsInt(FromTop(1)) /\ Callable(FromTop(n + 2), n),
              Append(Popped(n + 2), Coroutine), ip)
  BY LastIs DEF CoroutineCreate, Executes
<1>2. /\ IsInt(FromTop(1)) /\ n = Top(s) /\ Callable(FromTop(n + 2), n)
      /\ Top(s) \in 0 .. Len(s) - 2 /\ Len(s) \in Nat
  BY <1>1, CalleeIs
<1>3. n + 2 \in 0 .. Len(s) /\ n + 2 = 2 + Top(s)
  BY <1>2
<1>4. Coroutine \in Value /\ Object \in Kinds /\ Holds(Coroutine, Object, Reads(fs))
  BY KindsAre DEF Coroutine, Value, Holds, Object
<1>5. <<ip + 1, Append(Less(s, n + 2), Object)>> \in Leads(compiler, c, ip)
  BY <1>1, <1>3 DEF Leads, Here, Word
<1> HIDE DEF n
<1> QED BY <1>1, <1>2, <1>3, <1>4, <1>5, DoesReplace

LEMMA CoroutineIsFinishedContinues ==
  ASSUME NEW c, NEW fs, IsRun(c, fs), CoroutineIsFinished
  PROVE  Continues(c)
<1> DEFINE s == Here(c)
<1>1. /\ Word(ip).op = "COROUTINE_ISFINISHED" /\ ip \in Int
      /\ Does(FromTop(1) = Coroutine, Append(Popped(1), Raw(0)), ip)
  BY LastIs DEF CoroutineIsFinished, Executes
<1>2. s # <<>> /\ Off(s, 1) = Object
  BY <1>1, WordIs DEF Legal, Word, Here
<1>3. 1 \in 0 .. Len(s) /\ 1 \in 1 .. Len(s)
  BY <1>2, LastIs
<1>4. FromTop(1) = Coroutine
  <2>1. Holds(FromTop(1), Object, Reads(fs))
    BY <1>2, <1>3, FromTopIs
  <2> QED BY <2>1 DEF Holds, Object, Coroutine
<1>5. Raw(0) \in Value /\ Exact(0) \in Kinds /\ Holds(Raw(0), Exact(0), Reads(fs))
  BY RawIs, KindsAre DEF Holds, Exact
<1>6. <<ip + 1, Append(Less(s, 1), Exact(0))>> \in Leads(compiler, c, ip)
  BY <1>1 DEF Leads, Here, Word
<1> QED BY <1>1, <1>3, <1>4, <1>5, <1>6, DoesReplace

(* Of a stack that is k high: base, and l of the function, of which below  *)
(* stay where top are given to another.                                    *)
CallSum(base, l, k, top, below) ==
  /\ base + below \in Nat /\ top + 2 \in Nat
  /\ k + 1 = base + below + (top + 3)
  /\ \A j \in 1 .. top + 2 :
       /\ below + j \in 1 .. l
       /\ base + below + j \in 1 .. k
       /\ base + below + j = base + (below + j)
       /\ l - top - 2 + j = below + j
  /\ \A j \in 1 .. top + 3 : j = top + 3 \/ j \in 1 .. top + 2
  /\ \A j \in 1 .. below : j \in 1 .. l /\ base + j \in 1 .. k
  /\ top + 2 + 1 = top + 3

LEMMA CallSums ==
  ASSUME NEW base \in Nat, NEW l \in Nat, NEW k, k = base + l,
         NEW top \in 0 .. l - 2, NEW below \in 0 .. l - 2, l = below + (top + 2)
  PROVE  CallSum(base, l, k, top, below)
BY DEF CallSum

(* A call puts a frame on the others.  What it takes is given to the       *)
(* function, and the rest waits for it to return.                          *)
LEMMA CallContinues ==
  ASSUME NEW c, NEW fs, IsRun(c, fs), Call
  PROVE  Continues(c)
<1> DEFINE s == Here(c)  top == Len(fs)  base == Last(fs).base
           entry == compiler.functions[Callee(s) + 1].firstInstructionIndex
           frame == [at |-> entry, base |-> base + Below(s)]
           gs == Append(fs, frame)  values == Append(stack, Raw(ip))
           given == Append(Given(s), Back)
<1>1. Word(ip).op = "CALL" /\ compiler.code[ip + 1].op = "CALL"
  BY DEF Call, Executes, Word
<1>2. /\ IsInt(FromTop(1)) /\ FromTop(1).v = Top(s) /\ Top(s) \in Int
      /\ Callable(FromTop(Top(s) + 2), Top(s)) /\ FromTop(Top(s) + 2).v = Callee(s)
  BY <1>1, CalleeIs
<1>3. stack' = values /\ ip' = entry - 1 + 1 /\ UNCHANGED <<compiler, statics, status>>
  BY <1>2 DEF Call, Goes
<1>4. /\ top \in Nat \ {0} /\ fs \in Seq(Frame) /\ fs[top] = Last(fs)
      /\ ip \in DOMAIN c.points /\ ip \in Nat /\ Last(fs).at = ip /\ base \in Nat
      /\ s \in Seq(Kinds) /\ Len(s) \in Nat
      /\ stack \in Seq(Value) /\ Len(stack) \in Nat /\ Len(stack) = base + Len(s)
      /\ \A j \in 1 .. Len(s) : Holds(stack[base + j], s[j], Reads(fs))
      /\ Waiting(c, compiler, fs, stack, statics) /\ Certifies(c, compiler)
  BY LastIs DEF Last
<1>5. /\ Top(s) \in 0 .. Len(s) - 2 /\ Below(s) \in 0 .. Len(s) - 2
      /\ Len(s) = Below(s) + (Top(s) + 2)
      /\ Callee(s) \in 0 .. Len(compiler.functions) - 1
      /\ base \in Nat /\ Len(s) \in Nat /\ Len(stack) = base + Len(s)
  <2>1. /\ Top(s) \in 0 .. Len(s) - 2 /\ Below(s) \in 0 .. Len(s) - 2
        /\ Callee(s) \in 0 .. Len(compiler.functions) - 1
    BY <1>1, <1>4, CallIs DEF Here
  <2>2. Len(s) = Below(s) + (Top(s) + 2)
    <3>1. \A l, n \in Int : l = l - 2 - n + (n + 2)
      OBVIOUS
    <3>2. Len(s) \in Int /\ Top(s) \in Int
      BY <1>4, <2>1
    <3> QED BY <3>1, <3>2 DEF Below
  <2> QED BY <1>4, <2>1, <2>2
<1>a. entry = compiler.functions[Callee(s) + 1].firstInstructionIndex
  OBVIOUS
<1>b. s = c.points[ip].shape
  BY DEF Here
<1>d. /\ top \in 1 .. top /\ fs[top].base = base /\ fs[top].at = ip
      /\ BackOf(fs, top) = Reads(fs)
  BY <1>4 DEF Reads
<1> HIDE DEF s, base, entry
<1>c. /\ base + Below(s) \in Nat /\ Top(s) + 2 \in Nat
      /\ Len(stack) + 1 = base + Below(s) + (Top(s) + 3)
      /\ \A j \in 1 .. Top(s) + 2 :
           /\ Below(s) + j \in 1 .. Len(s)
           /\ base + Below(s) + j \in 1 .. Len(stack)
           /\ base + Below(s) + j = base + (Below(s) + j)
           /\ Len(s) - Top(s) - 2 + j = Below(s) + j
      /\ \A j \in 1 .. Top(s) + 3 : j = Top(s) + 3 \/ j \in 1 .. Top(s) + 2
      /\ \A j \in 1 .. Below(s) : j \in 1 .. Len(s) /\ base + j \in 1 .. Len(stack)
      /\ Top(s) + 2 + 1 = Top(s) + 3
  <2>1. CallSum(base, Len(s), Len(stack), Top(s), Below(s))
    BY <1>5, CallSums
  <2> QED BY <2>1 DEF CallSum
<1>6. /\ entry \in DOMAIN c.points /\ entry \in Nat
      /\ c.points[entry].home = Callee(s)
      /\ c.points[entry].known \subseteq c.points[ip].known
      /\ Len(c.points[entry].shape) = Len(given)
      /\ \A i \in 1 .. Len(given) : Fits(given[i], c.points[entry].shape[i])
  <2>2. /\ entry \in DOMAIN c.points
        /\ c.points[entry].home = Callee(s)
        /\ c.points[entry].known \subseteq c.points[ip].known
        /\ Len(c.points[entry].shape) = Len(given)
        /\ \A i \in 1 .. Len(given) : Fits(given[i], c.points[entry].shape[i])
    <3>1. Certifies(c, compiler) /\ ip \in DOMAIN c.points
      BY <1>4
    <3>2. EntryIs(c, compiler, ip, s, entry)
      BY <3>1, <1>1, <1>a, <1>b, CallLeadsTo
    <3> QED BY <3>2 DEF EntryIs
  <2> QED BY <1>4, <2>2, PointIs
<1>7. /\ Len(given) = Top(s) + 3
      /\ \A j \in 1 .. Top(s) + 2 : given[j] = Copy(s[Below(s) + j])
      /\ given[Top(s) + 3] = Back
  <2>1. \A j \in 1 .. Top(s) + 2 :
           /\ Len(s) - Top(s) - 2 + j = Below(s) + j
           /\ Below(s) + j \in 1 .. Len(s)
    BY <1>c
  <2>2. \A j \in 1 .. Top(s) + 2 : Given(s)[j] = Copy(s[Below(s) + j])
    BY <2>1 DEF Given
  <2>3. \A j \in 1 .. Top(s) + 2 : Copy(s[Below(s) + j]) \in Kinds
    <3> SUFFICES ASSUME NEW j \in 1 .. Top(s) + 2 PROVE Copy(s[Below(s) + j]) \in Kinds
      OBVIOUS
    <3>1. s[Below(s) + j] \in Kinds
      BY <2>1, <1>4, ElementIs
    <3> QED BY <3>1, KindsAre DEF Copy
  <2>4. Given(s) \in Seq(Kinds) /\ Len(Given(s)) = Top(s) + 2
    <3>1. Top(s) + 2 \in Nat
      BY <1>c
    <3>2. \A j \in 1 .. Top(s) + 2 : Given(s)[j] \in Kinds
      BY <2>2, <2>3
    <3>3. Given(s) = [j \in 1 .. Top(s) + 2 |-> Given(s)[j]]
      BY DEF Given
    <3> QED BY <3>1, <3>2, <3>3
  <2>5. /\ Len(given) = Top(s) + 2 + 1
        /\ \A j \in 1 .. Top(s) + 2 : given[j] = Given(s)[j]
        /\ given[Top(s) + 2 + 1] = Back
    BY <2>4, KindsAre, AppendIs
  <2>6. Top(s) + 2 + 1 = Top(s) + 3
    BY <1>c
  <2> QED BY <2>2, <2>5, <2>6
<1>8. /\ gs \in Seq(Frame) /\ Len(gs) = top + 1 /\ gs[top + 1] = frame
      /\ \A i \in 1 .. top : gs[i] = fs[i]
  <2>1. frame \in Frame
    <3>1. base + Below(s) \in Nat
      BY <1>c
    <3> QED BY <3>1, <1>6 DEF Frame
  <2> QED BY <2>1, <1>4, AppendIs
<1>9. /\ values \in Seq(Value) /\ Len(values) = Len(stack) + 1
      /\ \A i \in 1 .. Len(stack) : values[i] = stack[i]
      /\ values[Len(stack) + 1] = Raw(ip)
  <2>1. Raw(ip) \in Value
    BY <1>4, RawIs
  <2> QED BY <2>1, <1>4, AppendIs
<1> HIDE DEF gs, values, given
<1>10. \A i \in 1 .. top : /\ Shape(c, gs, i) = Shape(c, fs, i) /\ Rim(c, gs, i) = Rim(c, fs, i)
                          /\ Home(c, gs, i) = Home(c, fs, i) /\ BackOf(gs, i) = BackOf(fs, i)
  <2> SUFFICES ASSUME NEW i \in 1 .. top
               PROVE  /\ Shape(c, gs, i) = Shape(c, fs, i) /\ Rim(c, gs, i) = Rim(c, fs, i)
                      /\ Home(c, gs, i) = Home(c, fs, i) /\ BackOf(gs, i) = BackOf(fs, i)
    OBVIOUS
  <2>1. gs[i] = fs[i]
    BY <1>8
  <2>2. i # 1 => i - 1 \in 1 .. top
    BY <1>4
  <2>3. i # 1 => gs[i - 1] = fs[i - 1]
    BY <2>2, <1>8
  <2> QED BY <2>1, <2>3 DEF Shape, Rim, Home, BackOf
<1>11. /\ Shape(c, gs, top) = s /\ Rim(c, gs, top) = base + Below(s)
       /\ Home(c, gs, top + 1) = Callee(s) /\ BackOf(gs, top + 1) = ip
  <2>1. gs[top].at = ip /\ gs[top].base = base
    BY <1>d, <1>8
  <2>2. top + 1 # 1 /\ top + 1 - 1 = top
    BY <1>4
  <2>3. Shape(c, gs, top) = s
    BY <2>1, <1>b DEF Shape
  <2>4. Rim(c, gs, top) = base + Below(s)
    BY <2>1, <2>3 DEF Rim
  <2>5. Home(c, gs, top + 1) = Callee(s)
    BY <1>6, <1>8 DEF Home
  <2> QED BY <2>1, <2>2, <2>3, <2>4, <2>5 DEF BackOf
<1>12. Chain(c, compiler, gs)
  <2>1. gs # <<>> /\ gs[1].base = 0 /\ Home(c, gs, 1) = Nowhere
    <3>1. 1 \in 1 .. top
      BY <1>4
    <3>2. fs[1].base = 0 /\ Home(c, fs, 1) = Nowhere
      BY <1>4 DEF Waiting, Chain
    <3>3. gs # <<>>
      BY <1>4, <1>8
    <3> QED BY <3>1, <3>2, <3>3, <1>8, <1>10
  <2>2. \A i \in 1 .. top + 1 : i \in 1 .. top \/ i = top + 1
    BY <1>4
  <2>3. \A i \in 1 .. top + 1 : gs[i].at \in DOMAIN c.points
    <3>1. \A i \in 1 .. top : fs[i].at \in DOMAIN c.points
      BY <1>4 DEF Waiting, Chain
    <3> QED BY <2>2, <3>1, <1>6, <1>8
  <2>4. \A i \in 1 .. top : Linked(c, compiler, gs, i)
    <3> SUFFICES ASSUME NEW i \in 1 .. top PROVE Linked(c, compiler, gs, i)
      OBVIOUS
    <3>1. CASE i = top
      <4>1. gs[top].at = ip
        BY <1>d, <1>8
      <4> QED BY <3>1, <4>1, <1>1, <1>8, <1>11 DEF Linked
    <3>2. CASE i # top
      <4>1. i \in 1 .. top - 1 /\ i + 1 \in 1 .. top
        BY <3>2, <1>4
      <4>2. Linked(c, compiler, fs, i)
        BY <4>1, <1>4 DEF Waiting, Chain
      <4>3. gs[i] = fs[i] /\ gs[i + 1] = fs[i + 1]
        BY <4>1, <1>8
      <4> QED BY <4>1, <4>2, <4>3, <1>10 DEF Linked
    <3> QED BY <3>1, <3>2
  <2>5. \A i, k \in 1 .. top + 1 : i < k => Rim(c, gs, i) <= gs[k].base
    <3> SUFFICES ASSUME NEW i \in 1 .. top + 1, NEW k \in 1 .. top + 1, i < k
                 PROVE  Rim(c, gs, i) <= gs[k].base
      OBVIOUS
    <3>1. i \in 1 .. top
      BY <1>4
    <3>2. \A m \in 1 .. top : i < m => Rim(c, fs, i) <= fs[m].base
      BY <3>1, <1>4 DEF Waiting, Chain
    <3>3. CASE k # top + 1
      <4>1. k \in 1 .. top
        BY <3>3, <1>4
      <4> QED BY <3>1, <3>2, <4>1, <1>8, <1>10
    <3>4. CASE k = top + 1 /\ i = top
      <4>1. Rim(c, gs, i) = base + Below(s) /\ gs[k].base = base + Below(s)
        BY <3>4, <1>8, <1>11
      <4>2. base + Below(s) \in Nat
        BY <1>c
      <4> QED BY <4>1, <4>2
    <3>5. CASE k = top + 1 /\ i # top
      <4>1. top \in 1 .. top /\ i < top
        BY <3>1, <3>5, <1>4
      <4>2. Rim(c, fs, i) <= base
        BY <4>1, <3>2, <1>d
      <4>3. gs[k].base = base + Below(s) /\ Rim(c, gs, i) = Rim(c, fs, i)
        BY <3>1, <3>5, <1>8, <1>10
      <4>4. Rim(c, fs, i) \in Int
        <5>1. i \in 1 .. top - 1
          BY <4>1, <1>4
        <5>2. Linked(c, compiler, fs, i)
          BY <5>1, <1>4 DEF Waiting, Chain
        <5>3. fs[i].at \in DOMAIN c.points /\ fs[i] \in Frame
          BY <3>1, <1>4 DEF Waiting, Chain
        <5>4. Below(Shape(c, fs, i)) \in Int
          <6>1. /\ compiler.code[fs[i].at + 1].op = "CALL" /\ fs[i].at \in DOMAIN c.points
                /\ Certifies(c, compiler)
            BY <5>2, <5>3, <1>4 DEF Linked
          <6>2. Below(c.points[fs[i].at].shape) \in Int
            BY <6>1, CallIs
          <6> QED BY <6>2 DEF Shape
        <5> QED BY <5>3, <5>4 DEF Rim, Frame
      <4> QED BY <4>2, <4>3, <4>4, <1>5
    <3> QED BY <3>3, <3>4, <3>5
  <2>6. Len(gs) - 1 = top
    BY <1>4, <1>8
  <2> QED BY <2>1, <2>3, <2>4, <2>5, <2>6, <1>8 DEF Chain
<1>13. \A i \in 1 .. top : Filled(c, gs, i, Below(Shape(c, gs, i)), values)
  <2> SUFFICES ASSUME NEW i \in 1 .. top, NEW j \in 1 .. Below(Shape(c, fs, i))
               PROVE  Holds(values[fs[i].base + j], Shape(c, fs, i)[j], BackOf(fs, i))
    BY <1>8, <1>10 DEF Filled
  <2>1. CASE i = top
    <3>1. Shape(c, fs, i) = s /\ fs[i].base = base /\ BackOf(fs, i) = Reads(fs)
      BY <2>1, <1>10, <1>11, <1>d
    <3>2. j \in 1 .. Len(s) /\ base + j \in 1 .. Len(stack)
      BY <3>1, <1>c
    <3> QED BY <3>1, <3>2, <1>4, <1>9
  <2>2. CASE i # top
    <3>1. i \in 1 .. top - 1 /\ top \in 1 .. top /\ i < top
      BY <2>2, <1>4
    <3>2. Holds(stack[fs[i].base + j], Shape(c, fs, i)[j], BackOf(fs, i))
      BY <3>1, <1>4 DEF Waiting, Filled
    <3>3. fs[i].base + Below(Shape(c, fs, i)) <= base
      <4>1. Rim(c, fs, i) <= fs[top].base
        BY <3>1, <1>4 DEF Waiting, Chain
      <4> QED BY <4>1, <1>d DEF Rim
    <3>4. fs[i].base \in Nat /\ Below(Shape(c, fs, i)) \in Int
      <4>1. fs[i] \in Frame /\ fs[i].at \in DOMAIN c.points
        BY <1>4 DEF Waiting, Chain
      <4>2. compiler.code[fs[i].at + 1].op = "CALL" /\ Certifies(c, compiler)
        BY <3>1, <1>4 DEF Waiting, Chain, Linked
      <4>3. Below(c.points[fs[i].at].shape) \in Int
        BY <4>1, <4>2, CallIs
      <4> QED BY <4>1, <4>3 DEF Frame, Shape
    <3>5. fs[i].base + j \in 1 .. base
      BY <3>3, <3>4, <1>4, Within
    <3>6. fs[i].base + j \in 1 .. Len(stack)
      BY <3>5, <1>4
    <3> QED BY <3>2, <3>6, <1>9
  <2> QED BY <2>1, <2>2
<1>14. \A i \in 1 .. top + 1 : \A k \in c.points[gs[i].at].known : IsGiven(c, k, statics)
  <2>1. \A i \in 1 .. top : \A k \in c.points[fs[i].at].known : IsGiven(c, k, statics)
    BY <1>4 DEF Waiting
  <2>2. \A k \in c.points[entry].known : IsGiven(c, k, statics)
    <3>1. top \in 1 .. top
      BY <1>4
    <3> QED BY <2>1, <3>1, <1>4, <1>6
  <2> SUFFICES ASSUME NEW i \in 1 .. top + 1
               PROVE  \A k \in c.points[gs[i].at].known : IsGiven(c, k, statics)
    OBVIOUS
  <2>3. CASE i = top + 1
    BY <2>2, <2>3, <1>8
  <2>4. CASE i # top + 1
    <3>1. i \in 1 .. top
      BY <2>4, <1>4
    <3> QED BY <2>1, <3>1, <1>8
  <2> QED BY <2>3, <2>4
<1>15. Waiting(c, compiler, gs, values, statics)
  <2>1. Len(gs) - 1 = top
    BY <1>4, <1>8
  <2>2. statics \in [1 .. compiler.staticVariableCount -> Value]
    BY <1>4 DEF Waiting
  <2> QED BY <2>1, <2>2, <1>8, <1>9, <1>12, <1>13, <1>14 DEF Waiting
<1>16. Shape(c, gs, top + 1) = c.points[entry].shape /\ gs[top + 1].base = base + Below(s)
  BY <1>8 DEF Shape
<1>17. Len(values) = gs[top + 1].base + Len(given)
  <2>1. Len(values) = base + Len(s) + 1 /\ Len(given) = Top(s) + 3
    BY <1>5, <1>7, <1>9
  <2> QED BY <2>1, <1>c, <1>5, <1>16
<1>18. Filled(c, gs, top + 1, Len(given), values)
  <2> SUFFICES ASSUME NEW j \in 1 .. Len(given)
               PROVE  Holds(values[base + Below(s) + j], c.points[entry].shape[j], ip)
    BY <1>11, <1>16 DEF Filled
  <2>1. Holds(values[base + Below(s) + j], given[j], ip)
    <3>1. CASE j = Top(s) + 3
      <4>1. base + Below(s) + j = Len(stack) + 1
        BY <3>1, <1>c
      <4> QED BY <3>1, <4>1, <1>7, <1>9 DEF Holds, Back
    <3>2. CASE j # Top(s) + 3
      <4>1. j \in 1 .. Top(s) + 2 /\ Below(s) + j \in 1 .. Len(s)
        <5>1. j \in 1 .. Top(s) + 3
          BY <1>7
        <5> QED BY <5>1, <3>2, <1>c
      <4>2. base + Below(s) + j \in 1 .. Len(stack)
            /\ base + Below(s) + j = base + (Below(s) + j)
        BY <4>1, <1>c
      <4>3. Holds(stack[base + (Below(s) + j)], s[Below(s) + j], Reads(fs))
        BY <4>1, <1>4
      <4>4. stack[base + (Below(s) + j)] \in Value /\ s[Below(s) + j] \in Kinds
        BY <4>1, <4>2, <1>4, ElementIs
      <4>5. Holds(stack[base + (Below(s) + j)], Copy(s[Below(s) + j]), ip)
        BY <4>3, <4>4, HoldsCopy
      <4> QED BY <4>1, <4>2, <4>5, <1>7, <1>9
    <3> QED BY <3>1, <3>2
  <2> QED BY <2>1, <1>6, HoldsFits
<1>19. Framed(c, compiler, gs, entry, values, statics)
  BY <1>6, <1>8, <1>15, <1>16, <1>17, <1>18 DEF Framed
<1>20. entry - 1 + 1 = entry
  BY <1>6
<1> QED BY <1>3, <1>19, <1>20 DEF Continues

(* Without the last frame, the others wait as before.                      *)
Callers(fs) == SubSeq(fs, 1, Len(fs) - 1)

LEMMA PredecessorIs ==
  \A n \in Nat \ {0, 1} : /\ 1 \in 0 .. n /\ n - 1 \in Nat \ {0} /\ n - 1 + 1 = n
                          /\ n - 1 \in 1 .. n - 1 /\ n - 1 \in 1 .. n
OBVIOUS

LEMMA Unframed ==
  ASSUME NEW c, NEW image, NEW fs, NEW values, NEW globals,
         Waiting(c, image, fs, values, globals), Len(fs) # 1
  PROVE  /\ Waiting(c, image, Callers(fs), values, globals)
         /\ Len(fs) - 1 \in Nat \ {0} /\ Len(Callers(fs)) = Len(fs) - 1
         /\ \A i \in 1 .. Len(fs) - 1 :
              Callers(fs)[i] = fs[i] /\ BackOf(Callers(fs), i) = BackOf(fs, i)
<1> DEFINE n == Len(fs) - 1  gs == Callers(fs)
<1>1. /\ fs \in Seq(Frame) /\ Len(fs) \in Nat \ {0, 1} /\ 1 \in 0 .. Len(fs)
      /\ n \in Nat \ {0} /\ Len(fs) = n + 1
  <2>1. fs \in Seq(Frame) /\ Len(fs) \in Nat \ {0, 1}
    BY DEF Waiting, Chain
  <2> QED BY <2>1, PredecessorIs
<1>2. /\ gs \in Seq(Frame) /\ Len(gs) = n /\ gs # <<>>
      /\ \A i \in 1 .. n : gs[i] = fs[i]
  <2>1. /\ gs \in Seq(Frame) /\ Len(gs) = n
        /\ \A i \in 1 .. n : gs[i] = fs[i]
    BY <1>1, CutIs DEF Callers
  <2>2. gs # <<>>
    BY <2>1, <1>1
  <2> QED BY <2>1, <2>2
<1>3. \A i \in 1 .. n : i \in 1 .. Len(fs) /\ i \in 1 .. Len(fs) - 1
  BY <1>1
<1>4. \A i \in 1 .. n : /\ Shape(c, gs, i) = Shape(c, fs, i) /\ Rim(c, gs, i) = Rim(c, fs, i)
                        /\ Home(c, gs, i) = Home(c, fs, i) /\ BackOf(gs, i) = BackOf(fs, i)
  <2> SUFFICES ASSUME NEW i \in 1 .. n
               PROVE  /\ Shape(c, gs, i) = Shape(c, fs, i) /\ Rim(c, gs, i) = Rim(c, fs, i)
                      /\ Home(c, gs, i) = Home(c, fs, i) /\ BackOf(gs, i) = BackOf(fs, i)
    OBVIOUS
  <2>1. i # 1 => i - 1 \in 1 .. n
    BY <1>1
  <2>2. gs[i] = fs[i] /\ (i # 1 => gs[i - 1] = fs[i - 1])
    BY <2>1, <1>2
  <2> QED BY <2>2 DEF Shape, Rim, Home, BackOf
<1> HIDE DEF n, gs
<1>5. Chain(c, image, gs)
  <2>1. 1 \in 1 .. n
    BY <1>1
  <2>2. gs[1].base = 0 /\ Home(c, gs, 1) = Nowhere
    BY <2>1, <1>2, <1>4 DEF Waiting, Chain
  <2>3. \A i \in 1 .. n : gs[i].at \in DOMAIN c.points
    BY <1>2, <1>3 DEF Waiting, Chain
  <2>4. \A i \in 1 .. n - 1 : Linked(c, image, gs, i)
    <3> SUFFICES ASSUME NEW i \in 1 .. n - 1 PROVE Linked(c, image, gs, i)
      OBVIOUS
    <3>1. i \in 1 .. n /\ i + 1 \in 1 .. n
      BY <1>1
    <3>2. Linked(c, image, fs, i)
      BY <3>1, <1>3 DEF Waiting, Chain
    <3> QED BY <3>1, <3>2, <1>2, <1>4 DEF Linked
  <2>5. \A i, k \in 1 .. n : i < k => Rim(c, gs, i) <= gs[k].base
    BY <1>2, <1>3, <1>4 DEF Waiting, Chain
  <2> QED BY <1>2, <2>2, <2>3, <2>4, <2>5 DEF Chain
<1>6. \A i \in 1 .. n - 1 : Filled(c, gs, i, Below(Shape(c, gs, i)), values)
  <2> SUFFICES ASSUME NEW i \in 1 .. n - 1
               PROVE  Filled(c, gs, i, Below(Shape(c, gs, i)), values)
    OBVIOUS
  <2>1. i \in 1 .. n
    BY <1>1
  <2>2. Filled(c, fs, i, Below(Shape(c, fs, i)), values)
    BY <2>1, <1>3 DEF Waiting
  <2> QED BY <2>1, <2>2, <1>2, <1>4 DEF Filled
<1>7. \A i \in 1 .. n : \A k \in c.points[gs[i].at].known : IsGiven(c, k, globals)
  BY <1>2, <1>3 DEF Waiting
<1>8. Waiting(c, image, gs, values, globals)
  BY <1>2, <1>5, <1>6, <1>7 DEF Waiting
<1> QED BY <1>1, <1>2, <1>4, <1>8 DEF n, gs

(* The function that runs was called exactly if it is one.                 *)
LEMMA CallerIs ==
  ASSUME NEW c, NEW fs, IsRun(c, fs)
  PROVE  Len(fs) = 1 <=> c.points[ip].home = Nowhere
<1> DEFINE top == Len(fs)
<1>1. /\ top \in Nat \ {0} /\ fs[top].at = ip
      /\ Waiting(c, compiler, fs, stack, statics) /\ Certifies(c, compiler)
  BY LastIs DEF Last
<1>2. Home(c, fs, top) = c.points[ip].home
  BY <1>1 DEF Home
<1>3. CASE top = 1
  BY <1>1, <1>2, <1>3 DEF Waiting, Chain
<1>4. CASE top # 1
  <2>1. top - 1 \in 1 .. top - 1 /\ top - 1 \in 1 .. top /\ top - 1 + 1 = top
    BY <1>1, <1>4, PredecessorIs
  <2>2. Linked(c, compiler, fs, top - 1) /\ fs[top - 1].at \in DOMAIN c.points
    BY <2>1, <1>1 DEF Waiting, Chain
  <2>3. /\ Home(c, fs, top) = Callee(Shape(c, fs, top - 1))
        /\ compiler.code[fs[top - 1].at + 1].op = "CALL"
    BY <2>1, <2>2 DEF Linked
  <2>4. Callee(Shape(c, fs, top - 1)) \in 0 .. Len(compiler.functions) - 1
    BY <2>2, <2>3, <1>1, CallIs DEF Shape
  <2> QED BY <2>3, <2>4, <1>2, <1>4 DEF Nowhere
<1> QED BY <1>3, <1>4

(* From is an address with below values that wait, of base below them.     *)
ReturnSum(from, below, base) ==
  /\ base \in Nat /\ below + 1 \in Nat
  /\ from + (below + 1) = base + 1
  /\ \A j \in 1 .. from : j \in 1 .. base
  /\ \A j \in 1 .. below : from + j \in 1 .. base
  /\ \A j \in 1 .. below + 1 : j = below + 1 \/ j \in 1 .. below

LEMMA ReturnSums ==
  /\ \A from, below \in Nat : ReturnSum(from, below, from + below)
  /\ \A l \in Nat : \A n \in 0 .. l - 2 :
       2 + n \in 0 .. l /\ l - (2 + n) = l - 2 - n /\ l - 2 - n \in Nat
  /\ \A l \in Nat : \A n \in 0 .. l - 5 : 5 + n + (l - 5 - n) = l
  /\ \A l, m \in Nat : l <= m + l
  /\ \A n \in Nat \ {0} : n \in 1 .. n
BY DEF ReturnSum

(* The last frame waits for what it has called, and gets a value.          *)
HandsOver(c, image, gs, old, v, values) ==
  LET from  == gs[Len(gs)]
      t     == c.points[from.at].shape
      below == Below(t)
      base  == from.base + below
  IN  /\ image.code[from.at + 1].op = "CALL"
      /\ Filled(c, gs, Len(gs), below, old)
      /\ Holds(v, c.result[Callee(t)], BackOf(gs, Len(gs)))
      /\ values \in Seq(Value) /\ Len(values) = base + 1 /\ values[base + 1] = v
      /\ \A j \in 1 .. base : values[j] = old[j]

LEMMA Returned ==
  ASSUME NEW c, NEW image, Certifies(c, image),
         NEW gs, NEW old, NEW globals, Waiting(c, image, gs, old, globals),
         NEW v, NEW values, HandsOver(c, image, gs, old, v, values)
  PROVE  \E hs : Framed(c, image, hs, gs[Len(gs)].at + 1, values, globals)
<1> DEFINE from == gs[Len(gs)]  t == c.points[from.at].shape  below == Below(t)
           base == from.base + below  kind == c.result[Callee(t)]
           shape == Append(Less(t, 2 + Top(t)), kind)
<1>1. /\ Len(gs) \in Nat \ {0} /\ from.base \in Nat /\ from.at \in DOMAIN c.points
      /\ \A i \in 1 .. Len(gs) : \A k \in c.points[gs[i].at].known : IsGiven(c, k, globals)
      /\ globals \in [1 .. image.staticVariableCount -> Value]
  <2>1. /\ gs \in Seq(Frame) /\ Len(gs) \in Nat \ {0}
        /\ \A i \in 1 .. Len(gs) : gs[i].at \in DOMAIN c.points
    BY DEF Waiting, Chain
  <2>2. Len(gs) \in 1 .. Len(gs)
    BY <2>1, ReturnSums
  <2>3. from \in Frame
    BY <2>1, <2>2, ElementIs
  <2> QED BY <2>1, <2>2, <2>3 DEF Waiting, Frame
<1>2. /\ image.code[from.at + 1].op = "CALL"
      /\ Filled(c, gs, Len(gs), below, old)
      /\ Holds(v, kind, BackOf(gs, Len(gs)))
      /\ values \in Seq(Value) /\ Len(values) = base + 1 /\ values[base + 1] = v
      /\ \A j \in 1 .. base : values[j] = old[j]
  BY DEF HandsOver
<1>3. /\ t \in Seq(Kinds) /\ Len(t) \in Nat /\ Top(t) \in 0 .. Len(t) - 2
      /\ Callee(t) \in 0 .. Len(image.functions) - 1
  BY <1>1, <1>2, CallIs
<1>4. 2 + Top(t) \in 0 .. Len(t) /\ Len(t) - (2 + Top(t)) = below /\ below \in Nat
  BY <1>3, ReturnSums DEF Below
<1>5. kind \in Kinds
  <2>1. IsCertificate(c, image)
    BY DEF Certifies
  <2> QED BY <2>1, <1>3 DEF IsCertificate
<1>6. /\ Len(shape) = below + 1
      /\ \A j \in 1 .. below : shape[j] = t[j]
      /\ shape[below + 1] = kind
  <2> HIDE DEF t, below, kind
  <2>1. /\ Less(t, 2 + Top(t)) \in Seq(Kinds) /\ Len(Less(t, 2 + Top(t))) = below
        /\ \A j \in 1 .. below : Less(t, 2 + Top(t))[j] = t[j]
    BY <1>3, <1>4, CutIs DEF Less
  <2> QED BY <2>1, <1>5, AppendIs
<1>7. <<from.at + 1, shape>> \in Leads(image, c, from.at)
  BY <1>2 DEF Leads
<1>8. Shape(c, gs, Len(gs)) = t /\ ReturnSum(from.base, below, base)
  BY <1>1, <1>4, ReturnSums DEF Shape
<1> HIDE DEF shape, below, t, kind, base
<1>9. Len(values) = from.base + Len(shape)
  BY <1>2, <1>6, <1>8 DEF ReturnSum
<1>10. \A j \in 1 .. from.base : values[j] = old[j]
  BY <1>2, <1>8 DEF ReturnSum
<1>11. \A j \in 1 .. Len(shape) :
         Holds(values[from.base + j], shape[j], BackOf(gs, Len(gs)))
  <2> SUFFICES ASSUME NEW j \in 1 .. below + 1
               PROVE  Holds(values[from.base + j], shape[j], BackOf(gs, Len(gs)))
    BY <1>6
  <2>1. CASE j = below + 1
    BY <2>1, <1>2, <1>6, <1>8 DEF ReturnSum
  <2>2. CASE j \in 1 .. below
    <3>1. Holds(old[from.base + j], t[j], BackOf(gs, Len(gs)))
      BY <2>2, <1>2, <1>8 DEF Filled
    <3> QED BY <2>2, <3>1, <1>2, <1>6, <1>8 DEF ReturnSum
  <2> QED BY <2>1, <2>2, <1>8 DEF ReturnSum
<1>12. \A k \in KnownAfter(image, c, from.at) : IsGiven(c, k, globals)
  <2>1. KnownAfter(image, c, from.at) = c.points[from.at].known
    BY <1>2 DEF KnownAfter
  <2>2. Len(gs) \in 1 .. Len(gs)
    BY <1>1, ReturnSums
  <2> QED BY <2>1, <2>2, <1>1
<1> QED BY <1>1, <1>2, <1>7, <1>9, <1>10, <1>11, <1>12, Onward

LEMMA ReturnContinues ==
  ASSUME NEW c, NEW fs, IsRun(c, fs), Return
  PROVE  Continues(c)
<1> DEFINE s == Here(c)  top == Len(fs)  base == Last(fs).base  thrown == Top(s)
           home == c.points[ip].home  v == FromTop(2)  all == Len(s)
           from == fs[top - 1]  gs == Callers(fs)
           t == c.points[from.at].shape
           values == Append(Popped(all), v)
<1>1. Word(ip).op = "RETURN" /\ MayReturn(c, c.points[ip])
  <2>1. Word(ip).op = "RETURN" /\ Legal(compiler, c, ip)
    BY WordIs DEF Return, Executes
  <2> QED BY <2>1 DEF Legal, Word
<1>2. /\ home \in DOMAIN c.result
      /\ HasTop(s) /\ thrown \in 0 .. Len(s) - 5
      /\ Fits(Off(s, 2), c.result[home])
      /\ Off(s, 3 + thrown) = Back
      /\ Off(s, 4 + thrown) = Exact(Len(s) - 5 - thrown)
  BY <1>1 DEF MayReturn, Here
<1>3. /\ top \in Nat \ {0} /\ fs \in Seq(Frame) /\ base \in Nat
      /\ Len(s) \in Nat /\ Len(stack) \in Nat /\ Len(stack) = base + Len(s)
      /\ stack \in Seq(Value)
      /\ Waiting(c, compiler, fs, stack, statics) /\ Certifies(c, compiler)
      /\ Last(fs) = fs[top] /\ fs[top].at = ip
  BY LastIs DEF Last
<1>4. top # 1
  <2>1. home # Nowhere
    <3>1. /\ DOMAIN c.result = 0 .. Len(compiler.functions) - 1
          /\ Len(compiler.functions) \in Nat
      BY <1>3 DEF Certifies, IsCertificate, IsImage
    <3>2. home \in 0 .. Len(compiler.functions) - 1
      BY <3>1, <1>2
    <3> HIDE DEF home
    <3> QED BY <3>1, <3>2 DEF Nowhere
  <2> QED BY <2>1, CallerIs
<1>5. /\ Waiting(c, compiler, gs, stack, statics)
      /\ top - 1 \in Nat \ {0} /\ Len(gs) = top - 1
      /\ gs[top - 1] = from /\ BackOf(gs, top - 1) = BackOf(fs, top - 1)
  <2>1. /\ Waiting(c, compiler, gs, stack, statics)
        /\ top - 1 \in Nat \ {0} /\ Len(gs) = top - 1
        /\ \A i \in 1 .. top - 1 : gs[i] = fs[i] /\ BackOf(gs, i) = BackOf(fs, i)
    <3>1. Waiting(c, compiler, fs, stack, statics)
      BY <1>3
    <3> QED BY <3>1, <1>4, Unframed
  <2>2. top - 1 \in 1 .. top - 1
    BY <2>1
  <2> QED BY <2>1, <2>2
<1>6. /\ from.at \in DOMAIN c.points /\ from \in Frame
      /\ compiler.code[from.at + 1].op = "CALL"
      /\ base = from.base + Below(t) /\ home = Callee(t)
      /\ Reads(fs) = from.at
      /\ Filled(c, fs, top - 1, Below(t), stack)
  <2>1. /\ top - 1 \in 1 .. top - 1 /\ top - 1 \in 1 .. top /\ top - 1 + 1 = top
    BY <1>3, <1>5
  <2>2. Linked(c, compiler, fs, top - 1) /\ fs[top - 1].at \in DOMAIN c.points
    BY <2>1, <1>3 DEF Waiting, Chain
  <2>3. /\ compiler.code[from.at + 1].op = "CALL" /\ fs[top].base = Rim(c, fs, top - 1)
        /\ Home(c, fs, top) = Callee(Shape(c, fs, top - 1))
    BY <2>1, <2>2 DEF Linked
  <2>4. Shape(c, fs, top - 1) = t /\ Home(c, fs, top) = home
    BY <1>3 DEF Shape, Home
  <2>5. Filled(c, fs, top - 1, Below(t), stack)
    BY <2>1, <2>4, <1>3 DEF Waiting
  <2>6. from \in Frame
    BY <2>1, <1>3
  <2>7. Reads(fs) = from.at
    BY <1>4 DEF Reads, BackOf
  <2> QED BY <2>2, <2>3, <2>4, <2>5, <2>6, <2>7, <1>3 DEF Rim
<1>7. /\ t \in Seq(Kinds) /\ Len(t) \in Nat /\ Top(t) \in 0 .. Len(t) - 2
      /\ Below(t) \in 0 .. Len(t) - 2
      /\ Callee(t) \in 0 .. Len(compiler.functions) - 1
  <2>1. /\ t \in Seq(Kinds) /\ Len(t) \in Nat /\ Top(t) \in 0 .. Len(t) - 2
        /\ Below(t) \in 0 .. Len(t) - 2 /\ Callee(t) \in 0 .. Len(compiler.functions) - 1
    BY <1>3, <1>6, CallIs
  <2> QED BY <2>1
<1>8. /\ IsInt(FromTop(1)) /\ FromTop(1).v = thrown
      /\ FromTop(3 + thrown) = Raw(from.at)
      /\ FromTop(4 + thrown) = Raw(Len(s) - 5 - thrown)
      /\ v \in Value /\ Holds(v, Off(s, 2), Reads(fs)) /\ Off(s, 2) \in Kinds
  <2>1. /\ 2 \in 1 .. Len(s) /\ 3 + thrown \in 1 .. Len(s) /\ 4 + thrown \in 1 .. Len(s)
    BY <1>2, <1>3
  <2>2. Holds(FromTop(3 + thrown), Back, from.at)
    BY <2>1, <1>2, <1>6, FromTopIs
  <2>3. Holds(FromTop(4 + thrown), Exact(Len(s) - 5 - thrown), Reads(fs))
    BY <2>1, <1>2, FromTopIs
  <2>4. FromTop(3 + thrown) = Raw(from.at)
    BY <2>2 DEF Holds, Back
  <2>5. FromTop(4 + thrown) = Raw(Len(s) - 5 - thrown)
    BY <2>3 DEF Holds, Exact
  <2> QED BY <2>1, <2>4, <2>5, <1>2, TopExact, FromTopIs
<1>9. stack' = values /\ ip' = from.at + 1 /\ UNCHANGED <<compiler, statics, status>>
  <2>1. /\ IsInt(FromTop(3 + thrown)) /\ FromTop(3 + thrown).v = from.at
        /\ IsInt(FromTop(4 + thrown)) /\ FromTop(4 + thrown).v = Len(s) - 5 - thrown
    BY <1>8 DEF Raw, IsInt
  <2>2. 5 + thrown + (Len(s) - 5 - thrown) = all /\ all <= Len(stack)
    <3>1. Len(s) \in Nat /\ base \in Nat /\ thrown \in 0 .. Len(s) - 5
      BY <1>2, <1>3
    <3>2. Len(stack) = base + Len(s)
      BY <1>3
    <3> HIDE DEF s, base, thrown
    <3> QED BY <3>1, <3>2, ReturnSums
  <2> QED BY <2>1, <2>2, <1>8 DEF Return, Goes
<1>10. Holds(v, c.result[Callee(t)], BackOf(gs, top - 1)) /\ c.result[Callee(t)] \in Kinds
  <2>1. c.result[home] \in Kinds /\ c.result[home] # Back
    BY <1>2, <1>3 DEF Certifies, IsCertificate
  <2>2. Holds(v, c.result[home], Reads(fs))
    BY <1>2, <1>8, HoldsFits
  <2> QED BY <2>1, <2>2, <1>6, HoldsAnywhere
<1>11. /\ Popped(all) \in Seq(Value) /\ Len(Popped(all)) = base
       /\ \A j \in 1 .. base : Popped(all)[j] = stack[j]
  <2>1. all \in 0 .. Len(s)
    BY <1>3
  <2>2. /\ Popped(all) \in Seq(Value) /\ Len(Popped(all)) = Len(stack) - all
        /\ \A j \in 1 .. Last(fs).base : Popped(all)[j] = stack[j]
    BY <2>1, Takes
  <2> QED BY <2>2, <1>3
<1>12. /\ values \in Seq(Value) /\ Len(values) = base + 1
       /\ \A j \in 1 .. base : values[j] = stack[j]
       /\ values[base + 1] = v
  BY <1>8, <1>11, AppendIs
<1>13. HandsOver(c, compiler, gs, stack, v, values)
  <2>1. from = gs[Len(gs)] /\ Len(gs) = top - 1
    BY <1>5
  <2>2. Filled(c, gs, Len(gs), Below(t), stack)
    BY <2>1, <1>5, <1>6 DEF Filled, Shape
  <2> HIDE DEF gs, values, v, base, from
  <2> QED BY <2>1, <2>2, <1>5, <1>6, <1>10, <1>12 DEF HandsOver
<1>14. gs[Len(gs)] = from
  BY <1>5
<1>15. \E hs : Framed(c, compiler, hs, gs[Len(gs)].at + 1, values, statics)
  <2> HIDE DEF gs, values, v
  <2> QED BY <1>3, <1>5, <1>13, Returned
<1> QED BY <1>9, <1>14, <1>15 DEF Continues

(* The program ends with nothing on the stack.                             *)
LEMMA EndIsClean ==
  ASSUME NEW c, NEW fs, IsRun(c, fs), Word(ip).op = "END"
  PROVE  stack = <<>>
<1>1. Here(c) = <<>> /\ c.points[ip].home = Nowhere
  BY WordIs DEF Legal, Word, Here
<1>2. Len(fs) = 1
  BY <1>1, CallerIs
<1>3. Last(fs).base = 0
  BY <1>2, LastIs DEF Waiting, Chain, Last
<1> QED BY <1>1, <1>3, LastIs

-----------------------------------------------------------------------------
(* What holds in every state.                                              *)

LEMMA StartsCertain == Starts /\ Certifiable => Certain
<1> SUFFICES ASSUME Starts, Certifiable, ~compiler.error PROVE Certain
  BY DEF Starts, Certain
<1>1. PICK c : Certifies(c, compiler)
  BY DEF Certifiable
<1> DEFINE fs == <<[at |-> 0, base |-> 0]>>
<1>2. ip = 0 /\ stack = <<>> /\ status = "running"
  BY DEF Starts
<1>3. /\ 0 \in DOMAIN c.points /\ c.points[0].home = Nowhere
      /\ c.points[0].known \subseteq {} /\ Len(c.points[0].shape) = 0
  BY <1>1 DEF Certifies, Meets, Covers, Entry, Point
<1>4. /\ fs \in Seq(Frame) /\ Len(fs) = 1 /\ fs # <<>>
      /\ fs[1].at = 0 /\ fs[1].base = 0
  BY DEF Frame
<1> HIDE DEF fs
<1>5. Chain(c, compiler, fs)
  BY <1>3, <1>4 DEF Chain, Home
<1>6. statics \in [1 .. compiler.staticVariableCount -> Value]
  <2>1. Number(0) \in Value
    <3>1. 0 % IntValues \in Int
      BY MachineAssumption
    <3> QED BY <3>1 DEF Number, Value
  <2> QED BY <2>1 DEF Starts
<1>7. stack \in Seq(Value) /\ Len(stack) = 0
  BY <1>2
<1>8. Waiting(c, compiler, fs, stack, statics)
  BY <1>3, <1>4, <1>5, <1>6, <1>7 DEF Waiting
<1>9. Framed(c, compiler, fs, ip, stack, statics)
  BY <1>2, <1>3, <1>4, <1>7, <1>8 DEF Framed, Shape, Filled
<1> QED BY <1>1, <1>2, <1>9 DEF Certain

(* Every step of certified code is of an instruction that has what it      *)
(* wants, and leaves certified code at a point of it.                      *)
LEMMA RunContinues ==
  ASSUME NEW c, NEW fs, IsRun(c, fs), Runs
  PROVE  \/ Continues(c)
         \/ status' = "ended" /\ UNCHANGED <<compiler, ip, stack, statics>>
<1>1. CASE End
  <2>1. stack = <<>>
    BY <1>1, EndIsClean DEF End, Executes
  <2> QED BY <1>1, <2>1 DEF End
<1>2. CASE PushLiteralInt
  BY <1>2, PushLiteralIntContinues
<1>3. CASE PushLiteralFunctionId
  BY <1>3, PushLiteralFunctionIdContinues
<1>4. CASE Pop
  BY <1>4, PopContinues
<1>5. CASE PopN
  BY <1>5, PopNContinues
<1>6. CASE Add
  BY <1>6, AddContinues
<1>7. CASE Not
  BY <1>7, NotContinues
<1>8. CASE StackPeek
  BY <1>8, StackPeekContinues
<1>9. CASE StackPoke
  BY <1>9, StackPokeContinues
<1>10. CASE StaticPeek
  BY <1>10, StaticPeekContinues
<1>11. CASE StaticPoke
  BY <1>11, StaticPokeContinues
<1>12. CASE JumpRelative
  BY <1>12, JumpRelativeContinues
<1>13. CASE JumpIfZero
  BY <1>13, JumpIfZeroContinues
<1>14. CASE Call
  BY <1>14, CallContinues
<1>15. CASE Return
  BY <1>15, ReturnContinues
<1>16. CASE CoroutineCreate
  BY <1>16, CoroutineCreateContinues
<1>17. CASE CoroutineIsFinished
  BY <1>17, CoroutineIsFinishedContinues
<1> QED BY <1>1, <1>2, <1>3, <1>4, <1>5, <1>6, <1>7, <1>8, <1>9, <1>10, <1>11, <1>12,
           <1>13, <1>14, <1>15, <1>16, <1>17 DEF Runs

LEMMA RunsOnlyRunning ==
  Runs => status = "running"
BY DEF Runs, Executes, PushLiteralInt, PushLiteralFunctionId, Pop, PopN, Add, Not,
       StackPeek, StackPoke, StaticPeek, StaticPoke, JumpRelative, JumpIfZero, Call,
       Return, CoroutineCreate, CoroutineIsFinished, End

LEMMA StepCertain == Certain /\ [Runs]_machine => Certain'
<1> SUFFICES ASSUME Certain, [Runs]_machine PROVE Certain'
  OBVIOUS
<1>1. CASE UNCHANGED machine
  BY <1>1 DEF Certain, machine
<1>2. CASE Runs
  <2>1. PICK c, fs : IsRun(c, fs)
    BY <1>2, RunsOnlyRunning DEF Certain, IsRun
  <2>2. CASE Continues(c)
    <3>1. /\ status' = "running" /\ compiler' = compiler /\ Certifies(c, compiler)
          /\ \E gs : Framed(c, compiler, gs, ip', stack', statics')
      BY <1>2, <2>1, <2>2, RunsOnlyRunning DEF Continues, IsRun
    <3> QED BY <3>1 DEF Certain
  <2>3. CASE status' = "ended"
    BY <2>3 DEF Certain
  <2> QED BY <1>2, <2>1, <2>2, <2>3, RunContinues
<1> QED BY <1>1, <1>2

THEOREM CertainAlways == MachineSpec /\ Certifiable => []Certain
BY StartsCertain, StepCertain, PTL DEF MachineSpec

(* Whatever code has a certificate, of any length and with any integers:   *)
(* control is always at an instruction of it.                              *)
THEOREM CertifiedRunsInstructions == MachineSpec /\ Certifiable => []RunsInstructions
<1>1. Certain => RunsInstructions
  <2> SUFFICES ASSUME Certain, status = "running" PROVE RunsInstructions
    BY DEF RunsInstructions
  <2>1. PICK c, fs : IsRun(c, fs)
    BY DEF Certain, IsRun
  <2>2. ip \in DOMAIN c.points /\ Certifies(c, compiler)
    BY <2>1, LastIs
  <2>3. /\ ip \in 0 .. Len(compiler.code) - 1 /\ Len(compiler.code) \in Nat
        /\ Legal(compiler, c, ip)
    BY <2>2, PointIs
  <2>4. Word(ip).op # "data"
    BY <2>3 DEF Legal, Word
  <2> QED BY <2>3, <2>4 DEF RunsInstructions
<1> QED BY <1>1, CertainAlways, PTL

(* Whatever code has a certificate: no instruction of it ever fails, and   *)
(* it ends with nothing left on the stack.                                 *)
THEOREM CertifiedEndsClean == MachineSpec /\ Certifiable => []EndsClean
<1>1. Certain => EndsClean
  BY DEF Certain, EndsClean
<1> QED BY <1>1, CertainAlways, PTL

(* Nothing is ever read from beyond the stack, where peeking and its mask  *)
(* find whatever is left there.                                            *)
NothingStale == status = "running" => \A i \in 1 .. Len(stack) : stack[i] # Stale

THEOREM CertifiedNothingStale == MachineSpec /\ Certifiable => []NothingStale
<1>1. Certain => NothingStale
  <2> SUFFICES ASSUME Certain, status = "running", NEW i \in 1 .. Len(stack)
               PROVE  stack[i] # Stale
    BY DEF NothingStale
  <2>1. PICK c, fs : IsRun(c, fs)
    BY DEF Certain, IsRun
  <2>2. stack \in Seq(Value)
    BY <2>1, LastIs
  <2>3. stack[i] \in Value
    BY <2>2, ElementIs
  <2> QED BY <2>3 DEF Value, Stale
<1> QED BY <1>1, CertainAlways, PTL


-----------------------------------------------------------------------------
(* The counters of the loop.                                               *)

Usual == Unusual = {}

(* What is left of the limit, what runs before the next check and what has *)
(* run: their sum only falls, except with a load.                          *)
Accounted ==
  IF left = NoLimit
  THEN executed = 0
  ELSE executed + countdown + left <= granted + slack

(* The countdown is 0 only after the error, so that it never wraps.        *)
Counted ==
  /\ TypeOK
  /\ interval # 0
  /\ ~timedOut => countdown # 0
  /\ Accounted

LEMMA Usually ==
  ASSUME Usual
  PROVE  0 \notin Intervals /\ "longImage" \notin Unusual
BY IterateAssumption DEF Usual

LEMMA Sums ==
  /\ \A c, g \in Int : 0 + c + g <= g + c
  /\ \A e, c, n, l, g, s, m \in Int :
       e + c + l <= g + s /\ n <= c + m => e + n + l <= g + (s + m)
OBVIOUS

LEMMA DecrementedIs ==
  ASSUME NEW n \in 1 .. UintMax
  PROVE  Decremented(n) = n - 1
<1>1. UintMax \in Nat
  BY IterateAssumption
<1>2. (n - 1) % (UintMax + 1) = n - 1
  BY <1>1
<1> QED BY <1>2 DEF Decremented

LEMMA LoweredIs ==
  ASSUME NEW now \in 0 .. UintMax, NEW most \in 0 .. UintMax
  PROVE  /\ Lowered(now, most) \in 0 .. UintMax
         /\ Lowered(now, most) <= now /\ Lowered(now, most) <= most
         /\ now # 0 /\ most # 0 => Lowered(now, most) # 0
BY IterateAssumption DEF Lowered

LEMMA InitCounted == ASSUME Usual PROVE Init => Counted
<1> SUFFICES ASSUME Init PROVE Counted
  OBVIOUS
<1>1. TypeOK
  <2>1. interval \in 0 .. UintMax /\ objectInterval \in 0 .. UintMax
    BY IterateAssumption DEF Init
  <2>2. left \in 0 .. UintMax /\ loads \in 0 .. MaxLoads
    BY IterateAssumption DEF Init, NoLimit
  <2>3. timedOut \in BOOLEAN /\ pass \in {0, 1}
    BY DEF Init
  <2>4. granted \in Counts \cup {0}
    BY DEF Init
  <2>5. countdown \in 0 .. UintMax /\ objectCountdown \in 0 .. UintMax
    BY <2>1 DEF Init
  <2>6. objectCountdown <= objectInterval
    BY <2>1 DEF Init
  <2>7. executed \in Nat /\ slack \in Nat
    BY DEF Init
  <2> QED BY <2>1, <2>2, <2>3, <2>4, <2>5, <2>6, <2>7 DEF TypeOK
<1>2. interval # 0 /\ countdown # 0 /\ Accounted
  BY DEF Init, Accounted
<1> QED BY <1>1, <1>2 DEF Counted

(* What a step that runs an instruction has to show.                       *)
LEMMA ExecuteTyped ==
  ASSUME Counted, NEW n \in 0 .. objectInterval, Execute(n)
  PROVE  /\ objectCountdown' \in 0 .. objectInterval
         /\ executed' \in Nat
         /\ left = NoLimit => executed' = executed
         /\ left # NoLimit => executed' = executed + 1
BY IterateAssumption DEF Counted, TypeOK, Execute

LEMMA NextCounted == ASSUME Usual PROVE Counted /\ [Next]_vars => Counted'
<1> SUFFICES ASSUME Counted, [Next]_vars PROVE Counted'
  OBVIOUS
<1> USE IterateAssumption DEF NoLimit
<1>t. /\ TypeOK /\ interval # 0 /\ (~timedOut => countdown # 0) /\ Accounted
      /\ interval \in 1 .. UintMax
      /\ 0 .. objectInterval \subseteq 0 .. UintMax
  BY DEF Counted, TypeOK
<1>d. ~timedOut => countdown \in 1 .. UintMax /\ Decremented(countdown) = countdown - 1
  BY <1>t, DecrementedIs DEF TypeOK
<1>1. CASE Iterate
  <2>1. /\ timedOut' = timedOut /\ countdown' = countdown - 1 /\ countdown' # 0
        /\ UNCHANGED <<interval, objectInterval, left, pass, loads, granted, slack>>
        /\ Execute(objectCountdown)
    BY <1>1, <1>d DEF Iterate, Execute
  <2>2. objectCountdown \in 0 .. objectInterval
    BY <1>t DEF TypeOK
  <2>3. /\ objectCountdown' \in 0 .. objectInterval
        /\ executed' \in Nat
        /\ left = NoLimit => executed' = executed
        /\ left # NoLimit => executed' = executed + 1
    BY <2>1, <2>2, ExecuteTyped
  <2>c. countdown \in 1 .. UintMax
    BY <1>1, <1>d DEF Iterate
  <2>4. TypeOK'
    <3>1. countdown' \in 0 .. UintMax
      BY <2>1, <2>c
    <3>2. objectCountdown' \in 0 .. UintMax /\ objectCountdown' <= objectInterval'
      BY <1>t, <2>1, <2>3 DEF TypeOK
    <3>3. timedOut' \in BOOLEAN /\ pass' \in {0, 1} /\ loads' \in 0 .. MaxLoads
      BY <1>t, <1>1, <2>1 DEF TypeOK
    <3>4. granted' \in Counts \cup {0} /\ slack' \in Nat
      BY <1>t, <2>1 DEF TypeOK
    <3>5. /\ interval' \in 0 .. UintMax /\ objectInterval' \in 0 .. UintMax
          /\ left' \in 0 .. UintMax
      BY <1>t, <2>1 DEF TypeOK
    <3> QED BY <2>3, <3>1, <3>2, <3>3, <3>4, <3>5 DEF TypeOK
  <2>5. Accounted'
    <3>1. CASE left = NoLimit
      BY <1>t, <2>1, <2>3, <3>1 DEF Accounted
    <3>2. CASE left # NoLimit
      <4>1. /\ executed' = executed + 1 /\ countdown' = countdown - 1
            /\ left' = left /\ granted' = granted /\ slack' = slack
        BY <2>1, <2>3, <3>2
      <4>2. executed + countdown + left <= granted + slack
        BY <1>t, <3>2 DEF Accounted
      <4>3. /\ executed \in Int /\ countdown \in Int /\ left \in Int
            /\ granted \in Int /\ slack \in Int
        BY <1>t DEF TypeOK
      <4>4. executed' + countdown' + left' <= granted' + slack'
        BY <4>1, <4>2, <4>3
      <4> QED BY <3>2, <4>1, <4>4 DEF Accounted
    <3> QED BY <3>1, <3>2
  <2> QED BY <1>t, <2>1, <2>4, <2>5 DEF Counted
<1>2. CASE TimeOut
  <2>1. TypeOK'
    BY <1>t, <1>2 DEF TypeOK, TimeOut, ghosts
  <2>2. Accounted'
    BY <1>t, <1>2 DEF TypeOK, TimeOut, ghosts, Accounted, UsedUp
  <2> QED BY <1>t, <1>2, <2>1, <2>2 DEF Counted, TimeOut
<1>3. CASE IterateWithCheck
  <2>1. /\ timedOut' = timedOut /\ countdown = 1 /\ countdown' = interval
        /\ UNCHANGED <<interval, objectInterval, loads, granted, slack>>
        /\ left' = Charged /\ ~UsedUp
        /\ pass' \in {0, 1}
        /\ \E n \in {objectInterval, objectCountdown} : Execute(n)
    BY <1>3, <1>t, <1>d DEF IterateWithCheck, Execute, TypeOK
  <2>2. /\ objectCountdown' \in 0 .. objectInterval
        /\ executed' \in Nat
        /\ left = NoLimit => executed' = executed
        /\ left # NoLimit => executed' = executed + 1
    <3>1. PICK n \in {objectInterval, objectCountdown} : Execute(n)
      BY <2>1
    <3>2. n \in 0 .. objectInterval
      BY <1>t, <3>1 DEF TypeOK
    <3> QED BY <3>1, <3>2, ExecuteTyped
  <2>3. IF left = NoLimit THEN left' = NoLimit
        ELSE left' = left - interval /\ left' \in 0 .. UintMax - 1
    <3>1. CASE left = NoLimit
      BY <2>1, <3>1 DEF Charged
    <3>2. CASE left # NoLimit
      <4>1. left \in 0 .. UintMax /\ interval <= left
        BY <1>t, <2>1, <3>2 DEF UsedUp, TypeOK
      <4>2. left - interval \in 0 .. UintMax - 1
        BY <4>1, <1>t, <3>2
      <4>3. (left - interval) % (UintMax + 1) = left - interval
        <5> DEFINE n == left - interval
        <5>1. n \in 0 .. UintMax
          BY <4>2
        <5> HIDE DEF n
        <5>2. n % (UintMax + 1) = n
          BY <5>1
        <5> QED BY <5>2 DEF n
      <4> QED BY <2>1, <3>2, <4>2, <4>3 DEF Charged
    <3> QED BY <3>1, <3>2
  <2>4. TypeOK'
    <3>1. left' \in 0 .. UintMax
      BY <2>3
    <3>2. objectCountdown' \in 0 .. UintMax /\ objectCountdown' <= objectInterval'
      BY <1>t, <2>1, <2>2 DEF TypeOK
    <3>3. timedOut' \in BOOLEAN /\ loads' \in 0 .. MaxLoads
      BY <1>t, <2>1 DEF TypeOK
    <3>4. granted' \in Counts \cup {0} /\ slack' \in Nat
      BY <1>t, <2>1 DEF TypeOK
    <3>5. /\ interval' \in 0 .. UintMax /\ objectInterval' \in 0 .. UintMax
          /\ countdown' \in 0 .. UintMax
      BY <1>t, <2>1 DEF TypeOK
    <3> QED BY <2>1, <2>2, <3>1, <3>2, <3>3, <3>4, <3>5 DEF TypeOK
  <2>5. Accounted'
    BY <1>t, <2>1, <2>2, <2>3 DEF TypeOK, Accounted
  <2> QED BY <1>t, <2>1, <2>4, <2>5 DEF Counted
<1>4. CASE SetRemainingInstructionLimit
  <2>0. /\ executed' = 0 /\ countdown' = countdown
        /\ left' \in 0 .. UintMax
        /\ granted' \in Counts \cup {0} /\ granted' \in Nat /\ slack' \in Nat
        /\ left' # NoLimit => left' = granted' /\ slack' = countdown
    <3>1. CASE left' \in Counts /\ granted' = left' /\ slack' = countdown
      BY <1>t, <1>4, <3>1 DEF TypeOK, SetRemainingInstructionLimit, gcVars
    <3>2. CASE left' = NoLimit /\ granted' = 0 /\ slack' = 0
      BY <1>t, <1>4, <3>2 DEF TypeOK, SetRemainingInstructionLimit, gcVars
    <3> QED BY <1>4, <3>1, <3>2 DEF SetRemainingInstructionLimit
  <2>1. TypeOK'
    BY <1>t, <1>4, <2>0 DEF TypeOK, SetRemainingInstructionLimit, gcVars
  <2>2. Accounted'
    <3>1. CASE left' = NoLimit
      BY <2>0, <3>1 DEF Accounted
    <3>2. CASE left' # NoLimit
      <4>1. left' = granted' /\ slack' = countdown /\ granted' \in Int
        BY <2>0, <3>2
      <4>2. executed' + countdown' + left' <= granted' + slack'
        <5>1. countdown \in Int
          BY <1>t DEF TypeOK
        <5>2. 0 + countdown + left' <= left' + countdown
          BY <4>1, <5>1, Sums
        <5> QED BY <2>0, <4>1, <5>2
      <4> QED BY <3>2, <4>2 DEF Accounted
    <3> QED BY <3>1, <3>2
  <2> QED BY <1>t, <1>4, <2>1, <2>2 DEF Counted, SetRemainingInstructionLimit, gcVars
<1>5. CASE SetGarbageCollectionInterval
  <2>1. interval' \in 1 .. UintMax
    BY <1>5, Usually DEF SetGarbageCollectionInterval
  <2>2. countdown' \in 1 .. UintMax /\ countdown' <= countdown
    BY <1>5, <1>d, <2>1, LoweredIs DEF SetGarbageCollectionInterval
  <2>3. TypeOK'
    BY <1>t, <1>5, <2>1, <2>2 DEF TypeOK, SetGarbageCollectionInterval, ghosts
  <2>4. Accounted'
    BY <1>t, <1>5, <2>2 DEF TypeOK, SetGarbageCollectionInterval, ghosts, Accounted
  <2> QED BY <2>1, <2>2, <2>3, <2>4 DEF Counted
<1>6. CASE SetGarbageCollectionNewObjectInterval
  <2>1. objectInterval' \in 0 .. UintMax
    BY <1>6 DEF SetGarbageCollectionNewObjectInterval
  <2>2. objectCountdown' \in 0 .. UintMax /\ objectCountdown' <= objectInterval'
    BY <1>6, <1>t, <2>1, LoweredIs DEF SetGarbageCollectionNewObjectInterval, TypeOK
  <2>3. TypeOK'
    BY <1>t, <1>6, <2>1, <2>2
       DEF TypeOK, SetGarbageCollectionNewObjectInterval, ghosts
  <2>4. Accounted'
    BY <1>t, <1>6 DEF SetGarbageCollectionNewObjectInterval, ghosts, Accounted
  <2> QED BY <1>t, <1>6, <2>3, <2>4
          DEF Counted, SetGarbageCollectionNewObjectInterval
<1>7. CASE Save
  <2>1. interval' \in 1 .. UintMax
    BY <1>7, <1>t, LoweredIs DEF Save
  <2>2. TypeOK'
    BY <1>t, <1>7, <2>1 DEF TypeOK, Save, ghosts
  <2>3. Accounted'
    BY <1>t, <1>7 DEF Save, ghosts, Accounted
  <2> QED BY <1>t, <1>7, <2>1, <2>2, <2>3 DEF Counted, Save
<1>8. CASE Load
  <2>1. PICK saved \in Intervals \ {0} :
          /\ saved > LoadedIntervalMax => "longImage" \in Unusual
          /\ interval' = Lowered(saved, LoadedIntervalMax)
          /\ countdown' \in 1 .. saved
    BY <1>8 DEF Load
  <2>2. saved \in 1 .. UintMax /\ saved <= LoadedIntervalMax
    BY <2>1, Usually
  <2>3. interval' \in 1 .. UintMax
    BY <2>1, <2>2, LoweredIs
  <2>4. countdown' \in 1 .. UintMax /\ countdown' <= LoadedIntervalMax
    BY <2>1, <2>2
  <2>5. TypeOK'
    BY <1>t, <1>8, <2>3, <2>4 DEF TypeOK, Load
  <2>6. Accounted'
    <3>1. /\ executed' = executed /\ left' = left /\ granted' = granted
          /\ slack' = slack + LoadedIntervalMax
      BY <1>8 DEF Load
    <3>2. /\ executed \in Nat /\ countdown \in Nat /\ left \in Nat
          /\ granted \in Nat /\ slack \in Nat
      BY <1>t DEF TypeOK
    <3>3. CASE left = NoLimit
      BY <1>t, <3>1, <3>3 DEF Accounted
    <3>4. CASE left # NoLimit
      <4>1. executed + countdown + left <= granted + slack
        BY <1>t, <3>4 DEF Accounted
      <4>2. executed' + countdown' + left' <= granted' + slack'
        <5>1. countdown' \in Int /\ LoadedIntervalMax \in Int
          BY <2>4
        <5>2. countdown' <= countdown + LoadedIntervalMax
          BY <2>4, <3>2, <5>1
        <5>3. executed + countdown' + left <= granted + (slack + LoadedIntervalMax)
          <6>1. /\ executed \in Int /\ countdown \in Int /\ left \in Int
                /\ granted \in Int /\ slack \in Int
            BY <3>2
          <6> HIDE IterateAssumption
          <6> QED BY <4>1, <5>1, <5>2, <6>1, Sums
        <5> QED BY <3>1, <5>3
      <4> QED BY <3>1, <3>4, <4>2 DEF Accounted
    <3> QED BY <3>3, <3>4
  <2> QED BY <2>3, <2>4, <2>5, <2>6 DEF Counted
<1>9. CASE UNCHANGED vars
  BY <1>t, <1>9 DEF Counted, TypeOK, Accounted, vars
<1> QED BY <1>1, <1>2, <1>3, <1>4, <1>5, <1>6, <1>7, <1>8, <1>9 DEF Next

LEMMA CountedAlways == ASSUME Usual PROVE Spec => []Counted
<1>1. Init => Counted
  BY InitCounted
<1>2. Counted /\ [Next]_vars => Counted'
  BY NextCounted
<1> QED BY <1>1, <1>2, PTL DEF Spec

(* The counters stay in their types; no countdown wraps.                   *)
THEOREM TypeCorrect == ASSUME Usual PROVE Spec => []TypeOK
<1>1. Counted => TypeOK
  BY DEF Counted
<1> QED BY <1>1, CountedAlways, PTL

(* No more instructions run than the host allowed, beyond the interval it  *)
(* was in when it did and one for each load.                               *)
THEOREM LimitTheorem == ASSUME Usual PROVE Spec => []LimitEnforced
<1>1. Counted => LimitEnforced
  <2> SUFFICES ASSUME Counted PROVE LimitEnforced
    OBVIOUS
  <2>1. /\ executed \in Nat /\ granted \in Nat /\ slack \in Nat
        /\ countdown \in Nat /\ left \in Nat /\ Accounted
    BY IterateAssumption DEF Counted, TypeOK
  <2> QED BY <2>1 DEF LimitEnforced, Accounted
<1> QED BY <1>1, CountedAlways, PTL

(* A collection that is due comes nearer with every instruction, and       *)
(* nothing the host does to the intervals puts it off: until it is there   *)
(* it stays due and the countdown falls, unless the limit or an image with *)
(* other counters comes first.  CollectsWhenDue, checked by TLC, is this   *)
(* and that the loop goes on.                                              *)
THEOREM DueDrawsNearer ==
  ASSUME Usual
  PROVE  Spec => [][objectCountdown = 0 =>
                      \/ pass' # pass \/ timedOut' \/ loads' # loads
                      \/ /\ objectCountdown' = 0 /\ countdown' <= countdown
                         /\ Iterate \/ TimeOut \/ IterateWithCheck => countdown' < countdown]_vars
<1> DEFINE Nearer ==
      objectCountdown = 0 =>
        \/ pass' # pass \/ timedOut' \/ loads' # loads
        \/ /\ objectCountdown' = 0 /\ countdown' <= countdown
           /\ Iterate \/ TimeOut \/ IterateWithCheck => countdown' < countdown
<1>1. ASSUME Counted, Next, objectCountdown = 0,
             pass' = pass, ~ timedOut', loads' = loads
      PROVE  /\ objectCountdown' = 0 /\ countdown' <= countdown
             /\ Iterate \/ TimeOut \/ IterateWithCheck => countdown' < countdown
  <2>1. /\ TypeOK /\ UintMax \in Nat /\ interval \in 1 .. UintMax
        /\ 0 \in 0 .. objectInterval /\ 0 \in 0 .. UintMax
    BY <1>1, IterateAssumption DEF Counted, TypeOK
  <2>2. ~ timedOut
    BY <1>1 DEF Next, Iterate, TimeOut, IterateWithCheck, SetRemainingInstructionLimit,
                SetGarbageCollectionInterval, SetGarbageCollectionNewObjectInterval, Save, Load
  <2>3. countdown \in 1 .. UintMax /\ Decremented(countdown) = countdown - 1
    BY <1>1, <2>1, <2>2, DecrementedIs DEF Counted, TypeOK
  <2>4. ~ TimeOut /\ ~ Load
    BY <1>1, <2>1 DEF TimeOut, Load, TypeOK
  <2>5. ~ IterateWithCheck
    BY <1>1, <2>1 DEF IterateWithCheck, Due, TypeOK
  <2>6. Iterate => objectCountdown' = 0 /\ countdown' = countdown - 1
    BY <1>1, <2>3 DEF Iterate, Execute
  <2>7. SetRemainingInstructionLimit => objectCountdown' = 0 /\ countdown' = countdown
    BY <1>1 DEF SetRemainingInstructionLimit, gcVars
  <2>8. SetGarbageCollectionInterval => objectCountdown' = 0 /\ countdown' <= countdown
    <3>1. SetGarbageCollectionInterval => interval' \in 0 .. UintMax
      BY IterateAssumption DEF SetGarbageCollectionInterval
    <3> QED BY <1>1, <2>3, <3>1, LoweredIs DEF SetGarbageCollectionInterval
  <2>9. SetGarbageCollectionNewObjectInterval => objectCountdown' = 0 /\ countdown' = countdown
    <3>1. SetGarbageCollectionNewObjectInterval => objectInterval' \in 0 .. UintMax
      BY IterateAssumption DEF SetGarbageCollectionNewObjectInterval
    <3> QED BY <1>1, <3>1 DEF SetGarbageCollectionNewObjectInterval, Lowered
  <2>10. Save => objectCountdown' = 0 /\ countdown' = countdown
    BY <1>1 DEF Save
  <2>11. objectCountdown' = 0 /\ countdown' <= countdown
    BY <1>1, <2>3, <2>4, <2>5, <2>6, <2>7, <2>8, <2>9, <2>10 DEF Next
  <2> QED BY <2>3, <2>4, <2>5, <2>6, <2>11
<1>2. Counted /\ [Next]_vars => [Nearer]_vars
  BY <1>1
<1> QED BY <1>2, CountedAlways, PTL DEF Spec

=============================================================================
