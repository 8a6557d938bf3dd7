----------------------------- MODULE NkGcProofs -----------------------------
(***************************************************************************)
(* Proofs about NkGc for any objects, strings and bounds: in a VM whose    *)
(* pass numbers do not wrap, used by a host that releases only handles it  *)
(* has (Legal), the collector frees nothing that can be reached and marks  *)
(* nothing else.                                                           *)
(***************************************************************************)
EXTENDS NkGc, FiniteSetTheorems, TLAPS

Legal == ~ PassesWrap /\ ~ ReleaseUnheld

(***************************************************************************)
(* Facts that need no state.                                               *)
(***************************************************************************)
LEMMA Modulo ==
  ASSUME NEW N \in Nat \ {0}
  PROVE  N % N = 0 /\ \A n \in 0 .. N - 1 : n % N = n
OBVIOUS

(* The chain of contexts, as OneChain has it, for any parents and any      *)
(* current context.                                                        *)
ActiveIn(par) == {o \in Obj : par[o] # None}
Chain(par, cur) ==
  /\ cur \in Obj => cur \in ActiveIn(par)
  /\ \A o \in ActiveIn(par) : par[o] \in Obj => par[o] \in ActiveIn(par)
  /\ \A o \in ActiveIn(par) : par[o] # cur
  /\ \A o, q \in ActiveIn(par) : par[o] = par[q] => o = q
  /\ \A S \in SUBSET Context :
       cur \in S /\ (\A o \in S \cap ActiveIn(par) : par[o] \in S) => ActiveIn(par) \subseteq S

(* Resuming an inactive coroutine puts it at the head of the chain. *)
LEMMA ResumeExtendsChain ==
  ASSUME NEW par \in [Obj -> Context \cup {None}], NEW cur \in Context, Chain(par, cur),
         NEW c \in Obj, par[c] = None
  PROVE  Chain([par EXCEPT ![c] = cur], c)
<1> DEFINE new == [par EXCEPT ![c] = cur]
<1>1. None \notin Context /\ Root \notin Obj
  BY HeapAssumption DEF Context, Value
<1>2. new[c] = cur /\ (\A o \in Obj \ {c} : new[o] = par[o]) /\ ActiveIn(new) = ActiveIn(par) \cup {c}
  BY <1>1 DEF ActiveIn
<1>3. c \notin ActiveIn(par) /\ cur # c
  BY <1>1 DEF ActiveIn, Chain
<1>4. \A o \in ActiveIn(par) : o \in Obj \ {c} /\ par[o] # c
  BY <1>3 DEF ActiveIn, Chain
<1> HIDE DEF new
<1>5. c \in ActiveIn(new) /\ \A o \in ActiveIn(new) : new[o] \in Obj => new[o] \in ActiveIn(new)
  BY <1>2, <1>3, <1>4 DEF Chain
<1>6. \A o \in ActiveIn(new) : new[o] # c
  BY <1>2, <1>3, <1>4
<1>7. \A o, q \in ActiveIn(new) : new[o] = new[q] => o = q
  BY <1>2, <1>4 DEF Chain
<1>8. ASSUME NEW S \in SUBSET Context, c \in S, \A o \in S \cap ActiveIn(new) : new[o] \in S
      PROVE  ActiveIn(new) \subseteq S
  <2>1. cur \in S \ {c}
    BY <1>2, <1>3, <1>8
  <2>2. \A o \in (S \ {c}) \cap ActiveIn(par) : par[o] \in S \ {c}
    BY <1>2, <1>4, <1>8
  <2>3. ActiveIn(par) \subseteq S \ {c}
    BY <2>1, <2>2 DEF Chain
  <2> QED BY <2>3, <1>2, <1>8
<1> QED BY <1>5, <1>6, <1>7, <1>8 DEF Chain, new

(* Going back to the context that resumed the current one takes the        *)
(* current one off the chain.                                              *)
LEMMA ReturnShortensChain ==
  ASSUME NEW par \in [Obj -> Context \cup {None}], NEW cur \in Obj, Chain(par, cur)
  PROVE  par[cur] \in Context /\ Chain([par EXCEPT ![cur] = None], par[cur])
<1> DEFINE new == [par EXCEPT ![cur] = None]
           up  == par[cur]
<1>1. cur \in ActiveIn(par) /\ up \in Context
  BY DEF Chain, ActiveIn
<1>2. /\ \A o \in Obj \ {cur} : new[o] = par[o]
      /\ ActiveIn(new) = ActiveIn(par) \ {cur}
  BY DEF ActiveIn
<1>3. \A o \in ActiveIn(new) : o \in ActiveIn(par) /\ new[o] = par[o] /\ o # cur
  BY <1>2 DEF ActiveIn
<1> HIDE DEF new
<1>4. up \in Obj => up \in ActiveIn(new)
  BY <1>1, <1>2 DEF Chain
<1>5. \A o \in ActiveIn(new) : new[o] \in Obj => new[o] \in ActiveIn(new)
  BY <1>2, <1>3 DEF Chain
<1>6. \A o \in ActiveIn(new) : new[o] # up
  BY <1>1, <1>3 DEF Chain
<1>7. \A o, q \in ActiveIn(new) : new[o] = new[q] => o = q
  BY <1>3 DEF Chain
<1>8. ASSUME NEW S \in SUBSET Context, up \in S, \A o \in S \cap ActiveIn(new) : new[o] \in S
      PROVE  ActiveIn(new) \subseteq S
  <2>1. S \cup {cur} \in SUBSET Context
    BY DEF Context
  <2>2. \A o \in (S \cup {cur}) \cap ActiveIn(par) : par[o] \in S \cup {cur}
    BY <1>2, <1>3, <1>8
  <2>3. ActiveIn(par) \subseteq S \cup {cur}
    BY <2>1, <2>2 DEF Chain
  <2> QED BY <2>3, <1>2
<1> QED BY <1>1, <1>4, <1>5, <1>6, <1>7, <1>8 DEF Chain, new

(***************************************************************************)
(* What the invariant says of the program's reach.                         *)
(***************************************************************************)
LEMMA ChainHolds ==
  ASSUME TypeOK, OneChain
  PROVE  /\ Chain(parent, current) /\ Active = ActiveIn(parent)
         /\ Active \subseteq coroutines /\ coroutines \subseteq objects
         /\ current \in coroutines \cup {Root}
         /\ \A o \in Obj : parent[o] \in Obj => parent[o] \in coroutines
         /\ current # Root => current \in Obj /\ parent[current] \in coroutines \cup {Root}
<1>1. Chain(parent, current) /\ Active = ActiveIn(parent)
  BY DEF OneChain, Chain, Active, ActiveIn
<1>2. None \notin Obj
  BY HeapAssumption DEF Value
<1>3. \A o \in Obj : parent[o] \in Obj => parent[o] \in coroutines
  BY <1>2 DEF OneChain, Active
<1>4. current \in coroutines \cup {Root}
  BY DEF OneChain, TypeOK, Context
<1>5. current # Root => current \in Obj /\ parent[current] \in coroutines \cup {Root}
  BY <1>3 DEF OneChain, TypeOK, Context, Active
<1> QED BY <1>1, <1>3, <1>4, <1>5 DEF OneChain

LEMMA FollowsIsReferences ==
  ASSUME TypeOK
  PROVE  \A o \in Obj : Follows(o) = References(o) /\ References(o) \subseteq Value
<1> SUFFICES ASSUME NEW o \in Obj
             PROVE  Follows(o) = References(o) /\ References(o) \subseteq Value
  OBVIOUS
<1>1. fields[o] \subseteq Value /\ stack[o] \subseteq Value /\ parent[o] \in Obj \cup {Root, None}
  BY DEF TypeOK, Context
<1>2. Root \notin Value /\ None \notin Value /\ Obj \subseteq Value
  BY HeapAssumption DEF Value
<1>3. parent[o] \in Value <=> parent[o] \in Obj
  BY <1>1, <1>2
<1> QED BY <1>1, <1>2, <1>3 DEF Follows, References

(* While the program runs it has at hand only what exists. *)
LEMMA InReach ==
  ASSUME TypeOK, HeapClosed, OneChain, phase \in {"run", "mark"}
  PROVE  /\ Live \subseteq Value /\ Live \cap Obj = objects
         /\ \A o \in objects : References(o) \subseteq Live
         /\ Roots \subseteq Live /\ dontGC \subseteq Live
         /\ stack[current] \subseteq Live
         /\ AtHand \subseteq Live
<1>1. Live \subseteq Value /\ Live \cap Obj = objects
  BY HeapAssumption DEF Live, Value, TypeOK
<1>2. \A o \in objects : References(o) \subseteq Live
  BY ChainHolds, HeapAssumption DEF HeapClosed, References, Live, TypeOK
<1>3. Roots \subseteq Live /\ dontGC \subseteq Live
  <2>1. stack[Root] \subseteq Live /\ statics \subseteq Live /\ Held \subseteq Live /\ dontGC \subseteq Live
    BY DEF HeapClosed, Live
  <2>2. {current} \cap Obj \subseteq Live
    BY ChainHolds, HeapAssumption DEF Live, Value
  <2> QED BY <2>1, <2>2 DEF Roots
<1>4. stack[current] \subseteq Live
  BY ChainHolds DEF HeapClosed
<1>5. AtHand \subseteq Live
  <2>1. \A o \in stack[current] \cap Obj : fields[o] \subseteq Live
    BY <1>1, <1>4 DEF HeapClosed
  <2>2. statics \subseteq Live /\ Held \subseteq Live
    BY DEF HeapClosed, Live
  <2>3. UNION {fields[o] : o \in stack[current] \cap Obj} \subseteq Live
    BY <2>1
  <2> QED BY <1>4, <2>2, <2>3 DEF AtHand
<1> QED BY <1>1, <1>2, <1>3, <1>4, <1>5

(***************************************************************************)
(* The invariant holds at first.                                           *)
(***************************************************************************)
LEMMA InitInvariant == Init => IInv
<1> SUFFICES ASSUME Init PROVE IInv
  OBVIOUS
<1> USE DEF Init
<1>1. 0 \in 0 .. PassSpace - 1 /\ 0 \in 0 .. HandleSpace - 1
  BY HeapAssumption
<1>2. TypeOK
  BY <1>1 DEF TypeOK, Context
<1>3. HandleListExact /\ Held = {}
  BY DEF HandleListExact, Held
<1>4. HeapClosed
  BY <1>3 DEF HeapClosed, Live, Context
<1>5. MarksInPast /\ TriColour /\ TalliesAgree
  BY DEF MarksInPast, TriColour, TalliesAgree
<1>6. OneChain
  <2>1. Active = {} /\ current \notin Obj
    BY HeapAssumption DEF Active, Value
  <2> QED BY <2>1 DEF OneChain
<1> QED BY <1>2, <1>3, <1>4, <1>5, <1>6 DEF IInv

(***************************************************************************)
(* The program's steps.                                                    *)
(***************************************************************************)
(* A step that only moves references about leaves these alone. *)
LEMMA MovesKeep ==
  ASSUME IInv, phase = "run",
         UNCHANGED <<objects, coroutines, parent, current, handleVars, pass, open, phase>>
  PROVE  HandleListExact' /\ TriColour' /\ OneChain' /\ TalliesAgree' /\ Held' = Held
<1> USE DEF handleVars
<1>1. HandleListExact' /\ TalliesAgree' /\ Held' = Held
  BY DEF IInv, HandleListExact, Held, TalliesAgree
<1>2. TriColour'
  BY DEF IInv, TriColour
<1>3. OneChain'
  BY DEF IInv, OneChain, Active
<1> QED BY <1>1, <1>2, <1>3

LEMMA PushKeeps ==
  ASSUME IInv, NEW v \in Value, Push(v) \/ Pop(v)
  PROVE  IInv'
<1> USE DEF Push, Pop, Running, heapVars, handleVars, gcVars
<1>1. /\ UNCHANGED <<heapVars, fields, statics, coroutines, parent, current, handleVars, gcVars>>
      /\ phase = "run" /\ current \in Context
  BY DEF IInv, TypeOK
<1>2. v \in AtHand \/ v \in stack[current]
  OBVIOUS
<1>3. v \in Live
  BY <1>1, <1>2, InReach DEF IInv
<1>4. TypeOK'
  BY DEF IInv, TypeOK
<1>5. HandleListExact' /\ TriColour' /\ OneChain' /\ TalliesAgree' /\ Held' = Held
  BY <1>1, MovesKeep
<1>6. Live' = Live /\ MarksInPast'
  BY <1>1 DEF IInv, MarksInPast, Live
<1>7. HeapClosed'
  <2>1. \A c \in Context : stack'[c] \subseteq stack[c] \cup {v}
    BY <1>1 DEF IInv, TypeOK
  <2>2. \A c \in coroutines \cup {Root} : c \in Context
    BY DEF IInv, TypeOK, Context
  <2> QED BY <1>1, <1>3, <1>5, <1>6, <2>1, <2>2 DEF IInv, HeapClosed
<1> QED BY <1>4, <1>5, <1>6, <1>7 DEF IInv

(* Interning a string changes nothing about what was there. *)
LEMMA FindOrAddKeeps ==
  ASSUME IInv, NEW s \in Str, FindOrAddString(s), UNCHANGED <<objects, pass, phase>>
  PROVE  /\ s \in strings' /\ strings \subseteq strings' /\ strings' \subseteq Str /\ Live \subseteq Live'
         /\ mark' \in [Value -> 0 .. PassSpace - 1]
         /\ MarksInPast'
<1>1. 0 \in 0 .. PassSpace - 1 /\ s \in Value
  BY HeapAssumption DEF Value
<1>2. mark \in [Value -> 0 .. PassSpace - 1] /\ strings \subseteq Str /\ pass \in 0 .. PassSpace - 1
  BY DEF IInv, TypeOK
<1>3. /\ s \in strings' /\ strings \subseteq strings' /\ strings' \subseteq Str /\ Live \subseteq Live'
      /\ mark' \in [Value -> 0 .. PassSpace - 1]
  BY <1>1, <1>2 DEF FindOrAddString, Live
<1>4. \A v \in Value : mark'[v] = mark[v] \/ mark'[v] = 0
  BY <1>1, <1>2 DEF FindOrAddString
<1>5. MarksInPast'
  BY <1>2, <1>3, <1>4 DEF IInv, MarksInPast
<1> QED BY <1>3, <1>5

LEMMA PushStringKeeps ==
  ASSUME IInv, NEW s \in Str, PushString(s) \/ AddLiteral(s)
  PROVE  IInv'
<1> USE DEF PushString, AddLiteral, Running, handleVars, programVars
<1>1. /\ UNCHANGED <<objects, fields, statics, coroutines, parent, current, handleVars, pass, open, phase>>
      /\ phase = "run" /\ current \in Context /\ FindOrAddString(s)
      /\ s \in Value
  BY DEF IInv, TypeOK, Value
<1>2. /\ s \in strings' /\ strings \subseteq strings' /\ strings' \subseteq Str /\ Live \subseteq Live'
      /\ mark' \in [Value -> 0 .. PassSpace - 1]
      /\ MarksInPast'
  BY <1>1, FindOrAddKeeps
<1>3. dontGC' \subseteq dontGC \cup {s} /\ dontGC \subseteq strings
  BY <1>1 DEF IInv, HeapClosed
<1>4. stack' \in [Context -> SUBSET Value] /\ \A c \in Context : stack'[c] \subseteq stack[c] \cup {s}
  BY <1>1 DEF IInv, TypeOK
<1>5. TypeOK'
  BY <1>1, <1>2, <1>3, <1>4 DEF IInv, TypeOK
<1>6. HandleListExact' /\ TriColour' /\ OneChain' /\ TalliesAgree' /\ Held' = Held
  BY <1>1, MovesKeep
<1>7. HeapClosed'
  <2>1. \A c \in coroutines \cup {Root} : c \in Context
    BY DEF IInv, TypeOK, Context
  <2>2. s \in Live'
    BY <1>2 DEF Live
  <2> HIDE DEF PushString, AddLiteral
  <2> QED BY <1>1, <1>2, <1>3, <1>4, <1>6, <2>1, <2>2 DEF IInv, HeapClosed
<1> QED BY <1>2, <1>5, <1>6, <1>7 DEF IInv

LEMMA StaticPokeKeeps ==
  ASSUME IInv, NEW v \in Value, StaticPoke(v)
  PROVE  IInv'
<1> USE DEF StaticPoke, Running, heapVars, handleVars, gcVars
<1>1. v \in Live
  BY InReach DEF IInv
<1>2. statics' \subseteq statics \cup {v}
  OBVIOUS
<1>3. TypeOK'
  BY <1>2 DEF IInv, TypeOK
<1>4. HandleListExact' /\ TriColour' /\ OneChain' /\ TalliesAgree' /\ Held' = Held
  BY MovesKeep
<1>5. Live' = Live /\ MarksInPast'
  BY DEF IInv, MarksInPast, Live
<1>6. HeapClosed'
  BY <1>1, <1>2, <1>4, <1>5 DEF IInv, HeapClosed
<1> QED BY <1>3, <1>4, <1>5, <1>6 DEF IInv

LEMMA ObjectFieldSetKeeps ==
  ASSUME IInv, NEW o \in Obj, NEW v \in Value, ObjectFieldSet(o, v)
  PROVE  IInv'
<1> USE DEF ObjectFieldSet, Running, heapVars, handleVars, gcVars
<1>1. v \in Live
  BY InReach DEF IInv
<1>2. fields' \in [Obj -> SUBSET Value] /\ \A q \in Obj : fields'[q] \subseteq fields[q] \cup {v}
  BY DEF IInv, TypeOK
<1>3. TypeOK'
  BY <1>2 DEF IInv, TypeOK
<1>4. HandleListExact' /\ TriColour' /\ OneChain' /\ TalliesAgree' /\ Held' = Held
  BY MovesKeep
<1>5. Live' = Live /\ MarksInPast'
  BY DEF IInv, MarksInPast, Live
<1>6. HeapClosed'
  BY <1>1, <1>2, <1>4, <1>5 DEF IInv, TypeOK, HeapClosed
<1> QED BY <1>3, <1>4, <1>5, <1>6 DEF IInv

(* A new object is empty, has no mark and no handle, and nobody knew it.   *)
LEMMA NewObjectKeeps ==
  ASSUME IInv, phase = "run", NEW o \in Obj, NewObject(o),
         UNCHANGED <<strings, handles, pass, open, phase>>
  PROVE  /\ Live' = Live \cup {o} /\ objects' = objects \cup {o} /\ objects' \subseteq Obj
         /\ Held' = Held /\ o \notin Held /\ o \notin coroutines
         /\ fields' \in [Obj -> SUBSET Value] /\ \A q \in objects' : fields'[q] \subseteq Live
         /\ count' \in [Obj -> 0 .. HandleSpace - 1] /\ owned' \in [Obj -> Nat]
         /\ mark' \in [Value -> 0 .. PassSpace - 1]
         /\ HandleListExact' /\ TriColour' /\ TalliesAgree' /\ MarksInPast'
<1>1. 0 \in 0 .. PassSpace - 1 /\ 0 \in 0 .. HandleSpace - 1 /\ o \in Value
  BY HeapAssumption DEF Value
<1>2. TypeOK /\ o \notin objects /\ Held \subseteq objects /\ coroutines \subseteq objects
  BY DEF IInv, HeapClosed, NewObject, OneChain
<1>3. /\ Live' = Live \cup {o} /\ objects' = objects \cup {o} /\ objects' \subseteq Obj
      /\ fields' = [fields EXCEPT ![o] = {}] /\ count' = [count EXCEPT ![o] = 0]
      /\ owned' = [owned EXCEPT ![o] = 0] /\ mark' = [mark EXCEPT ![o] = 0]
  BY <1>2 DEF NewObject, Live, TypeOK
<1>4. Held' = Held /\ o \notin Held /\ o \notin coroutines
  BY <1>2, <1>3 DEF Held, TypeOK
<1>5. fields' \in [Obj -> SUBSET Value] /\ \A q \in objects' : fields'[q] \subseteq Live
  BY <1>2, <1>3 DEF IInv, TypeOK, HeapClosed
<1>6. /\ count' \in [Obj -> 0 .. HandleSpace - 1] /\ owned' \in [Obj -> Nat]
      /\ mark' \in [Value -> 0 .. PassSpace - 1]
  BY <1>1, <1>2, <1>3 DEF TypeOK
<1>7. HandleListExact' /\ TriColour' /\ TalliesAgree'
  BY <1>2, <1>3, <1>4 DEF IInv, HandleListExact, TriColour, TalliesAgree, TypeOK
<1>8. MarksInPast'
  <2>1. \A v \in Value : mark'[v] = mark[v] \/ mark'[v] = 0
    BY <1>2, <1>3 DEF TypeOK
  <2>2. pass \in 0 .. PassSpace - 1 /\ phase = "run"
    BY <1>2 DEF TypeOK
  <2>3. \A v \in Value \ Live' : mark'[v] = 0
    BY <1>2, <1>3, <2>1 DEF IInv, MarksInPast
  <2> QED BY <2>1, <2>2, <2>3 DEF IInv, MarksInPast
<1> QED BY <1>3, <1>4, <1>5, <1>6, <1>7, <1>8

LEMMA CreateKeeps ==
  ASSUME IInv, NEW o \in Obj, CreateObject(o) \/ HostCreateObject(o)
  PROVE  IInv'
<1> USE DEF CreateObject, HostCreateObject, Running
<1>1. /\ UNCHANGED <<strings, dontGC, statics, parent, current, handles, pass, open, phase>>
      /\ phase = "run" /\ NewObject(o) /\ coroutines' = coroutines \ {o}
      /\ current \in Context /\ o \in Value
  BY DEF IInv, TypeOK, Value
<1>2. /\ Live' = Live \cup {o} /\ objects' = objects \cup {o} /\ objects' \subseteq Obj
      /\ Held' = Held /\ o \notin Held /\ o \notin coroutines
      /\ fields' \in [Obj -> SUBSET Value] /\ \A q \in objects' : fields'[q] \subseteq Live
      /\ count' \in [Obj -> 0 .. HandleSpace - 1] /\ owned' \in [Obj -> Nat]
      /\ mark' \in [Value -> 0 .. PassSpace - 1]
      /\ HandleListExact' /\ TriColour' /\ TalliesAgree' /\ MarksInPast'
  BY <1>1, NewObjectKeeps
<1>3. stack' \in [Context -> SUBSET Value] /\ \A c \in Context : stack'[c] \subseteq stack[c] \cup {o}
  BY <1>1 DEF IInv, TypeOK
<1> HIDE DEF CreateObject, HostCreateObject
<1>5. TypeOK'
  BY <1>1, <1>2, <1>3 DEF IInv, TypeOK
<1>6. coroutines' = coroutines /\ OneChain'
  BY <1>1, <1>2 DEF IInv, OneChain, Active
<1>7. HeapClosed'
  <2>1. \A c \in coroutines \cup {Root} : c \in Context
    BY DEF IInv, TypeOK, Context
  <2> QED BY <1>1, <1>2, <1>3, <1>6, <2>1 DEF IInv, HeapClosed
<1> QED BY <1>2, <1>5, <1>6, <1>7 DEF IInv

LEMMA PoppedBound ==
  ASSUME NEW S, NEW A, NEW B, NEW T \in Popped(S, A, B)
  PROVE  T \subseteq S \cup B
BY DEF Popped

LEMMA CoroutineCreateKeeps ==
  ASSUME IInv, NEW o \in Obj, CoroutineCreate(o)
  PROVE  IInv'
<1>1. /\ UNCHANGED <<strings, dontGC, statics, current, handles, pass, open, phase>>
      /\ phase = "run" /\ NewObject(o) /\ coroutines' = coroutines \cup {o}
      /\ parent' = [parent EXCEPT ![o] = None]
      /\ current \in Context /\ o \in Value /\ o \in Context
  BY DEF CoroutineCreate, Running, IInv, TypeOK, Value, Context
<1>2. /\ Live' = Live \cup {o} /\ objects' = objects \cup {o} /\ objects' \subseteq Obj
      /\ Held' = Held /\ o \notin Held /\ o \notin coroutines
      /\ fields' \in [Obj -> SUBSET Value] /\ \A q \in objects' : fields'[q] \subseteq Live
      /\ count' \in [Obj -> 0 .. HandleSpace - 1] /\ owned' \in [Obj -> Nat]
      /\ mark' \in [Value -> 0 .. PassSpace - 1]
      /\ HandleListExact' /\ TriColour' /\ TalliesAgree' /\ MarksInPast'
  BY <1>1, NewObjectKeeps
<1>args. PICK args \in SUBSET stack[current] :
           \E rest \in Popped(stack[current], args, {o}) :
             stack' = [stack EXCEPT ![current] = rest, ![o] = args]
  BY DEF CoroutineCreate
<1>3. PICK rest \in Popped(stack[current], args, {o}) :
        stack' = [stack EXCEPT ![current] = rest, ![o] = args]
  BY <1>args
<1>4. rest \subseteq stack[current] \cup {o} /\ stack \in [Context -> SUBSET Value]
  BY <1>3, PoppedBound DEF IInv, TypeOK
<1>5. /\ stack' \in [Context -> SUBSET Value]
      /\ \A c \in Context : stack'[c] \subseteq stack[c] \cup stack[current] \cup {o}
      /\ stack'[o] \subseteq stack[current]
  BY <1>1, <1>3, <1>4
<1>6. parent' = parent
  <2>1. o \notin Active
    BY <1>2 DEF IInv, OneChain
  <2> QED BY <1>1, <2>1 DEF Active, IInv, TypeOK
<1>7. TypeOK'
  BY <1>1, <1>2, <1>5, <1>6 DEF IInv, TypeOK
<1>8. OneChain'
  BY <1>1, <1>2, <1>6 DEF IInv, OneChain, Active
<1>9. HeapClosed'
  <2>1. stack[current] \subseteq Live
    BY <1>1, InReach DEF IInv
  <2>2. \A c \in coroutines \cup {Root} : c \in Context
    BY DEF IInv, TypeOK, Context
  <2> QED BY <1>1, <1>2, <1>5, <2>1, <2>2 DEF IInv, HeapClosed
<1> QED BY <1>2, <1>7, <1>8, <1>9 DEF IInv

LEMMA ResumeKeeps ==
  ASSUME IInv, NEW c \in Obj, NEW V \in SUBSET Value, CoroutineResume(c, V)
  PROVE  IInv'
<1> USE DEF CoroutineResume, Inactive, Running, heapVars, handleVars, gcVars
<1>1. /\ UNCHANGED <<heapVars, fields, statics, coroutines, handleVars, gcVars>>
      /\ phase = "run" /\ parent' = [parent EXCEPT ![c] = current] /\ current' = c
      /\ parent[c] = None /\ c \in coroutines /\ V \subseteq stack[current]
      /\ current \in Context /\ c \in Context /\ TypeOK
  BY DEF IInv, TypeOK, Context
<1>2. PICK rest \in Popped(stack[current], V \cup {c}, {}), got \in Popped(stack[c], {}, V) :
        stack' = [stack EXCEPT ![current] = rest, ![c] = got]
  OBVIOUS
<1> HIDE DEF CoroutineResume
<1>3. rest \subseteq stack[current] /\ got \subseteq stack[c] \cup V /\ stack \in [Context -> SUBSET Value]
  BY <1>1, <1>2, PoppedBound DEF TypeOK
<1>4. /\ stack' \in [Context -> SUBSET Value]
      /\ \A d \in Context : stack'[d] \subseteq stack[d] \cup stack[current]
  BY <1>1, <1>2, <1>3
<1>5. TypeOK'
  BY <1>1, <1>4 DEF TypeOK
<1>6. Held' = Held /\ Live' = Live
  BY <1>1 DEF Held, Live
<1>7. HandleListExact' /\ TriColour' /\ TalliesAgree' /\ MarksInPast'
  BY <1>1, <1>6 DEF IInv, HandleListExact, TriColour, TalliesAgree, MarksInPast
<1>8. HeapClosed'
  <2>1. stack[current] \subseteq Live
    BY <1>1, InReach DEF IInv
  <2>2. \A d \in coroutines \cup {Root} : d \in Context
    BY <1>1 DEF TypeOK, Context
  <2> QED BY <1>1, <1>4, <1>6, <2>1, <2>2 DEF IInv, HeapClosed
<1>9. OneChain'
  <2>1. Chain(parent, current) /\ Active = ActiveIn(parent) /\ Active \subseteq coroutines
    BY <1>1, ChainHolds DEF IInv
  <2>2. Chain(parent', current')
    BY <1>1, <2>1, ResumeExtendsChain DEF TypeOK
  <2>3. Active' = ActiveIn(parent') /\ Active' \subseteq Active \cup {c}
    BY <1>1 DEF Active, ActiveIn, TypeOK
  <2>4. coroutines' \subseteq objects' /\ Active' \subseteq coroutines'
    BY <1>1, <2>1, <2>3 DEF IInv, OneChain
  <2> QED BY <2>2, <2>3, <2>4 DEF OneChain, Chain
<1> QED BY <1>5, <1>7, <1>8, <1>9 DEF IInv

LEMMA ReturnKeeps ==
  ASSUME IInv, NEW V \in SUBSET Value, PopExecutionContext(V)
  PROVE  IInv'
<1> USE DEF PopExecutionContext, Running, heapVars, handleVars, gcVars
<1>1. /\ UNCHANGED <<heapVars, fields, statics, coroutines, handleVars, gcVars>>
      /\ phase = "run" /\ current # Root /\ parent' = [parent EXCEPT ![current] = None]
      /\ current' = parent[current] /\ V \subseteq stack[current] /\ TypeOK
  BY DEF IInv
<1>2. current \in Obj /\ parent[current] \in coroutines \cup {Root}
  BY <1>1, ChainHolds DEF IInv
<1>3. PICK rest \in Popped(stack[current], V, {}) \cup {{}},
           got \in Popped(stack[parent[current]], {}, V) :
        stack' = [stack EXCEPT ![current] = rest, ![parent[current]] = got]
  OBVIOUS
<1> HIDE DEF PopExecutionContext
<1>4. /\ rest \subseteq stack[current] /\ got \subseteq stack[parent[current]] \cup V
      /\ stack \in [Context -> SUBSET Value] /\ parent[current] \in Context /\ current \in Context
  BY <1>1, <1>2, <1>3, PoppedBound DEF TypeOK, Context
<1>5. /\ stack' \in [Context -> SUBSET Value]
      /\ \A d \in Context : stack'[d] \subseteq stack[d] \cup stack[current]
  BY <1>1, <1>3, <1>4
<1>6. TypeOK'
  BY <1>1, <1>4, <1>5 DEF TypeOK
<1>7. Held' = Held /\ Live' = Live
  BY <1>1 DEF Held, Live
<1>8. HandleListExact' /\ TriColour' /\ TalliesAgree' /\ MarksInPast'
  BY <1>1, <1>7 DEF IInv, HandleListExact, TriColour, TalliesAgree, MarksInPast
<1>9. HeapClosed'
  <2>1. stack[current] \subseteq Live
    BY <1>1, InReach DEF IInv
  <2>2. \A d \in coroutines \cup {Root} : d \in Context
    BY <1>1 DEF TypeOK, Context
  <2> QED BY <1>1, <1>5, <1>7, <2>1, <2>2 DEF IInv, HeapClosed
<1>10. OneChain'
  <2>1. Chain(parent, current) /\ Active = ActiveIn(parent) /\ Active \subseteq coroutines
    BY <1>1, ChainHolds DEF IInv
  <2>2. Chain(parent', current')
    BY <1>1, <1>2, <2>1, ReturnShortensChain DEF TypeOK
  <2>3. Active' = ActiveIn(parent') /\ Active' \subseteq Active
    BY <1>1, <1>2 DEF Active, ActiveIn, TypeOK
  <2>4. coroutines' \subseteq objects' /\ Active' \subseteq coroutines'
    BY <1>1, <2>1, <2>3 DEF IInv, OneChain
  <2> QED BY <2>2, <2>3, <2>4 DEF OneChain, Chain
<1> QED BY <1>6, <1>8, <1>9, <1>10 DEF IInv

(***************************************************************************)
(* The host's steps.                                                       *)
(***************************************************************************)
LEMMA NextCountIs ==
  ASSUME TypeOK, NEW o \in Obj
  PROVE  /\ count[o] + 1 < HandleSpace => NextCount(o) = count[o] + 1
         /\ count[o] + 1 = HandleSpace => NextCount(o) = 0
         /\ count[o] + 1 <= HandleSpace /\ count[o] \in Nat
<1>1. HandleSpace \in Nat \ {0} /\ count[o] \in 0 .. HandleSpace - 1
  BY HeapAssumption DEF TypeOK
<1>2. count[o] + 1 < HandleSpace => count[o] + 1 \in 0 .. HandleSpace - 1
  BY <1>1
<1> QED BY <1>1, <1>2, Modulo DEF NextCount

LEMMA AcquireKeeps ==
  ASSUME IInv, NEW o \in Obj, AcquireHandle(o)
  PROVE  IInv'
<1>1. /\ UNCHANGED <<heapVars, programVars, gcVars>> /\ TypeOK
      /\ phase = "run" /\ o \in objects /\ owned[o] < OwnBound
      /\ owned' = [owned EXCEPT ![o] = owned[o] + 1]
  BY DEF AcquireHandle, IInv
<1>2. /\ HandleSpace \in Nat /\ HandleSpace > 1 /\ OwnBound \in Nat
      /\ count \in [Obj -> 0 .. HandleSpace - 1] /\ owned \in [Obj -> Nat]
  BY <1>1, HeapAssumption DEF TypeOK
(* The count never gets lower, and it is 0 only if it was. *)
<1>3. PICK n \in 1 .. HandleSpace - 1 :
        /\ count' = [count EXCEPT ![o] = n]
        /\ handles' = handles \cup {o}
        /\ owned[o] = count[o] /\ OwnBound < HandleSpace => n = owned[o] + 1
  <2>1. CASE /\ NextCount(o) > 1
             /\ count' = [count EXCEPT ![o] = NextCount(o)]
             /\ UNCHANGED handles
    <3>1. NextCount(o) = count[o] + 1 /\ count[o] > 0 /\ NextCount(o) \in 1 .. HandleSpace - 1
      BY <2>1, <1>1, <1>2, NextCountIs
    <3>2. handles' = handles \cup {o}
      BY <2>1, <3>1 DEF IInv, HandleListExact, Held
    <3>3. count' = [count EXCEPT ![o] = NextCount(o)]
      BY <2>1
    <3> DEFINE next == NextCount(o)
    <3>4. /\ next \in 1 .. HandleSpace - 1 /\ count' = [count EXCEPT ![o] = next]
          /\ owned[o] = count[o] => next = owned[o] + 1
      BY <3>1, <3>3
    <3> HIDE DEF next
    <3> QED BY <3>2, <3>4
  <2>2. CASE /\ NextCount(o) = 1
             /\ count' = [count EXCEPT ![o] = 1]
             /\ handles' = handles \cup {o}
    <3>1. count[o] = 0 /\ 1 \in 1 .. HandleSpace - 1
      BY <2>2, <1>1, <1>2, NextCountIs
    <3> DEFINE next == 1
    <3>2. /\ next \in 1 .. HandleSpace - 1 /\ count' = [count EXCEPT ![o] = next]
          /\ owned[o] = count[o] => next = owned[o] + 1
      BY <2>2, <3>1
    <3> HIDE DEF next
    <3> QED BY <2>2, <3>2
  <2>3. CASE /\ NextCount(o) = 0
             /\ count' = [count EXCEPT ![o] = HandleSpace - 1]
             /\ UNCHANGED handles
    <3>1. count[o] + 1 = HandleSpace /\ HandleSpace - 1 \in 1 .. HandleSpace - 1
      BY <2>3, <1>1, <1>2, NextCountIs
    <3>2. o \in handles
      BY <3>1, <1>2 DEF IInv, HandleListExact, Held
    <3>3. ~ (owned[o] = count[o] /\ OwnBound < HandleSpace)
      BY <3>1, <1>1, <1>2
    <3> QED BY <2>3, <3>1, <3>2, <3>3
  <2> QED BY <2>1, <2>2, <2>3 DEF AcquireHandle
<1>4. Held' = Held \cup {o} /\ HandleListExact'
  BY <1>2, <1>3 DEF Held, IInv, HandleListExact
<1>5. TalliesAgree'
  BY <1>1, <1>2, <1>3 DEF IInv, TalliesAgree
<1>7. TypeOK'
  BY <1>1, <1>2, <1>3 DEF TypeOK, heapVars, programVars, gcVars
<1>8. OneChain' /\ MarksInPast' /\ TriColour'
  BY <1>1 DEF IInv, OneChain, Active, MarksInPast, Live, TriColour, heapVars, programVars, gcVars
<1>9. HeapClosed'
  BY <1>1, <1>4 DEF IInv, HeapClosed, Live, heapVars, programVars, gcVars
<1> QED BY <1>4, <1>5, <1>7, <1>8, <1>9 DEF IInv

(* Releasing a handle there is. *)
LEMMA ReleaseIs ==
  ASSUME IInv, NEW o \in Obj, count[o] > 0, Release(o)
  PROVE  /\ count' = [count EXCEPT ![o] = count[o] - 1]
         /\ count' \in [Obj -> 0 .. HandleSpace - 1] /\ owned' \in [Obj -> Nat]
         /\ handles' = Held' /\ Held' \subseteq Held
         /\ TalliesAgree'
<1>1. /\ HandleSpace \in Nat \ {0} /\ count \in [Obj -> 0 .. HandleSpace - 1]
      /\ owned \in [Obj -> Nat]
  BY HeapAssumption DEF IInv, TypeOK
<1>2. count[o] - 1 \in 0 .. HandleSpace - 1
  BY <1>1
<1>3. (count[o] - 1) % HandleSpace = count[o] - 1
  BY <1>1, <1>2, Modulo
<1>4. count' = [count EXCEPT ![o] = count[o] - 1]
  BY <1>3 DEF Release
<1>5. Held' = IF count'[o] = 0 THEN Held \ {o} ELSE Held
  BY <1>1, <1>2, <1>4 DEF Held
<1>6. handles' = Held' /\ Held' \subseteq Held
  BY <1>5 DEF Release, Unlinked, IInv, HandleListExact
<1>7. TalliesAgree' /\ owned' \in [Obj -> Nat]
  <2>1. owned' = [owned EXCEPT ![o] = IF owned[o] > 0 THEN owned[o] - 1 ELSE 0]
    BY DEF Release
  <2>2. owned = count => owned' = count'
    BY <2>1, <1>4
  <2>3. owned' \in [Obj -> Nat]
    BY <1>1, <2>1
  <2> QED BY <2>2, <2>3 DEF TalliesAgree, IInv
<1>9. count' \in [Obj -> 0 .. HandleSpace - 1]
  BY <1>1, <1>2, <1>4
<1> QED BY <1>4, <1>6, <1>7, <1>9

LEMMA ReleaseKeeps ==
  ASSUME Legal, IInv, NEW o \in Obj, ReleaseHandle(o)
  PROVE  IInv'
<1>1. /\ UNCHANGED <<heapVars, programVars, gcVars>> /\ phase = "run" /\ count[o] > 0 /\ Release(o)
  BY DEF ReleaseHandle, Legal
<1>2. /\ count' \in [Obj -> 0 .. HandleSpace - 1] /\ owned' \in [Obj -> Nat]
      /\ handles' = Held' /\ Held' \subseteq Held
      /\ TalliesAgree'
  BY <1>1, ReleaseIs
<1>3. handles' \subseteq Obj
  BY <1>2 DEF Held
<1>4. TypeOK'
  BY <1>1, <1>2, <1>3 DEF IInv, TypeOK, heapVars, programVars, gcVars
<1>5. OneChain' /\ MarksInPast' /\ TriColour'
  BY <1>1 DEF IInv, OneChain, Active, MarksInPast, Live, TriColour, heapVars, programVars, gcVars
<1>6. HeapClosed'
  BY <1>1, <1>2 DEF IInv, HeapClosed, Live, heapVars, programVars, gcVars
<1> QED BY <1>2, <1>4, <1>5, <1>6 DEF IInv, HandleListExact

(* Resetting the contexts from the current one up leaves none active.      *)
LEMMA ClearKeeps ==
  ASSUME IInv, ClearReplErrorState
  PROVE  IInv'
<1>1. /\ UNCHANGED <<heapVars, fields, statics, coroutines, handleVars, gcVars>>
      /\ phase = "run" /\ current' = Root /\ TypeOK /\ None \notin Context
      /\ stack' = [c \in Context |-> IF c \in WaitingContexts THEN {} ELSE stack[c]]
      /\ parent' = [o \in Obj |-> IF o \in WaitingContexts THEN None ELSE parent[o]]
      /\ Root \in Context /\ Root \notin Obj
  BY HeapAssumption DEF ClearReplErrorState, IInv, Context, Value
<1>2. Active \subseteq WaitingContexts
  <2>1. ASSUME NEW S \in SUBSET Context, current \in S,
               \A o \in S \cap Obj : parent[o] \in S \cup {None}
        PROVE  Active \subseteq S
    BY <2>1 DEF IInv, OneChain, Active
  <2> QED BY <2>1 DEF WaitingContexts, Active, Context
<1>3. parent' \in [Obj -> Context \cup {None}] /\ Active' = {}
  BY <1>1, <1>2 DEF Active, TypeOK
<1>4. /\ stack' \in [Context -> SUBSET Value]
      /\ \A c \in Context : stack'[c] \subseteq stack[c]
  BY <1>1 DEF TypeOK
<1>5. TypeOK'
  BY <1>1, <1>3, <1>4 DEF TypeOK, heapVars, handleVars, gcVars
<1>6. Held' = Held /\ Live' = Live
  BY <1>1 DEF Held, Live, heapVars, handleVars
<1>7. HandleListExact' /\ TriColour' /\ TalliesAgree' /\ MarksInPast'
  BY <1>1, <1>6 DEF IInv, HandleListExact, TriColour, TalliesAgree, MarksInPast, handleVars, gcVars
<1>8. HeapClosed'
  <2>1. \A c \in coroutines \cup {Root} : c \in Context
    BY <1>1 DEF TypeOK, Context
  <2> QED BY <1>1, <1>4, <1>6, <2>1 DEF IInv, HeapClosed, heapVars, gcVars
<1>9. OneChain'
  BY <1>1, <1>3 DEF OneChain, IInv, heapVars
<1> QED BY <1>5, <1>7, <1>8, <1>9 DEF IInv

(***************************************************************************)
(* The collector's steps.                                                  *)
(***************************************************************************)
(* What is found from objects in A is what they refer to. *)
LEMMA FoundIs ==
  ASSUME NEW A, NEW B, NEW p, NEW S
  PROVE  /\ B \subseteq Found(A, B, p)
         /\ \A o \in A : o \notin Marked(p) => References(o) \subseteq Found(A, B, p)
         /\ B \subseteq S /\ (\A o \in A : References(o) \subseteq S) => Found(A, B, p) \subseteq S
<1> DEFINE U == {References(o) : o \in A \ Marked(p)}
<1>1. \A o \in A : o \notin Marked(p) => References(o) \in U
  OBVIOUS
<1>2. \A o \in A : o \notin Marked(p) => References(o) \subseteq UNION U
  BY <1>1
<1>3. (\A o \in A : References(o) \subseteq S) => UNION U \subseteq S
  OBVIOUS
<1> QED BY <1>2, <1>3 DEF Found

LEMMA FoundInValue ==
  ASSUME TypeOK, NEW A \in SUBSET Obj, NEW B \in SUBSET Value, NEW p
  PROVE  Found(A, B, p) \subseteq Value
<1>1. \A o \in A : References(o) \subseteq Value
  BY FollowsIsReferences
<1> QED BY <1>1, FoundIs

(* Nothing but marks and the open list changes while the collector marks.  *)
LEMMA MarkingKeeps ==
  ASSUME IInv, phase \in {"run", "mark"}, phase' = "mark",
         UNCHANGED <<heapVars, programVars, handleVars>>
  PROVE  /\ HandleListExact' /\ OneChain' /\ TalliesAgree' /\ HeapClosed'
         /\ Live' = Live /\ Held' = Held /\ Roots' = Roots
         /\ \A o \in Obj : References(o)' = References(o)
         /\ \A S \in SUBSET Value : Closed(S)' <=> Closed(S)
<1> USE DEF heapVars, programVars, handleVars
<1>1. Live' = Live /\ Held' = Held /\ Roots' = Roots
  BY DEF Live, Held, Roots
<1>2. HandleListExact' /\ OneChain' /\ TalliesAgree'
  BY <1>1 DEF IInv, HandleListExact, OneChain, Active, TalliesAgree
<1>3. HeapClosed'
  BY <1>1 DEF IInv, HeapClosed
<1>4. \A o \in Obj : References(o)' = References(o) /\ Follows(o)' = Follows(o)
  BY DEF References, Follows
<1>5. \A S \in SUBSET Value : Closed(S)' <=> Closed(S)
  BY <1>4 DEF Closed
<1> QED BY <1>1, <1>2, <1>3, <1>4, <1>5

LEMMA GcBeginKeeps ==
  ASSUME Legal, IInv, GcBegin
  PROVE  IInv'
<1> DEFINE found == Found(handles, RootReferences, pass')
<1>1. /\ UNCHANGED <<heapVars, programVars, handleVars>>
      /\ phase = "run" /\ phase' = "mark" /\ MarkAll(handles, RootReferences, pass')
      /\ pass' = (pass + 1) % PassSpace /\ pass' # 0
      /\ TypeOK /\ HeapClosed /\ OneChain /\ open = {}
  BY DEF GcBegin, NextPass, Legal, IInv, TriColour
<1>2. pass' = pass + 1 /\ pass' \in 0 .. PassSpace - 1 /\ pass \in 0 .. PassSpace - 1
  <2>1. PassSpace \in Nat \ {0} /\ pass \in 0 .. PassSpace - 1
    BY <1>1, HeapAssumption DEF TypeOK
  <2>2. CASE pass + 1 = PassSpace
    BY <1>1, <2>1, <2>2, Modulo
  <2>3. CASE pass + 1 # PassSpace
    <3>1. pass + 1 \in 0 .. PassSpace - 1
      BY <2>1, <2>3
    <3> QED BY <1>1, <2>1, <3>1, Modulo
  <2> QED BY <2>2, <2>3
<1>3. /\ HandleListExact' /\ OneChain' /\ TalliesAgree' /\ HeapClosed'
      /\ Live' = Live /\ Held' = Held /\ Roots' = Roots
      /\ \A o \in Obj : References(o)' = References(o)
      /\ \A S \in SUBSET Value : Closed(S)' <=> Closed(S)
  BY <1>1, MarkingKeeps
<1>4. Marked(pass') = {}
  BY <1>2 DEF Marked, IInv, MarksInPast, TypeOK
<1>5. /\ handles = Held /\ handles \subseteq objects /\ handles \subseteq Obj
      /\ Roots = RootReferences \cup handles /\ RootReferences \subseteq Value
  BY <1>1 DEF IInv, HandleListExact, HeapClosed, Held, Roots, RootReferences, TypeOK, Context, Value
<1>6. /\ found \subseteq Value
      /\ Marked(pass)' = handles \cup (found \cap Str)
      /\ open' = (found \cap Obj) \ Marked(pass)'
      /\ mark' \in [Value -> 0 .. PassSpace - 1]
      /\ \A v \in Value : mark'[v] = mark[v] \/ (mark'[v] = pass' /\ v \in handles \cup found)
  <2>1. /\ found \in SUBSET Value /\ handles \in SUBSET Obj /\ Marked(pass)' \in SUBSET Value
        /\ \A v \in Value : v \in Marked(pass)' <=> mark'[v] = pass'
    BY <1>1, <1>5, FoundInValue DEF Marked
  <2>2. /\ mark' = [v \in Value |-> IF v \in handles \cup (found \cap Str) THEN pass' ELSE mark[v]]
        /\ open' = Waiting(handles, found, mark', pass')
    BY <1>1 DEF MarkAll
  <2>3. /\ \A v \in Value :
             mark'[v] = IF v \in handles \cup (found \cap Str) THEN pass' ELSE mark[v]
        /\ mark' \in [Value -> 0 .. PassSpace - 1]
    BY <2>2, <1>1, <1>2 DEF TypeOK
  <2> HIDE DEF found
  <2>4. /\ Marked(pass)' = Marked(pass') \cup handles \cup (found \cap Str)
        /\ open' = (open \ handles) \cup ((found \cap Obj) \ Marked(pass)')
        /\ \A v \in Value : mark'[v] = mark[v] \/ (mark'[v] = pass' /\ v \in handles \cup found)
    <3>1. Obj \subseteq Value /\ Str \subseteq Value
      BY DEF Value
    <3>2. Marked(pass)' = Marked(pass') \cup handles \cup (found \cap Str)
      BY <2>1, <2>3, <3>1 DEF Marked
    <3>3. open' = (open \ handles) \cup ((found \cap Obj) \ Marked(pass)')
      BY <2>1, <2>2, <3>1 DEF Waiting
    <3> QED BY <2>3, <3>2, <3>3
  <2> QED BY <1>1, <1>4, <2>1, <2>3, <2>4
<1>7. RootReferences \subseteq found /\ \A o \in handles : References(o) \subseteq found
  BY <1>4, FoundIs
<1>8. ASSUME NEW S, Roots \subseteq S, \A o \in handles : References(o) \subseteq S
      PROVE  found \subseteq S
  BY <1>5, <1>8, FoundIs
<1> HIDE DEF found
<1>9. Grey' = handles \cup found
  BY <1>6 DEF Grey, Value
<1>10. found \subseteq Live
  BY <1>1, <1>5, <1>8, InReach
<1>11. TypeOK'
  BY <1>1, <1>2, <1>6 DEF TypeOK, heapVars, programVars, handleVars
<1>12. MarksInPast'
  <2>1. \A v \in Value : mark'[v] <= pass'
    BY <1>2, <1>6, <1>1 DEF IInv, MarksInPast, TypeOK
  <2>2. handles \subseteq Live
    BY <1>5 DEF Live
  <2>3. \A v \in Value \ Live' : mark'[v] = 0
    BY <1>3, <1>6, <1>10, <2>2 DEF IInv, MarksInPast
  <2> QED BY <1>1, <1>2, <2>1, <2>3 DEF MarksInPast
<1>13. TriColour'
  <2>1. open' \subseteq objects'
    <3>1. found \cap Obj \subseteq objects
      BY <1>10, <1>1, InReach
    <3> QED BY <3>1, <1>6, <1>1 DEF heapVars
  <2>2. Roots' \subseteq Grey'
    BY <1>3, <1>5, <1>7, <1>9
  <2>3. \A o \in Marked(pass)' \cap Obj : References(o)' \subseteq Grey'
    <3>1. Marked(pass)' \cap Obj \subseteq handles
      BY <1>6, HeapAssumption
    <3> QED BY <3>1, <1>3, <1>5, <1>7, <1>9
  <2>4. ASSUME NEW S \in SUBSET Value, Roots' \subseteq S, Closed(S)'
        PROVE  Grey' \subseteq S
    <3>1. Roots \subseteq S /\ Closed(S)
      BY <2>4, <1>3
    <3>2. \A o \in handles : References(o) \subseteq S
      BY <3>1, <1>1, <1>5, FollowsIsReferences DEF Closed
    <3> QED BY <3>1, <3>2, <1>5, <1>8, <1>9
  <2> QED BY <1>1, <2>1, <2>2, <2>3, <2>4 DEF TriColour
<1> QED BY <1>3, <1>11, <1>12, <1>13 DEF IInv

LEMMA GcMarkObjectKeeps ==
  ASSUME IInv, NEW o \in Obj, GcMarkObject(o)
  PROVE  IInv'
<1> DEFINE found == Found({o}, {}, pass)
<1>1. /\ UNCHANGED <<heapVars, programVars, handleVars>> /\ pass' = pass
      /\ phase = "mark" /\ phase' = "mark" /\ o \in open /\ MarkAll({o}, {}, pass)
      /\ TypeOK /\ HeapClosed /\ OneChain /\ TriColour /\ pass \in 0 .. PassSpace - 1
  BY DEF GcMarkObject, IInv, TypeOK
<1>2. /\ HandleListExact' /\ OneChain' /\ TalliesAgree' /\ HeapClosed'
      /\ Live' = Live /\ Held' = Held /\ Roots' = Roots
      /\ \A q \in Obj : References(q)' = References(q)
      /\ \A S \in SUBSET Value : Closed(S)' <=> Closed(S)
  BY <1>1, MarkingKeeps
<1>3. /\ found \subseteq Value
      /\ Marked(pass)' = Marked(pass) \cup {o} \cup (found \cap Str)
      /\ open' = (open \ {o}) \cup ((found \cap Obj) \ Marked(pass)')
      /\ mark' \in [Value -> 0 .. PassSpace - 1]
      /\ \A v \in Value : mark'[v] = mark[v] \/ (mark'[v] = pass /\ v \in {o} \cup found)
  <2>1. /\ found \in SUBSET Value /\ {o} \in SUBSET Obj /\ Marked(pass)' \in SUBSET Value
        /\ \A v \in Value : v \in Marked(pass)' <=> mark'[v] = pass
    BY <1>1, FoundInValue DEF Marked
  <2>2. /\ mark' = [v \in Value |-> IF v \in {o} \cup (found \cap Str) THEN pass ELSE mark[v]]
        /\ open' = Waiting({o}, found, mark', pass)
    BY <1>1 DEF MarkAll
  <2>3. /\ \A v \in Value :
             mark'[v] = IF v \in {o} \cup (found \cap Str) THEN pass ELSE mark[v]
        /\ mark' \in [Value -> 0 .. PassSpace - 1]
    BY <2>2, <1>1 DEF TypeOK
  <2> HIDE DEF found
  <2>4. /\ Marked(pass)' = Marked(pass) \cup {o} \cup (found \cap Str)
        /\ open' = (open \ {o}) \cup ((found \cap Obj) \ Marked(pass)')
        /\ \A v \in Value : mark'[v] = mark[v] \/ (mark'[v] = pass /\ v \in {o} \cup found)
    <3>1. Obj \subseteq Value /\ Str \subseteq Value
      BY DEF Value
    <3>2. Marked(pass)' = Marked(pass) \cup {o} \cup (found \cap Str)
      BY <1>1, <2>1, <2>3, <3>1 DEF Marked
    <3>3. open' = (open \ {o}) \cup ((found \cap Obj) \ Marked(pass)')
      BY <2>1, <2>2, <3>1 DEF Waiting
    <3> QED BY <2>3, <3>2, <3>3
  <2> QED BY <2>1, <2>3, <2>4
<1>4. o \in objects /\ References(o) \subseteq Live
  BY <1>1, InReach DEF TriColour
<1>5. found \subseteq References(o) /\ (o \notin Marked(pass) => References(o) \subseteq found)
  BY FoundIs
<1> HIDE DEF found
<1>6. Grey' = Grey \cup found
  BY <1>1, <1>3 DEF Grey, Value
<1>7. TypeOK'
  BY <1>1, <1>3 DEF TypeOK, heapVars, programVars, handleVars
<1>8. MarksInPast'
  <2>1. \A v \in Value : mark'[v] <= pass
    BY <1>3, <1>1 DEF IInv, MarksInPast, TypeOK
  <2>2. {o} \cup found \subseteq Live
    BY <1>4, <1>5 DEF Live
  <2>3. \A v \in Value \ Live' : mark'[v] = 0
    BY <1>2, <1>3, <2>2 DEF IInv, MarksInPast
  <2> QED BY <1>1, <2>1, <2>3 DEF MarksInPast, IInv
<1>9. TriColour'
  <2>1. open' \subseteq objects'
    <3>1. found \cap Obj \subseteq objects
      BY <1>4, <1>5, <1>1, InReach
    <3> QED BY <3>1, <1>3, <1>1 DEF heapVars, TriColour
  <2>2. Roots' \subseteq Grey'
    BY <1>1, <1>2, <1>6 DEF TriColour
  <2>3. \A q \in Marked(pass)' \cap Obj : References(q)' \subseteq Grey'
    <3>1. Marked(pass)' \cap Obj \subseteq (Marked(pass) \cap Obj) \cup {o}
      BY <1>3, HeapAssumption
    <3>2. \A q \in Marked(pass) \cap Obj : References(q) \subseteq Grey
      BY <1>1 DEF TriColour
    <3>3. o \notin Marked(pass) => References(o) \subseteq Grey'
      BY <1>5, <1>6
    <3> QED BY <3>1, <3>2, <3>3, <1>2, <1>6
  <2>4. ASSUME NEW S \in SUBSET Value, Roots' \subseteq S, Closed(S)'
        PROVE  Grey' \subseteq S
    <3>1. Roots \subseteq S /\ Closed(S)
      BY <2>4, <1>2
    <3>2. Grey \subseteq S
      BY <3>1, <1>1 DEF TriColour
    <3>3. References(o) \subseteq S
      BY <3>1, <3>2, <1>1, FollowsIsReferences DEF Closed, Grey
    <3> QED BY <3>2, <3>3, <1>5, <1>6
  <2> QED BY <1>1, <2>1, <2>2, <2>3, <2>4 DEF TriColour
<1> QED BY <1>2, <1>7, <1>8, <1>9 DEF IInv

LEMMA GcSweepStringsKeeps ==
  ASSUME IInv, GcSweepStrings
  PROVE  IInv'
<1>1. /\ UNCHANGED <<objects, dontGC, programVars, handleVars, pass, open>>
      /\ phase = "mark" /\ phase' = "sweep" /\ open = {}
      /\ strings' = {s \in strings : mark[s] = pass \/ s \in dontGC}
      /\ mark' = [v \in Value |-> IF v \in strings \ strings' THEN 0 ELSE mark[v]]
      /\ TypeOK /\ HeapClosed /\ TriColour /\ MarksInPast /\ pass > 0
      /\ pass \in 0 .. PassSpace - 1 /\ 0 \in 0 .. PassSpace - 1
  BY HeapAssumption DEF GcSweepStrings, IInv, MarksInPast, TypeOK
<1>2. /\ mark' \in [Value -> 0 .. PassSpace - 1]
      /\ \A v \in Value : mark'[v] = IF v \in strings \ strings' THEN 0 ELSE mark[v]
  BY <1>1 DEF TypeOK
<1>3. \A v \in Value : mark'[v] = pass <=> mark[v] = pass
  BY <1>1, <1>2
<1>4. Marked(pass)' = Marked(pass)
  BY <1>1, <1>3 DEF Marked
<1>5. Marked(pass) \subseteq Live'
  <2>1. ASSUME NEW v \in Value, mark[v] = pass PROVE v \in Live'
    <3>1. v \in Live
      BY <1>1, <2>1 DEF MarksInPast
    <3> QED BY <1>1, <2>1, <3>1 DEF Live
  <2> QED BY <2>1 DEF Marked
<1>6. TypeOK'
  BY <1>1, <1>2 DEF TypeOK, programVars, handleVars
<1>7. Held' = Held /\ Roots' = Roots /\ \A o \in Obj : References(o)' = References(o)
  BY <1>1 DEF Held, Roots, References, programVars, handleVars
<1>8. HandleListExact' /\ OneChain' /\ TalliesAgree' /\ TriColour'
  BY <1>1, <1>7 DEF IInv, HandleListExact, OneChain, Active, TalliesAgree, TriColour, programVars, handleVars
<1>9. MarksInPast'
  <2>1. \A v \in Value : mark'[v] <= pass
    BY <1>1, <1>2 DEF MarksInPast
  <2>2. \A v \in Value \ Live' : mark'[v] = 0
    BY <1>1, <1>2 DEF MarksInPast, Live
  <2> QED BY <1>1, <2>1, <2>2 DEF MarksInPast
<1>10. HeapClosed'
  <2>1. Grey = Marked(pass)
    BY <1>1 DEF Grey
  <2>2. Roots \subseteq Marked(pass) /\ \A o \in Marked(pass) \cap Obj : References(o) \subseteq Marked(pass)
    BY <1>1, <2>1 DEF TriColour
  <2>3. dontGC' \subseteq strings'
    BY <1>1 DEF HeapClosed
  <2> QED BY <1>1, <1>4, <1>5, <1>7, <2>2, <2>3 DEF HeapClosed
<1> QED BY <1>6, <1>8, <1>9, <1>10 DEF IInv

(* While the collector sweeps, no coroutine that waits or runs is without  *)
(* a mark: the chain starts at a root, and marks follow it.                *)
LEMMA ActiveAreMarked ==
  ASSUME IInv, phase = "sweep"
  PROVE  Active \subseteq Marked(pass)
<1> DEFINE S == (Marked(pass) \cap Obj) \cup {Root}
<1>1. TypeOK /\ OneChain /\ None \notin Context
  BY HeapAssumption DEF IInv, Context, Value
<1>2. /\ Roots \subseteq Marked(pass)
      /\ \A o \in Marked(pass) \cap Obj : References(o) \subseteq Marked(pass)
  BY DEF IInv, HeapClosed
<1>3. S \in SUBSET Context /\ current \in S
  BY <1>1, <1>2 DEF Roots, TypeOK, Context
<1>4. ASSUME NEW o \in S \cap Active PROVE parent[o] \in S
  <2>1. o \in Marked(pass) \cap Obj /\ o \in coroutines /\ parent[o] \in Context
    BY <1>1, HeapAssumption DEF Active, OneChain, TypeOK, Value
  <2>2. parent[o] \in Obj => parent[o] \in References(o)
    BY <2>1 DEF References
  <2> QED BY <1>2, <2>1, <2>2 DEF Context
<1>5. Active \subseteq S
  <2> HIDE DEF S
  <2> QED BY <1>1, <1>3, <1>4 DEF OneChain
<1> QED BY <1>5, HeapAssumption DEF Active, Value

LEMMA GcSweepObjectKeeps ==
  ASSUME IInv, NEW o \in Obj, GcSweepObject(o)
  PROVE  IInv'
<1>1. /\ UNCHANGED <<strings, dontGC, statics, current, pass, open, phase>>
      /\ phase = "sweep" /\ o \in objects /\ mark[o] # pass /\ o \in Context /\ o \in Value
      /\ objects' = objects \ {o} /\ coroutines' = coroutines \ {o}
      /\ fields' = [fields EXCEPT ![o] = {}] /\ mark' = [mark EXCEPT ![o] = 0]
      /\ TypeOK /\ MarksInPast /\ pass > 0
      /\ pass \in 0 .. PassSpace - 1 /\ 0 \in 0 .. PassSpace - 1
  BY HeapAssumption DEF GcSweepObject, IInv, MarksInPast, TypeOK, Context, Value
<1>2. /\ Roots \subseteq Marked(pass) /\ Marked(pass) \subseteq Live /\ dontGC \subseteq strings
      /\ \A q \in Marked(pass) \cap Obj : References(q) \subseteq Marked(pass)
  BY <1>1 DEF IInv, HeapClosed
<1>3. o \notin Marked(pass) /\ Marked(pass)' = Marked(pass)
  BY <1>1 DEF Marked, TypeOK
<1>4. o \notin Active /\ parent' = parent
  <2>1. o \notin Active
    BY <1>1, <1>3, ActiveAreMarked
  <2>2. parent[o] = None
    BY <2>1 DEF Active
  <2> QED BY <1>1, <2>1, <2>2 DEF GcSweepObject, TypeOK
<1>5. stack' \in [Context -> SUBSET Value] /\ \A c \in Context \ {o} : stack'[c] = stack[c]
  BY <1>1 DEF GcSweepObject, TypeOK
<1>6. /\ handles' = Held' /\ Held' \subseteq Held /\ TalliesAgree'
      /\ count' \in [Obj -> 0 .. HandleSpace - 1] /\ owned' \in [Obj -> Nat]
  <2>1. CASE UNCHANGED <<handleVars>>
    <3>1. Held' = Held
      BY <2>1 DEF Held, handleVars
    <3> QED BY <1>1, <2>1, <3>1 DEF IInv, TalliesAgree, HandleListExact, TypeOK, handleVars
  <2>2. CASE \E h \in handles : Release(h)
    <3>1. PICK h \in handles : Release(h)
      BY <2>2
    <3>2. h \in Obj /\ count[h] > 0
      BY <3>1 DEF IInv, HandleListExact, Held
    <3> QED BY <3>1, <3>2, ReleaseIs
  <2> QED BY <2>1, <2>2 DEF GcSweepObject
<1>7. TypeOK'
  BY <1>1, <1>4, <1>5, <1>6 DEF TypeOK, Held
<1>8. OneChain'
  BY <1>1, <1>4 DEF IInv, OneChain, Active
<1>9. MarksInPast'
  <2>1. \A v \in Value : mark'[v] = IF v = o THEN 0 ELSE mark[v]
    BY <1>1 DEF TypeOK
  <2>2. Value \ Live' \subseteq (Value \ Live) \cup {o}
    BY <1>1 DEF Live
  <2> QED BY <1>1, <2>1, <2>2 DEF MarksInPast
<1>10. HeapClosed'
  <2>1. Roots' \subseteq Roots
    <3>1. stack'[Root] = stack[Root]
      BY <1>1, <1>5, HeapAssumption DEF Context, Value
    <3> QED BY <1>1, <1>6, <3>1 DEF Roots
  <2>2. Marked(pass)' \subseteq Live'
    BY <1>1, <1>2, <1>3 DEF Live
  <2>3. \A q \in Marked(pass) \cap Obj : References(q)' \subseteq References(q)
    BY <1>1, <1>3, <1>4, <1>5 DEF References, TypeOK, Context
  <2> QED BY <1>1, <1>2, <1>3, <2>1, <2>2, <2>3 DEF HeapClosed
<1>11. TriColour'
  BY <1>1 DEF TriColour, IInv
<1> QED BY <1>6, <1>7, <1>8, <1>9, <1>10, <1>11 DEF IInv, HandleListExact

LEMMA GcEndKeeps ==
  ASSUME IInv, GcEnd
  PROVE  IInv'
<1>1. /\ UNCHANGED <<heapVars, programVars, handleVars, mark, pass, open>>
      /\ phase = "sweep" /\ phase' = "run" /\ \A o \in objects : mark[o] = pass
      /\ TypeOK /\ objects \subseteq Obj
  BY DEF GcEnd, IInv, TypeOK
<1>2. objects \subseteq Marked(pass)
  BY <1>1 DEF Marked, Value
<1>3. Held' = Held /\ Live' = Live
  BY <1>1 DEF Held, Live, heapVars, handleVars
<1>4. TypeOK' /\ HandleListExact' /\ OneChain' /\ TalliesAgree' /\ MarksInPast' /\ TriColour'
  BY <1>1, <1>3 DEF IInv, TypeOK, HandleListExact, OneChain, Active, TalliesAgree, MarksInPast, TriColour,
                    heapVars, programVars, handleVars
<1>5. HeapClosed'
  <2>1. /\ dontGC \subseteq strings /\ Roots \subseteq Live /\ Roots \cap Obj \subseteq objects
        /\ \A o \in objects : References(o) \subseteq Live
    BY <1>1, <1>2, HeapAssumption DEF IInv, HeapClosed, Live, TypeOK
  <2>2. statics \subseteq Live /\ stack[Root] \subseteq Live /\ Held \subseteq objects
    BY <2>1 DEF Roots, Held
  <2>3. \A o \in objects : fields[o] \subseteq Live /\ (o \in coroutines => stack[o] \subseteq Live)
    BY <2>1 DEF References
  <2>4. coroutines \subseteq objects
    BY DEF IInv, OneChain
  <2> QED BY <1>1, <1>3, <2>1, <2>2, <2>3, <2>4 DEF HeapClosed, heapVars, programVars, handleVars
<1> QED BY <1>4, <1>5 DEF IInv

LEMMA GcFailsKeeps ==
  ASSUME IInv, GcFails
  PROVE  IInv'
<1>1. /\ UNCHANGED <<heapVars, programVars, handleVars, mark, pass, open>>
      /\ phase \in {"mark", "sweep"} /\ phase' = "failed"
  BY DEF GcFails
<1>2. Held' = Held /\ Live' = Live
  BY <1>1 DEF Held, Live, heapVars, handleVars
<1> QED
  BY <1>1, <1>2 DEF IInv, TypeOK, HandleListExact, OneChain, Active, TalliesAgree, MarksInPast, TriColour,
                    HeapClosed, heapVars, programVars, handleVars

LEMMA StutterKeeps == IInv /\ UNCHANGED vars => IInv'
<1> SUFFICES ASSUME IInv, UNCHANGED vars PROVE IInv'
  OBVIOUS
<1>1. UNCHANGED <<heapVars, programVars, handleVars, gcVars>>
  BY DEF vars
<1>2. /\ Held' = Held /\ Live' = Live /\ Roots' = Roots /\ Marked(pass)' = Marked(pass)
      /\ \A o \in Obj : References(o)' = References(o) /\ Follows(o)' = Follows(o)
  BY <1>1 DEF Held, Live, Roots, Marked, References, Follows, heapVars, programVars, handleVars, gcVars
<1>3. \A S \in SUBSET Value : Closed(S)' <=> Closed(S)
  BY <1>2 DEF Closed
<1>4. TypeOK' /\ HandleListExact' /\ OneChain' /\ TalliesAgree' /\ MarksInPast'
  BY <1>1, <1>2 DEF IInv, TypeOK, HandleListExact, OneChain, Active, TalliesAgree, MarksInPast,
                    heapVars, programVars, handleVars, gcVars
<1>5. HeapClosed'
  BY <1>1, <1>2 DEF IInv, HeapClosed, heapVars, programVars, handleVars, gcVars
<1>6. TriColour'
  <2>1. Grey' = Grey
    BY <1>1, <1>2 DEF Grey, gcVars
  <2> QED BY <1>1, <1>2, <1>3, <2>1 DEF IInv, TriColour, heapVars, gcVars
<1> QED BY <1>4, <1>5, <1>6 DEF IInv

(***************************************************************************)
(* The theorems.                                                           *)
(***************************************************************************)
LEMMA StepKeeps ==
  ASSUME Legal, IInv, [Next]_vars
  PROVE  IInv'
<1>1. CASE Program
  BY <1>1, PushKeeps, StaticPokeKeeps, PushStringKeeps, ObjectFieldSetKeeps, CreateKeeps,
     CoroutineCreateKeeps, ResumeKeeps, ReturnKeeps DEF Program
<1>2. CASE Host
  BY <1>2, CreateKeeps, AcquireKeeps, ReleaseKeeps, ClearKeeps DEF Host
<1>3. CASE GcBegin
  BY <1>3, GcBeginKeeps
<1>4. CASE Collector
  BY <1>4, GcMarkObjectKeeps, GcSweepObjectKeeps, GcSweepStringsKeeps, GcEndKeeps DEF Collector
<1>5. CASE GcFails
  BY <1>5, GcFailsKeeps
<1>6. CASE UNCHANGED vars
  BY <1>6, StutterKeeps
<1> QED BY <1>1, <1>2, <1>3, <1>4, <1>5, <1>6 DEF Next

(* The strengthened invariant holds in every state of a VM used legally,   *)
(* wherever a collection interrupts the program, the host or a cleanup     *)
(* callback.                                                               *)
THEOREM GcInvariant == Legal => (Spec => []IInv)
<1> SUFFICES ASSUME Legal PROVE Spec => []IInv
  OBVIOUS
<1>1. Init => IInv
  BY InitInvariant
<1>2. IInv /\ [Next]_vars => IInv'
  BY StepKeeps
<1> QED BY <1>1, <1>2, PTL DEF Spec


(* Between and during collections, what any roots lead to exists: as long  *)
(* as nothing is freed because all there is is closed under references,    *)
(* while the collector sweeps because what is marked is.                   *)
LEMMA RootsLeadToLive ==
  ASSUME IInv, phase # "failed", NEW R \in SUBSET (Roots \cup dontGC)
  PROVE  ReachFrom(R) \subseteq Live
<1>1. TypeOK /\ HeapClosed /\ OneChain /\ phase \in {"run", "mark", "sweep"}
  BY DEF IInv, TypeOK
<1>2. ASSUME NEW S \in SUBSET Value, Roots \cup dontGC \subseteq S, Closed(S), S \subseteq Live
      PROVE  ReachFrom(R) \subseteq Live
  BY <1>2 DEF ReachFrom
<1>3. CASE phase \in {"run", "mark"}
  <2>1. /\ Live \in SUBSET Value /\ Live \cap Obj = objects /\ Roots \cup dontGC \subseteq Live
        /\ \A o \in objects : References(o) \subseteq Live
    BY <1>1, <1>3, InReach
  <2>2. Closed(Live)
    BY <1>1, <2>1, FollowsIsReferences DEF Closed
  <2> QED BY <1>2, <2>1, <2>2
<1>4. CASE phase = "sweep"
  <2> DEFINE S == Marked(pass) \cup dontGC
  <2>1. /\ Roots \subseteq Marked(pass) /\ Marked(pass) \subseteq Live /\ dontGC \subseteq strings
        /\ \A o \in Marked(pass) \cap Obj : References(o) \subseteq Marked(pass)
    BY <1>1, <1>4 DEF HeapClosed
  <2>2. S \in SUBSET Value /\ S \subseteq Live /\ S \cap Obj = Marked(pass) \cap Obj
    BY <1>1, <2>1, HeapAssumption DEF Marked, TypeOK, Live, Value
  <2>3. Closed(S)
    BY <1>1, <2>1, <2>2, FollowsIsReferences DEF Closed
  <2> HIDE DEF S
  <2>4. Roots \cup dontGC \subseteq S
    BY <2>1 DEF S
  <2> QED BY <1>2, <2>2, <2>3, <2>4
<1> QED BY <1>1, <1>3, <1>4

(* Every field of the VM's heap stays within its type: handle counts never *)
(* leave their 32 bits, contexts are the root or a coroutine.              *)
THEOREM GcTypeCorrect == Legal => (Spec => []TypeOK)
<1>1. IInv => TypeOK
  BY DEF IInv
<1> QED BY <1>1, GcInvariant, PTL

(* The handle list has exactly the objects with a handle count.            *)
THEOREM HandleListStaysExact == Legal => (Spec => []HandleListExact)
<1>1. IInv => HandleListExact
  BY DEF IInv
<1> QED BY <1>1, GcInvariant, PTL

(* The contexts that wait for the current one form one chain to the root.  *)
THEOREM ContextsFormOneChain == Legal => (Spec => []OneChain)
<1>1. IInv => OneChain
  BY DEF IInv
<1> QED BY <1>1, GcInvariant, PTL

(* Nothing the program or the host can still get at is ever freed.         *)
THEOREM NothingReachableIsLost == Legal => (Spec => []NothingReachableLost)
<1>1. IInv => NothingReachableLost
  <2>1. Roots \cup dontGC \in SUBSET (Roots \cup dontGC)
    OBVIOUS
  <2> QED BY <2>1, RootsLeadToLive DEF NothingReachableLost, Live
<1> QED BY <1>1, GcInvariant, PTL

(* When a collection is done with marking, it has marked exactly what can  *)
(* be reached from the roots.                                              *)
THEOREM MarkingIsExact == Legal => (Spec => []MarkExact)
<1>1. ASSUME IInv, phase = "mark", open = {} PROVE Marked(pass) = ReachFrom(Roots)
  <2>1. Grey = Marked(pass) /\ Marked(pass) \in SUBSET Value /\ TypeOK /\ TriColour
    BY <1>1 DEF Grey, IInv, Marked
  <2>2. Roots \subseteq Marked(pass) /\ Closed(Marked(pass))
    BY <1>1, <2>1, FollowsIsReferences DEF TriColour, Closed
  <2>3. ReachFrom(Roots) \subseteq Marked(pass)
    BY <2>1, <2>2 DEF ReachFrom
  <2>4. \A S \in SUBSET Value : Roots \subseteq S /\ Closed(S) => Marked(pass) \subseteq S
    BY <1>1, <2>1 DEF TriColour
  <2>5. Marked(pass) \subseteq ReachFrom(Roots)
    BY <2>1, <2>4 DEF ReachFrom
  <2> QED BY <2>3, <2>5
<1>2. IInv => MarkExact
  BY <1>1 DEF MarkExact
<1> QED BY <1>2, GcInvariant, PTL

(* What the host has a handle on, and all it refers to, exists, as long as *)
(* the host has fewer handles on an object than the count has values.      *)
THEOREM HandlesAlwaysProtect ==
  Legal /\ OwnBound < HandleSpace => (Spec => []HandlesProtect)
<1> SUFFICES ASSUME OwnBound < HandleSpace
             PROVE  Legal => (Spec => []HandlesProtect)
  OBVIOUS
<1>1. ASSUME IInv, phase # "failed"
      PROVE  ReachFrom({o \in Obj : owned[o] > 0}) \subseteq Live
  <2>1. {o \in Obj : owned[o] > 0} = Held
    BY <1>1 DEF IInv, TalliesAgree, Held
  <2>2. Held \in SUBSET (Roots \cup dontGC)
    BY DEF Roots
  <2> QED BY <1>1, <2>1, <2>2, RootsLeadToLive
<1>2. IInv => HandlesProtect
  BY <1>1 DEF HandlesProtect, Live
<1> QED BY <1>2, GcInvariant, PTL

(***************************************************************************)
(* What a step of the collector frees, and how many steps there are.       *)
(***************************************************************************)
(* What is still to be done: objects to mark, and after that to delete.    *)
(* The two terms more are the sweep of the strings and the end.            *)
LeftToDo ==
  CASE phase = "mark"  -> Cardinality(Obj) + 2 + Cardinality(Obj \ Marked(pass))
    [] phase = "sweep" -> 1 + Cardinality(objects \ Marked(pass))
    [] OTHER           -> 0

(* An object on the open list was not marked since it was put there.       *)
OpenIsUnmarked == phase = "mark" => open \cap Marked(pass) = {}

LEMMA StepKeepsOpenUnmarked ==
  ASSUME IInv, OpenIsUnmarked, [Next]_vars
  PROVE  OpenIsUnmarked'
<1>1. CASE UNCHANGED vars
  BY <1>1 DEF vars, gcVars, OpenIsUnmarked, Marked
<1>2. CASE Program \/ Host
  <2>1. phase' = "run"
    BY <1>2 DEF Program, Host, Running, Push, Pop, StaticPoke, PushString, AddLiteral, ObjectFieldSet,
                CreateObject, CoroutineCreate, CoroutineResume, PopExecutionContext,
                HostCreateObject, AcquireHandle, ReleaseHandle, ClearReplErrorState, gcVars
  <2> QED BY <2>1 DEF OpenIsUnmarked
<1>3. CASE GcBegin
  <2>1. /\ mark' = [v \in Value |-> IF v \in handles \cup (Found(handles, RootReferences, pass') \cap Str)
                                   THEN pass' ELSE mark[v]]
        /\ open' = Waiting(handles, Found(handles, RootReferences, pass'), mark', pass')
        /\ open = {}
    BY <1>3 DEF GcBegin, MarkAll, IInv, TriColour
  <2> QED BY <2>1 DEF OpenIsUnmarked, Waiting, Marked
<1>4. ASSUME NEW o \in Obj, GcMarkObject(o) PROVE OpenIsUnmarked'
  <2> DEFINE found == Found({o}, {}, pass)
  <2>1. /\ mark' = [v \in Value |-> IF v \in {o} \cup (found \cap Str) THEN pass ELSE mark[v]]
        /\ open' = Waiting({o}, found, mark', pass)
        /\ pass' = pass /\ phase = "mark" /\ open \subseteq Obj
    BY <1>4 DEF GcMarkObject, MarkAll, IInv, TypeOK
  <2> HIDE DEF found
  <2>2. \A q \in open \ {o} : mark'[q] = mark[q] /\ mark[q] # pass
    BY <2>1, HeapAssumption DEF OpenIsUnmarked, Marked, Value
  <2> QED BY <2>1, <2>2 DEF OpenIsUnmarked, Waiting, Marked
<1>5. CASE GcSweepStrings \/ GcEnd \/ GcFails \/ \E o \in Obj : GcSweepObject(o)
  BY <1>5 DEF GcSweepStrings, GcEnd, GcFails, GcSweepObject, OpenIsUnmarked
<1> QED BY <1>1, <1>2, <1>3, <1>4, <1>5 DEF Next, Collector

LEMMA OpenStaysUnmarked == Legal => (Spec => [](IInv /\ OpenIsUnmarked))
<1> SUFFICES ASSUME Legal PROVE Spec => [](IInv /\ OpenIsUnmarked)
  OBVIOUS
<1>1. Init => OpenIsUnmarked
  BY DEF Init, OpenIsUnmarked
<1>2. IInv /\ OpenIsUnmarked /\ [Next]_vars => OpenIsUnmarked'
  BY StepKeepsOpenUnmarked
<1> QED BY <1>1, <1>2, GcInvariant, PTL DEF Spec

(* In the sweep, or with nothing left to mark, what is reachable is marked *)
(* or a literal.                                                           *)
LEMMA ReachableIsMarked ==
  ASSUME IInv, phase = "sweep" \/ (phase = "mark" /\ open = {})
  PROVE  ReachFrom(Roots \cup dontGC) \subseteq Marked(pass) \cup dontGC
<1> DEFINE S == Marked(pass) \cup dontGC
<1>1. TypeOK /\ TriColour /\ HeapClosed
  BY DEF IInv
<1>2. Roots \subseteq Marked(pass) /\ \A o \in Marked(pass) \cap Obj : References(o) \subseteq Marked(pass)
  BY <1>1 DEF TriColour, HeapClosed, Grey
<1>3. S \in SUBSET Value /\ S \cap Obj = Marked(pass) \cap Obj
  BY <1>1, HeapAssumption DEF Marked, TypeOK, Value
<1>4. Closed(S)
  BY <1>1, <1>2, <1>3, FollowsIsReferences DEF Closed
<1>5. Roots \cup dontGC \subseteq S
  BY <1>2
<1> HIDE DEF S
<1>6. ReachFrom(Roots \cup dontGC) \subseteq S
  BY <1>3, <1>4, <1>5 DEF ReachFrom
<1> QED BY <1>6 DEF S

(* No step frees an object or string that can be reached or a literal: not *)
(* an instruction, not the host, not the sweep whatever handles the        *)
(* cleanup callbacks before released.                                      *)
THEOREM OnlyGarbageIsFreed ==
  Legal => (Spec => [][(Live \ Live') \cap ReachFrom(Roots \cup dontGC) = {}]_vars)
<1> SUFFICES ASSUME Legal PROVE Spec => [][(Live \ Live') \cap ReachFrom(Roots \cup dontGC) = {}]_vars
  OBVIOUS
<1>1. ASSUME IInv, Next PROVE (Live \ Live') \cap ReachFrom(Roots \cup dontGC) = {}
  <2>1. TypeOK
    BY <1>1 DEF IInv
  <2>2. CASE Program \/ Host \/ GcBegin \/ GcFails \/ GcEnd \/ \E o \in Obj : GcMarkObject(o)
    <3>1. objects \subseteq objects' /\ strings \subseteq strings'
      BY <2>2 DEF Program, Host, Push, Pop, StaticPoke, PushString, AddLiteral, FindOrAddString,
                  ObjectFieldSet, CreateObject, CoroutineCreate, CoroutineResume,
                  PopExecutionContext, HostCreateObject, AcquireHandle, ReleaseHandle,
                  ClearReplErrorState, NewObject, GcBegin, GcFails, GcEnd, GcMarkObject, heapVars
    <3> QED BY <3>1 DEF Live
  <2>3. CASE GcSweepStrings
    <3>1. \A v \in Live \ Live' : v \in Str /\ v \notin Marked(pass) \cup dontGC
      BY <2>1, <2>3 DEF GcSweepStrings, Live, Marked, TypeOK
    <3>2. ReachFrom(Roots \cup dontGC) \subseteq Marked(pass) \cup dontGC
      BY <1>1, <2>3, ReachableIsMarked DEF GcSweepStrings
    <3> QED BY <3>1, <3>2
  <2>4. CASE \E o \in Obj : GcSweepObject(o)
    <3>1. PICK o \in Obj : GcSweepObject(o)
      BY <2>4
    <3>2. Live \ Live' \subseteq {o} /\ o \notin Marked(pass) \cup dontGC
      BY <2>1, <3>1, HeapAssumption DEF GcSweepObject, Live, Marked, TypeOK, Value
    <3>3. ReachFrom(Roots \cup dontGC) \subseteq Marked(pass) \cup dontGC
      BY <1>1, <3>1, ReachableIsMarked DEF GcSweepObject
    <3> QED BY <3>2, <3>3
  <2> QED BY <1>1, <2>2, <2>3, <2>4 DEF Next, Collector
<1>2. IInv /\ [Next]_vars => [(Live \ Live') \cap ReachFrom(Roots \cup dontGC) = {}]_vars
  BY <1>1
<1> QED BY <1>2, GcInvariant, PTL DEF Spec

(* The strings that are swept are exactly those that can not be reached    *)
(* and are no literals: the sweep leaves no garbage either.                *)
THEOREM StringsSweptExactly ==
  Legal => (Spec => [][GcSweepStrings => strings' = strings \cap (ReachFrom(Roots) \cup dontGC)]_vars)
<1>1. IInv /\ MarkExact /\ [Next]_vars
        => [GcSweepStrings => strings' = strings \cap (ReachFrom(Roots) \cup dontGC)]_vars
  <2> SUFFICES ASSUME IInv, MarkExact, GcSweepStrings
               PROVE  strings' = strings \cap (ReachFrom(Roots) \cup dontGC)
    OBVIOUS
  <2>1. strings' = {s \in strings : mark[s] = pass \/ s \in dontGC} /\ Marked(pass) = ReachFrom(Roots)
    BY DEF GcSweepStrings, MarkExact
  <2>2. strings \subseteq Value
    BY DEF IInv, TypeOK, Value
  <2>3. \A s \in strings : s \in Marked(pass) <=> mark[s] = pass
    BY <2>2 DEF Marked
  <2> QED BY <2>1, <2>3
<1> QED BY <1>1, GcInvariant, MarkingIsExact, PTL DEF Spec

(* What is left to do is a number, and at most two steps for each object   *)
(* and two more.                                                           *)
LEMMA LeftIsBounded ==
  ASSUME IsFiniteSet(Obj), TypeOK
  PROVE  /\ Cardinality(Obj) \in Nat
         /\ IsFiniteSet(Obj \ Marked(pass)) /\ Cardinality(Obj \ Marked(pass)) \in 0 .. Cardinality(Obj)
         /\ IsFiniteSet(objects \ Marked(pass)) /\ Cardinality(objects \ Marked(pass)) \in 0 .. Cardinality(Obj)
         /\ LeftToDo \in 0 .. 2 * Cardinality(Obj) + 2
<1>1. ASSUME NEW S \in SUBSET Obj PROVE IsFiniteSet(S) /\ Cardinality(S) \in 0 .. Cardinality(Obj)
  <2>1. IsFiniteSet(S) /\ Cardinality(S) <= Cardinality(Obj)
    BY FS_Subset
  <2> QED BY <2>1, FS_CardinalityType
<1>2. Cardinality(Obj) \in Nat
  BY FS_CardinalityType
<1>3. /\ IsFiniteSet(Obj \ Marked(pass)) /\ Cardinality(Obj \ Marked(pass)) \in 0 .. Cardinality(Obj)
      /\ IsFiniteSet(objects \ Marked(pass)) /\ Cardinality(objects \ Marked(pass)) \in 0 .. Cardinality(Obj)
  BY <1>1 DEF TypeOK
<1> QED BY <1>2, <1>3 DEF LeftToDo

LEMMA CollectionStepShrinks ==
  ASSUME IsFiniteSet(Obj), IInv, OpenIsUnmarked, Next, phase \in {"mark", "sweep"}
  PROVE  LeftToDo' < LeftToDo
<1>1. TypeOK /\ objects \subseteq Obj
  BY DEF IInv, TypeOK
<1>2. /\ Cardinality(Obj) \in Nat
      /\ IsFiniteSet(Obj \ Marked(pass)) /\ Cardinality(Obj \ Marked(pass)) \in Nat
      /\ IsFiniteSet(objects \ Marked(pass)) /\ Cardinality(objects \ Marked(pass)) \in 0 .. Cardinality(Obj)
  BY <1>1, LeftIsBounded
<1>3. ASSUME NEW o \in Obj, GcMarkObject(o) PROVE LeftToDo' < LeftToDo
  <2> DEFINE found == Found({o}, {}, pass)
             before == Obj \ Marked(pass)
             after  == Obj \ Marked(pass)'
  <2>1. /\ mark' = [v \in Value |-> IF v \in {o} \cup (found \cap Str) THEN pass ELSE mark[v]]
        /\ pass' = pass /\ phase = "mark" /\ phase' = "mark" /\ o \in open
    BY <1>3 DEF GcMarkObject, MarkAll
  <2>2. o \in before
    BY <2>1 DEF OpenIsUnmarked
  <2>3. after \subseteq before \ {o}
    <3> HIDE DEF found
    <3> QED BY <2>1, HeapAssumption DEF Marked, Value
  <2> HIDE DEF before, after
  <2>4. IsFiniteSet(before \ {o}) /\ Cardinality(before \ {o}) = Cardinality(before) - 1
    BY <1>2, <2>2, FS_RemoveElement DEF before
  <2>5. Cardinality(after) <= Cardinality(before \ {o}) /\ Cardinality(after) \in Nat
    BY <2>3, <2>4, FS_Subset, FS_CardinalityType
  <2>6. Cardinality(after) < Cardinality(before)
    BY <1>2, <2>4, <2>5 DEF before
  <2>7. /\ LeftToDo = Cardinality(Obj) + 2 + Cardinality(before)
        /\ LeftToDo' = Cardinality(Obj) + 2 + Cardinality(after)
    BY <2>1 DEF LeftToDo, before, after
  <2> QED BY <1>2, <2>5, <2>6, <2>7 DEF before
<1>4. CASE GcSweepStrings
  <2>1. phase = "mark" /\ phase' = "sweep" /\ (objects \ Marked(pass))' \subseteq Obj
    BY <1>1, <1>4 DEF GcSweepStrings
  <2>2. /\ Cardinality((objects \ Marked(pass))') <= Cardinality(Obj)
        /\ Cardinality((objects \ Marked(pass))') \in Nat
    BY <2>1, FS_Subset, FS_CardinalityType
  <2>3. /\ LeftToDo = Cardinality(Obj) + 2 + Cardinality(Obj \ Marked(pass))
        /\ LeftToDo' = 1 + Cardinality((objects \ Marked(pass))')
    BY <2>1 DEF LeftToDo
  <2> QED BY <1>2, <2>2, <2>3
<1>5. ASSUME NEW o \in Obj, GcSweepObject(o) PROVE LeftToDo' < LeftToDo
  <2> DEFINE before == objects \ Marked(pass)
             after  == (objects \ Marked(pass))'
  <2>1. /\ phase = "sweep" /\ phase' = "sweep" /\ pass' = pass
        /\ o \in objects /\ mark[o] # pass
        /\ objects' = objects \ {o} /\ mark' = [mark EXCEPT ![o] = 0]
    BY <1>5 DEF GcSweepObject
  <2>2. o \in before
    BY <2>1 DEF Marked
  <2>3. after = before \ {o}
    BY <1>1, <2>1 DEF Marked, TypeOK
  <2> HIDE DEF before, after
  <2>4. Cardinality(after) = Cardinality(before) - 1
    BY <1>2, <2>2, <2>3, FS_RemoveElement DEF before
  <2>5. LeftToDo = 1 + Cardinality(before) /\ LeftToDo' = 1 + Cardinality(after)
    BY <2>1 DEF LeftToDo, before, after
  <2> QED BY <1>2, <2>4, <2>5 DEF before
<1>6. CASE GcEnd \/ GcFails
  <2>1. LeftToDo' = 0
    BY <1>6 DEF GcEnd, GcFails, LeftToDo
  <2>2. LeftToDo = Cardinality(Obj) + 2 + Cardinality(Obj \ Marked(pass))
          \/ LeftToDo = 1 + Cardinality(objects \ Marked(pass))
    BY DEF LeftToDo
  <2> QED BY <1>2, <2>1, <2>2
<1>7. ~ Program /\ ~ Host /\ ~ GcBegin
  BY DEF Program, Host, Running, Push, Pop, StaticPoke, PushString, AddLiteral, ObjectFieldSet,
         CreateObject, CoroutineCreate, CoroutineResume, PopExecutionContext,
         HostCreateObject, AcquireHandle, ReleaseHandle, ClearReplErrorState, GcBegin
<1> QED BY <1>3, <1>4, <1>5, <1>6, <1>7 DEF Next, Collector

(* A step taken in a collection does some of what is left.                 *)
WorksOff == phase \in {"mark", "sweep"} => LeftToDo' < LeftToDo

(* A collection is over after at most 2 N + 2 steps in a heap of N objects,*)
(* whatever cycles there are in it: each step of it does some of what is   *)
(* left and nothing adds to that.  That a step can always be taken is what *)
(* GcTerminates, checked by TLC, has in addition.                          *)
THEOREM CollectionsShrink ==
  Legal /\ IsFiniteSet(Obj) =>
    (Spec => [](LeftToDo \in 0 .. 2 * Cardinality(Obj) + 2) /\ [][WorksOff]_vars)
<1> SUFFICES ASSUME Legal, IsFiniteSet(Obj)
             PROVE  Spec => [](LeftToDo \in 0 .. 2 * Cardinality(Obj) + 2) /\ [][WorksOff]_vars
  OBVIOUS
<1>1. IInv => LeftToDo \in 0 .. 2 * Cardinality(Obj) + 2
  BY LeftIsBounded DEF IInv
<1>2. IInv /\ OpenIsUnmarked /\ [Next]_vars => [WorksOff]_vars
  BY CollectionStepShrinks DEF WorksOff
<1> QED BY <1>1, <1>2, OpenStaysUnmarked, PTL DEF Spec
=============================================================================
