------------------------------- MODULE MCSave -------------------------------
(* NkSave with two slots and two buckets: VMs with objects and strings, VMs *)
(* with coroutines, VMs with C functions; hosts that differ from them.      *)
EXTENDS NkSave, TLC

CONSTANTS nil, one, s, t, f, g, coroutine, file, clock

Hashes == (nil :> 0) @@ (one :> 1) @@ (s :> 1) @@ (t :> 2)

Blank == [Fresh([natives |-> <<>>, types |-> <<coroutine>>,
                 subsystems |-> <<clock>>])
            EXCEPT !.statics = <<nil, one>>, !.globals = <<f>>,
                   !.subsystems[1].data = one]

Stored(v, elements, handles, type) ==
  LET add(buckets, e) == Added(v, buckets, e)
  IN  [buckets |-> FoldLeft(add, [b \in Buckets |-> <<>>], elements),
       handles |-> handles, type |-> type]

Reference == {<<"string", 0>>, <<"object", 1>>, one}
FieldLists ==
  {<<>>} \cup {<<[key |-> k, value |-> one]>> : k \in Reference}
    \cup {<<[key |-> p[1], value |-> one], [key |-> p[2], value |-> p[1]]>> :
            p \in {q \in Reference \X Reference : q[1] # q[2]}}

Heaps ==
  LET strings == {[Nothing EXCEPT ![0] = s], [Nothing EXCEPT ![0] = s, ![1] = t]}
      with(st) == [Blank EXCEPT !.strings = st]
  IN  UNION {{[with(st) EXCEPT
                 !.objects[0] = Stored(with(st), list, h, 0),
                 !.objects[1] = Stored(with(st), <<>>, 1, 0),
                 !.root = <<<<"object", 0>>>>] : list \in FieldLists, h \in 0 .. 1}
              : st \in strings}

WithCoroutines ==
  LET object == Stored(Blank, <<>>, 0, CoroutineType)
      contexts == {[stack |-> <<one>>, state |-> "running"],
                   [stack |-> <<<<"object", 0>>>>, state |-> "running"],
                   [stack |-> <<>>, state |-> "created"],
                   [stack |-> <<>>, state |-> "finished"]}
      chains == {<<>>, <<0>>, <<1>>, <<0, 1>>, <<1, 0>>}
  IN  {v \in {[Blank EXCEPT !.objects = [x \in Slots |-> object],
                            !.contexts = c, !.active = a] :
                c \in [Slots -> contexts], a \in chains} :
         \A i \in DOMAIN v.active : v.contexts[v.active[i]].state = "running"}

WithFunctions ==
  LET natives == {<<[name |-> f, function |-> 1], [name |-> g, function |-> None]>>,
                  <<[name |-> f, function |-> None], [name |-> g, function |-> 1]>>,
                  <<[name |-> f, function |-> 2], [name |-> g, function |-> 1]>>}
  IN  {[Blank EXCEPT !.natives = n,
          !.functions = [id \in 1 .. 3 |->
             LET i == SelectInSeq(n, LAMBDA x : x.function = id)
             IN  IF i = 0 THEN None ELSE i],
          !.root = <<<<"function", 1>>>>,
          !.errors = e] : n \in natives, e \in 0 .. 1}

RunningVMs == Heaps \cup WithCoroutines \cup WithFunctions

Host(natives, types, subsystems) ==
  [natives |-> natives, types |-> types, subsystems |-> subsystems]

SomeHosts ==
  {Host(<<>>, <<coroutine>>, <<clock>>),
   Host(<<f, g>>, <<coroutine>>, <<clock>>),
   Host(<<g, f>>, <<coroutine>>, <<file, clock>>),
   Host(<<g>>, <<coroutine>>, <<clock>>),
   Host(<<f, g>>, <<coroutine, file>>, <<clock>>),
   Host(<<f, g>>, <<coroutine>>, <<file>>)}
=============================================================================
