----------------------------- MODULE NkFieldMap -----------------------------
(***************************************************************************)
(* What objects promise a script (README.md of the repository, "Objects"): *)
(* each is a map, keys and values are any values, a field that was not set *)
(* or was set to nil is nil.  Neither slots nor hash buckets are seen: an  *)
(* object stays itself wherever the table keeps it.  Keys are one when     *)
(* they are equal, as numbers are, so that nothing is found under NaN.     *)
(***************************************************************************)
CONSTANTS
  Objects,   \* objects that may come to exist
  Plain,     \* values that are not objects: strings, numbers, nil
  Nil,       \* nil, one of them
  Equals,    \* value -> the one that stands for all equal to it
  NoKeys,    \* those not equal to themselves
  Places     \* where a program holds a value: variables, host variables

VARIABLES
  fields,    \* object -> key -> value
  held,      \* place -> value
  failed     \* the VM has an error and runs no further

Values == Objects \cup Plain

Keys == {Equals[v] : v \in Values \ NoKeys}
NoFields == [k \in Keys |-> Nil]

TypeOK ==
  /\ fields \in [Objects -> [Keys -> Values]]
  /\ held \in [Places -> Values]
  /\ failed \in BOOLEAN

Init ==
  /\ fields = [o \in Objects |-> NoFields]
  /\ held = [p \in Places |-> Nil]
  /\ failed = FALSE

(* Nobody refers to o.                                                     *)
Unreferenced(o) ==
  /\ o \notin {held[p] : p \in Places}
  /\ \A q \in Objects, k \in Keys :
       fields[q][k] # o /\ (k = o => fields[q][k] = Nil)

Held == {held[p] : p \in Places}

Create(p) ==
  \E o \in Objects :
    /\ held' = [held EXCEPT ![p] = o]
    /\ Unreferenced(o)
    /\ fields[o] = NoFields
    /\ UNCHANGED <<fields, failed>>

Hold(p, v) ==
  /\ v \in Plain \cup {held[q] : q \in Places}
  /\ held' = [held EXCEPT ![p] = v]
  /\ UNCHANGED <<fields, failed>>

Get(p, o, k) ==
  /\ held' = [held EXCEPT ![p] = IF k \in NoKeys THEN Nil ELSE fields[o][Equals[k]]]
  /\ UNCHANGED <<fields, failed>>

(* The field of o under k becomes any value a program can have.            *)
Set(o, k) ==
  /\ UNCHANGED <<held, failed>>
  /\ \A q \in Objects, j \in Keys :
       fields'[q][j] # fields[q][j] =>
         /\ k \notin NoKeys /\ <<q, j>> = <<o, Equals[k]>>
         /\ fields'[q][j] \in Plain \cup Held

(* The host's limit on the number of fields is reached.  What the fields   *)
(* are from then on is not promised.                                       *)
Refuse ==
  /\ failed' = TRUE
  /\ fields' \in [Objects -> [Keys -> Values]]
  /\ UNCHANGED held

(* Garbage loses its fields.                                               *)
Forget(o) ==
  /\ UNCHANGED <<held, failed>>
  /\ Unreferenced(o)
  /\ fields' = [fields EXCEPT ![o] = NoFields]

Next ==
  /\ ~failed
  /\ \/ \E o \in Objects \cap Held, k \in Plain \cup Held : Set(o, k)
     \/ Refuse
     \/ \E o \in Objects : Forget(o)
     \/ \E p \in Places :
          \/ Create(p)
          \/ \E v \in Values : Hold(p, v)
          \/ \E o \in Objects \cap Held, k \in Plain \cup Held : Get(p, o, k)

Spec == Init /\ [][Next]_<<fields, held, failed>>
=============================================================================
