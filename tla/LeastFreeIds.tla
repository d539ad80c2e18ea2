---------------------------- MODULE LeastFreeIds ----------------------------
(***************************************************************************)
(* What an allocator of entity ids promises: an object is given the least  *)
(* id that no object has, and keeps it until it gives it back.             *)
(***************************************************************************)
EXTENDS Naturals

CONSTANTS Objects,          \* the objects that may have an id
          Ids,              \* the ids there are, from 0 on
          None              \* no id

VARIABLE held               \* the id each object has

Init == held = [o \in Objects |-> None]

InUse(id) == \E o \in Objects : held[o] = id

Take(o, id) ==
    /\ held[o] = None
    /\ ~InUse(id)
    /\ \A lower \in Ids : lower < id => InUse(lower)
    /\ held' = [held EXCEPT ![o] = id]

Give(o) ==
    /\ held[o] # None
    /\ held' = [held EXCEPT ![o] = None]

Next == \E o \in Objects : Give(o) \/ \E id \in Ids : Take(o, id)

Spec == Init /\ [][Next]_held
=============================================================================
