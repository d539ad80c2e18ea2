------------------------------ MODULE IdManager ------------------------------
(***************************************************************************)
(* IdManager hands out the entity ids of players.  It keeps a counter, and *)
(* an ordered set of the ids below the counter that have been given back.  *)
(* Every operation holds the mutex, so it is one step.                     *)
(*                                                                         *)
(* The callers are Player's constructors and destructor: an object has one *)
(* id from its construction to its destruction.  Objects stands for the    *)
(* Player objects that can exist at the same time.                         *)
(***************************************************************************)
EXTENDS Integers, FiniteSets

CONSTANTS Objects,          \* the memory a Player object may occupy
          Modulus,          \* ids are computed modulo this (2^32)
          None              \* an object that does not exist has no id

Ids == 0..(Modulus - 1)

ASSUME NoneAssumption == None \notin Int
(* There is no memory for as many players at once as there are ids.        *)
ASSUME IdsSuffice ==
    /\ IsFiniteSet(Objects)
    /\ Modulus \in Nat
    /\ Cardinality(Objects) < Modulus

VARIABLES nextId,           \* _nextId
          freedIds,         \* _freedIds
          held              \* the id of each object that exists

vars == <<nextId, freedIds, held>>

Held(id) == \E o \in Objects : held[o] = id

(* The counter stays low: it never passes the most objects there can be    *)
(* at a time, as ids are reused before new ones are made (idManager.cpp:14)*)
TypeOK ==
    /\ nextId \in 0..Cardinality(Objects)
    /\ freedIds \subseteq Ids
    /\ held \in [Objects -> Ids \cup {None}]

Init ==
    /\ nextId = 0
    /\ freedIds = {}
    /\ held = [o \in Objects |-> None]

\* Mutation: the reused id is not erased from the set.
ReuseKeepsFreed(o) ==
    \E id \in freedIds :
        /\ held[o] = None
        /\ \A other \in freedIds : id <= other
        /\ held' = [held EXCEPT ![o] = id]
        /\ UNCHANGED <<nextId, freedIds>>

\* Mutation: the last freed id is taken in place of the first.
ReuseLargest(o) ==
    \E id \in freedIds :
        /\ held[o] = None
        /\ \A other \in freedIds : other <= id
        /\ freedIds' = freedIds \ {id}
        /\ held' = [held EXCEPT ![o] = id]
        /\ UNCHANGED nextId

\* The first of the freed ids, which std::set keeps in ascending order.
Reuse(o) ==
    \E id \in freedIds :
        /\ held[o] = None
        /\ \A other \in freedIds : id <= other
        /\ freedIds' = freedIds \ {id}
        /\ held' = [held EXCEPT ![o] = id]
        /\ UNCHANGED nextId

\* Mutation: a new id although freed ones are left.
FreshAlways(o) ==
    /\ held[o] = None
    /\ held' = [held EXCEPT ![o] = nextId]
    /\ nextId' = (nextId + 1) % Modulus
    /\ UNCHANGED freedIds

Fresh(o) ==
    /\ freedIds = {}
    /\ held[o] = None
    /\ held' = [held EXCEPT ![o] = nextId]
    /\ nextId' = (nextId + 1) % Modulus
    /\ UNCHANGED freedIds

Allocate(o) == Reuse(o) \/ Fresh(o)

\* Mutation: the check of the id against the counter is missing.
UncheckedRelease(id) == freedIds \cup {id}

\* release(id): ids that were never handed out, or are free already, are
\* ignored with a warning.
Released(id) == IF id >= nextId THEN freedIds ELSE freedIds \cup {id}

\* The destructor of the player.
Release(o) ==
    /\ held[o] # None
    /\ freedIds' = Released(held[o])
    /\ held' = [held EXCEPT ![o] = None]
    /\ UNCHANGED nextId

\* release is called with an id that no object has.
StrayRelease(id) ==
    /\ ~Held(id)
    /\ freedIds' = Released(id)
    /\ UNCHANGED <<nextId, held>>

\* Nothing in the server calls reset; it is only right without players.
Reset ==
    /\ \A o \in Objects : held[o] = None
    /\ nextId' = 0
    /\ freedIds' = {}
    /\ UNCHANGED held

Next ==
    \/ \E o \in Objects : Allocate(o) \/ Release(o)
    \/ \E id \in Ids : StrayRelease(id)
    \/ Reset

Spec == Init /\ [][Next]_vars

-----------------------------------------------------------------------------
(* No two players have the same entity id at the same time, whatever was   *)
(* released and reused before (idManager.cpp:14-22, 31-36).                *)
UniqueIds ==
    \A o1, o2 \in Objects :
        held[o1] = held[o2] /\ o1 # o2 => held[o1] = None

AllocatedCount == nextId - Cardinality(freedIds)

(* getAllocatedCount, computed from the counter and the set, is the number *)
(* of players that exist (idManager.cpp:40-43).                            *)
CountIsLivePlayers ==
    AllocatedCount = Cardinality({o \in Objects : held[o] # None})

Least == INSTANCE LeastFreeIds

(* The counter and the set together always give the least id that no       *)
(* player has, and neither a stray release nor a reset changes who has     *)
(* which id: the allocator implements LeastFreeIds (idManager.cpp:12-55).  *)
ImplementsLeastFreeIds == Least!Spec
=============================================================================
