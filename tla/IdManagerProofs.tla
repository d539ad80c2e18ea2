--------------------------- MODULE IdManagerProofs ---------------------------
(***************************************************************************)
(* IdManager implements LeastFreeIds, for any number of players below the  *)
(* number of ids.                                                          *)
(*                                                                         *)
(* The inductive invariant adds to the type invariant that the ids below   *)
(* the counter are divided between the freed set and the players (none is  *)
(* lost, none is in both), that no two players share one, and that the     *)
(* count of players agrees with counter and set.  The count is what keeps  *)
(* the counter from wrapping: a new id is only made when the freed set is  *)
(* empty, so that all ids below the counter are in use by other objects.   *)
(***************************************************************************)
EXTENDS IdManager, FiniteSetTheorems, TLAPS

LiveObjects == {o \in Objects : held[o] # None}

\* Nothing is both free and in use, and both are below the counter.
FreedApartFromHeld ==
    /\ \A id \in freedIds : id < nextId
    /\ \A o \in Objects :
          held[o] # None => held[o] < nextId /\ held[o] \notin freedIds

\* Every id below the counter is free or in use.
NoIdIsLost ==
    \A id \in Ids : id < nextId => id \in freedIds \/ Held(id)

IInv ==
    /\ TypeOK
    /\ FreedApartFromHeld
    /\ NoIdIsLost
    /\ UniqueIds
    /\ CountIsLivePlayers

(* The sets the invariant counts are finite.                               *)
LEMMA Finite ==
    ASSUME TypeOK
    PROVE  /\ Cardinality(Objects) \in Nat
           /\ IsFiniteSet(freedIds) /\ Cardinality(freedIds) \in Nat
           /\ IsFiniteSet(LiveObjects) /\ Cardinality(LiveObjects) \in Nat
           /\ Cardinality(LiveObjects) <= Cardinality(Objects)
           /\ nextId \in Nat /\ nextId < Modulus /\ Modulus \in Nat
<1>1. Cardinality(Objects) \in Nat /\ Modulus \in Nat
  BY IdsSuffice, FS_CardinalityType
<1>2. nextId \in Nat /\ nextId < Modulus
  BY <1>1, IdsSuffice DEF TypeOK
<1>3. IsFiniteSet(Ids)
  <2>1. 0 \in Int /\ Modulus - 1 \in Int
    BY <1>1
  <2> QED  BY <2>1, FS_Interval DEF Ids
<1>4. IsFiniteSet(freedIds)
  BY <1>3, FS_Subset DEF TypeOK
<1>5. /\ IsFiniteSet(LiveObjects)
      /\ Cardinality(LiveObjects) <= Cardinality(Objects)
  BY IdsSuffice, FS_Subset DEF LiveObjects
<1> QED  BY <1>1, <1>2, <1>4, <1>5, FS_CardinalityType

(* A new id is made only while there are fewer players than objects: the   *)
(* counter does not wrap.                                                  *)
LEMMA CounterDoesNotWrap ==
    ASSUME IInv, NEW o \in Objects, Fresh(o)
    PROVE  nextId + 1 <= Cardinality(Objects) /\ nextId' = nextId + 1
<1>1. o \notin LiveObjects
  BY DEF Fresh, LiveObjects
<1>2. nextId = Cardinality(LiveObjects)
  <2>1. Cardinality(freedIds) = 0
    BY FS_EmptySet DEF Fresh
  <2> QED
    BY <2>1, Finite DEF IInv, CountIsLivePlayers, AllocatedCount, LiveObjects
<1>3. Cardinality(LiveObjects \cup {o}) = Cardinality(LiveObjects) + 1
  BY <1>1, Finite, FS_AddElement DEF IInv
<1>4. Cardinality(LiveObjects \cup {o}) <= Cardinality(Objects)
  <2>1. LiveObjects \cup {o} \in SUBSET Objects
    BY DEF LiveObjects
  <2> QED  BY <2>1, IdsSuffice, FS_Subset
<1>5. nextId + 1 <= Cardinality(Objects)
  BY <1>2, <1>3, <1>4
<1>6. nextId' = (nextId + 1) % Modulus
  BY DEF Fresh
<1>7. nextId + 1 \in Nat /\ nextId + 1 < Modulus /\ Modulus \in Nat
  BY <1>5, Finite, IdsSuffice DEF IInv
<1> QED  BY <1>5, <1>6, <1>7

(* Initially the manager and the players have no ids.                      *)
LEMMA InitIInv == Init => IInv
<1> SUFFICES ASSUME Init PROVE IInv
  OBVIOUS
<1>1. Cardinality(Objects) \in Nat /\ Modulus \in Nat
  BY IdsSuffice, FS_CardinalityType
<1>2. TypeOK
  BY <1>1 DEF Init, TypeOK
<1>3. FreedApartFromHeld /\ NoIdIsLost /\ UniqueIds
  BY NoneAssumption DEF Init, FreedApartFromHeld, NoIdIsLost, UniqueIds, Ids
<1>4. CountIsLivePlayers
  <2>1. {o \in Objects : held[o] # None} = {}
    BY DEF Init
  <2> QED
    BY <2>1, FS_EmptySet DEF Init, CountIsLivePlayers, AllocatedCount
<1> QED  BY <1>2, <1>3, <1>4 DEF IInv

(* What StrayRelease and an orderly Release do to the freed set.           *)
LEMMA ReleasedIds ==
    ASSUME IInv, NEW id \in Ids
    PROVE  /\ ~Held(id) => Released(id) = freedIds
           /\ Held(id) => /\ id < nextId /\ id \notin freedIds
                          /\ Released(id) = freedIds \cup {id}
<1>1. id \in Nat /\ nextId \in Nat
  BY Finite DEF IInv, Ids
<1>2. CASE Held(id)
  <2>1. id < nextId /\ id \notin freedIds
    BY <1>1, <1>2, NoneAssumption DEF Held, IInv, FreedApartFromHeld, Ids
  <2> QED  BY <1>1, <1>2, <2>1 DEF Released
<1>3. CASE ~Held(id)
  <2>1. id < nextId => id \in freedIds
    BY <1>3 DEF IInv, NoIdIsLost
  <2> QED  BY <1>1, <1>3, <2>1 DEF Released
<1> QED  BY <1>2, <1>3

(* Taking back the first freed id.                                         *)
LEMMA ReuseStep ==
    ASSUME IInv, NEW o \in Objects, Reuse(o)
    PROVE  IInv'
<1> PICK id \in freedIds :
        /\ held[o] = None
        /\ \A other \in freedIds : id <= other
        /\ freedIds' = freedIds \ {id}
        /\ held' = [held EXCEPT ![o] = id]
        /\ UNCHANGED nextId
  BY DEF Reuse
<1> USE DEF IInv
<1>0. id \in Ids /\ id \in Nat /\ id # None /\ id < nextId
  BY NoneAssumption DEF TypeOK, Ids, FreedApartFromHeld
<1>1. TypeOK'
  BY <1>0 DEF TypeOK
<1>2. FreedApartFromHeld'
  BY <1>0, <1>1 DEF FreedApartFromHeld, TypeOK
<1>3. NoIdIsLost'
  <2> SUFFICES ASSUME NEW i \in Ids, i < nextId
               PROVE  i \in freedIds' \/ Held(i)'
    BY DEF NoIdIsLost
  <2>1. CASE i = id
    BY <2>1 DEF Held, TypeOK
  <2>2. CASE i # id /\ i \notin freedIds
    <3>1. PICK q \in Objects : held[q] = i
      BY <2>2 DEF NoIdIsLost, Held
    <3>2. q # o
      BY <3>1, NoneAssumption DEF Ids
    <3> QED  BY <3>1, <3>2 DEF Held, TypeOK
  <2>3. CASE i # id /\ i \in freedIds
    BY <2>3
  <2> QED  BY <2>1, <2>2, <2>3
<1>4. UniqueIds'
  BY <1>0 DEF UniqueIds, FreedApartFromHeld, TypeOK
<1>5. CountIsLivePlayers'
  <2>1. LiveObjects' = LiveObjects \cup {o} /\ o \notin LiveObjects
    BY <1>0 DEF LiveObjects, TypeOK
  <2>2. Cardinality(LiveObjects') = Cardinality(LiveObjects) + 1
    BY <2>1, Finite, FS_AddElement
  <2>3. Cardinality(freedIds') = Cardinality(freedIds) - 1
    BY Finite, FS_RemoveElement
  <2>4. nextId - Cardinality(freedIds) = Cardinality(LiveObjects)
    BY DEF CountIsLivePlayers, AllocatedCount, LiveObjects
  <2>5. nextId' - Cardinality(freedIds') = Cardinality(LiveObjects')
    BY <2>2, <2>3, <2>4, Finite
  <2> QED  BY <2>5 DEF CountIsLivePlayers, AllocatedCount, LiveObjects
<1> QED  BY <1>1, <1>2, <1>3, <1>4, <1>5

(* Making a new id.                                                        *)
LEMMA FreshStep ==
    ASSUME IInv, NEW o \in Objects, Fresh(o)
    PROVE  IInv'
<1>0. /\ nextId \in Ids /\ nextId \in Nat /\ nextId # None
      /\ nextId' = nextId + 1 /\ nextId + 1 <= Cardinality(Objects)
      /\ freedIds = {} /\ freedIds' = {} /\ held[o] = None
      /\ held' = [held EXCEPT ![o] = nextId]
  <2>1. nextId' = nextId + 1 /\ nextId + 1 <= Cardinality(Objects)
    BY CounterDoesNotWrap
  <2>2. nextId \in Nat /\ nextId < Modulus /\ Modulus \in Nat
    BY Finite DEF IInv
  <2>3. nextId \in Ids /\ nextId # None
    BY <2>2, NoneAssumption DEF Ids
  <2> QED  BY <2>1, <2>2, <2>3 DEF Fresh
<1> USE DEF IInv
<1>1. TypeOK'
  BY <1>0, Finite DEF TypeOK
<1>2. FreedApartFromHeld'
  <2> SUFFICES ASSUME NEW q \in Objects, held'[q] # None
               PROVE  held'[q] < nextId'
    BY <1>0 DEF FreedApartFromHeld
  <2>1. CASE q = o
    BY <1>0, <2>1 DEF TypeOK
  <2>2. CASE q # o
    <3>1. held'[q] = held[q] /\ held[q] < nextId /\ held[q] \in Nat
      BY <1>0, <2>2 DEF TypeOK, FreedApartFromHeld, Ids
    <3> QED  BY <1>0, <3>1
  <2> QED  BY <2>1, <2>2
<1>3. NoIdIsLost'
  <2> SUFFICES ASSUME NEW i \in Ids, i < nextId'
               PROVE  Held(i)'
    BY DEF NoIdIsLost
  <2>1. CASE i = nextId
    BY <1>0, <2>1 DEF Held, TypeOK
  <2>2. CASE i # nextId
    <3>1. i < nextId
      BY <1>0, <2>2 DEF Ids
    <3>2. PICK q \in Objects : held[q] = i
      BY <1>0, <3>1 DEF NoIdIsLost, Held
    <3>3. q # o
      BY <1>0, <3>2, NoneAssumption DEF Ids
    <3> QED  BY <1>0, <3>2, <3>3 DEF Held, TypeOK
  <2> QED  BY <2>1, <2>2
<1>4. UniqueIds'
  <2>1. \A q \in Objects : held[q] # None => held[q] # nextId
    BY <1>0 DEF FreedApartFromHeld
  <2> QED  BY <1>0, <2>1 DEF UniqueIds, TypeOK
<1>5. CountIsLivePlayers'
  <2>1. LiveObjects' = LiveObjects \cup {o} /\ o \notin LiveObjects
    BY <1>0 DEF LiveObjects, TypeOK
  <2>2. Cardinality(LiveObjects') = Cardinality(LiveObjects) + 1
    BY <2>1, Finite, FS_AddElement
  <2>3. Cardinality(freedIds) = 0 /\ Cardinality(freedIds') = 0
    BY <1>0, FS_EmptySet
  <2>4. nextId - Cardinality(freedIds) = Cardinality(LiveObjects)
    BY DEF CountIsLivePlayers, AllocatedCount, LiveObjects
  <2>5. nextId' - Cardinality(freedIds') = Cardinality(LiveObjects')
    BY <1>0, <2>2, <2>3, <2>4
  <2> QED  BY <2>5 DEF CountIsLivePlayers, AllocatedCount, LiveObjects
<1> QED  BY <1>1, <1>2, <1>3, <1>4, <1>5

(* The destructor of a player.                                             *)
LEMMA ReleaseStep ==
    ASSUME IInv, NEW o \in Objects, Release(o)
    PROVE  IInv'
<1> DEFINE id == held[o]
<1> USE DEF IInv
<1>0. /\ id \in Ids /\ id \in Nat /\ id # None /\ id < nextId
      /\ id \notin freedIds /\ freedIds' = freedIds \cup {id}
      /\ held' = [held EXCEPT ![o] = None] /\ nextId' = nextId
  <2>1. id \in Ids /\ Held(id) /\ id # None
    BY DEF Release, TypeOK, Held
  <2> QED  BY <2>1, ReleasedIds DEF Release, Ids
<1> HIDE DEF id
<1>1. TypeOK'
  BY <1>0 DEF TypeOK
<1>2. FreedApartFromHeld'
  <2>1. \A q \in Objects : q # o /\ held[q] # None => held[q] # id
    BY DEF UniqueIds, id
  <2> QED  BY <1>0, <2>1 DEF FreedApartFromHeld, TypeOK
<1>3. NoIdIsLost'
  <2> SUFFICES ASSUME NEW i \in Ids, i < nextId, i \notin freedIds'
               PROVE  Held(i)'
    BY <1>0 DEF NoIdIsLost
  <2>1. PICK q \in Objects : held[q] = i
    BY <1>0 DEF NoIdIsLost, Held
  <2>2. q # o
    BY <1>0, <2>1 DEF id
  <2> QED  BY <1>0, <2>1, <2>2 DEF Held, TypeOK
<1>4. UniqueIds'
  BY <1>0 DEF UniqueIds, TypeOK
<1>5. CountIsLivePlayers'
  <2>1. LiveObjects' = LiveObjects \ {o} /\ o \in LiveObjects
    BY <1>0 DEF LiveObjects, TypeOK, id
  <2>2. Cardinality(LiveObjects') = Cardinality(LiveObjects) - 1
    BY <2>1, Finite, FS_RemoveElement
  <2>3. Cardinality(freedIds') = Cardinality(freedIds) + 1
    BY <1>0, Finite, FS_AddElement
  <2>4. nextId - Cardinality(freedIds) = Cardinality(LiveObjects)
    BY DEF CountIsLivePlayers, AllocatedCount, LiveObjects
  <2>5. nextId' - Cardinality(freedIds') = Cardinality(LiveObjects')
    BY <1>0, <2>2, <2>3, <2>4, Finite
  <2> QED  BY <2>5 DEF CountIsLivePlayers, AllocatedCount, LiveObjects
<1> QED  BY <1>1, <1>2, <1>3, <1>4, <1>5

(* reset, when there are no players.                                       *)
LEMMA ResetStep == IInv /\ Reset => IInv'
<1> SUFFICES ASSUME IInv, Reset PROVE IInv'
  OBVIOUS
<1>1. TypeOK'
  BY Finite DEF IInv, Reset, TypeOK
<1>2. FreedApartFromHeld' /\ NoIdIsLost' /\ UniqueIds'
  BY DEF IInv, Reset, FreedApartFromHeld, NoIdIsLost, UniqueIds, Ids
<1>3. CountIsLivePlayers'
  <2>1. {o \in Objects : held'[o] # None} = {}
    BY DEF Reset
  <2> QED
    BY <2>1, FS_EmptySet DEF Reset, CountIsLivePlayers, AllocatedCount
<1> QED  BY <1>1, <1>2, <1>3 DEF IInv

LEMMA Unchanged == IInv /\ UNCHANGED vars => IInv'
<1> SUFFICES ASSUME IInv, UNCHANGED vars PROVE IInv'
  OBVIOUS
<1> QED
  BY DEF IInv, vars, TypeOK, FreedApartFromHeld, NoIdIsLost, Held, UniqueIds,
         CountIsLivePlayers, AllocatedCount

(* The invariant is inductive.                                             *)
LEMMA NextIInv == IInv /\ [Next]_vars => IInv'
<1> SUFFICES ASSUME IInv, [Next]_vars PROVE IInv'
  OBVIOUS
<1>1. ASSUME NEW o \in Objects, Allocate(o) PROVE IInv'
  BY <1>1, ReuseStep, FreshStep DEF Allocate
<1>2. ASSUME NEW o \in Objects, Release(o) PROVE IInv'
  BY <1>2, ReleaseStep
<1>3. ASSUME NEW id \in Ids, StrayRelease(id) PROVE IInv'
  <2>1. UNCHANGED vars
    BY <1>3, ReleasedIds DEF StrayRelease, vars
  <2> QED  BY <2>1, Unchanged
<1>4. CASE Reset
  BY <1>4, ResetStep
<1>5. CASE UNCHANGED vars
  BY <1>5, Unchanged
<1> QED  BY <1>1, <1>2, <1>3, <1>4, <1>5 DEF Next

LEMMA Invariant == Spec => []IInv
BY InitIInv, NextIInv, PTL DEF Spec

(* The counter never passes the most players there can be at a time.       *)
THEOREM TypeCorrect == Spec => []TypeOK
<1>1. IInv => TypeOK
  BY DEF IInv
<1> QED  BY <1>1, Invariant, PTL

(* No two players have the same entity id.                                 *)
THEOREM IdsAreUnique == Spec => []UniqueIds
<1>1. IInv => UniqueIds
  BY DEF IInv
<1> QED  BY <1>1, Invariant, PTL

(* getAllocatedCount is the number of players.                             *)
THEOREM CountIsCorrect == Spec => []CountIsLivePlayers
<1>1. IInv => CountIsLivePlayers
  BY DEF IInv
<1> QED  BY <1>1, Invariant, PTL

(* Every step of the manager gives the least unused id, takes one back, or *)
(* changes nobody's id.                                                    *)
LEMMA StepRefines == IInv /\ [Next]_vars => [Least!Next]_held
<1> SUFFICES ASSUME IInv, [Next]_vars PROVE [Least!Next]_held
  OBVIOUS
<1> USE DEF Least!Next, Least!Take, Least!Give, Least!InUse
<1>1. ASSUME NEW o \in Objects, Reuse(o) PROVE Least!Next
  <2> PICK id \in freedIds :
        /\ held[o] = None
        /\ \A other \in freedIds : id <= other
        /\ held' = [held EXCEPT ![o] = id]
    BY <1>1 DEF Reuse
  <2>1. id \in Ids /\ id \in Nat /\ id < nextId /\ nextId \in Nat
    BY Finite DEF IInv, TypeOK, Ids, FreedApartFromHeld
  <2>2. ~Least!InUse(id)
    BY <2>1, NoneAssumption DEF IInv, FreedApartFromHeld
  <2>3. ASSUME NEW lower \in Ids, lower < id PROVE Least!InUse(lower)
    <3>1. lower < nextId /\ lower \notin freedIds
      BY <2>1, <2>3 DEF Ids
    <3> QED  BY <3>1 DEF IInv, NoIdIsLost, Held
  <2>4. Least!Take(o, id)
    BY <2>2, <2>3
  <2> QED  BY <2>1, <2>4
<1>2. ASSUME NEW o \in Objects, Fresh(o) PROVE Least!Next
  <2>1. nextId \in Ids /\ nextId \in Nat /\ freedIds = {}
    BY <1>2, Finite DEF IInv, Fresh, Ids
  <2>2. ~Least!InUse(nextId)
    BY <2>1, NoneAssumption DEF IInv, FreedApartFromHeld
  <2>3. ASSUME NEW lower \in Ids, lower < nextId PROVE Least!InUse(lower)
    BY <2>1, <2>3 DEF IInv, NoIdIsLost, Held
  <2>4. Least!Take(o, nextId)
    BY <1>2, <2>2, <2>3 DEF Fresh
  <2> QED  BY <2>1, <2>4
<1>3. ASSUME NEW o \in Objects, Release(o) PROVE Least!Next
  BY <1>3 DEF Release
<1>4. ASSUME NEW id \in Ids, StrayRelease(id) PROVE UNCHANGED held
  BY <1>4 DEF StrayRelease
<1>5. CASE Reset
  BY <1>5 DEF Reset
<1>6. CASE UNCHANGED vars
  BY <1>6 DEF vars
<1> QED
  BY <1>1, <1>2, <1>3, <1>4, <1>5, <1>6 DEF Next, Allocate

(* IdManager implements LeastFreeIds.                                      *)
THEOREM Refinement == Spec => ImplementsLeastFreeIds
<1>1. Init => Least!Init
  BY DEF Init, Least!Init
<1> QED
  BY <1>1, StepRefines, Invariant, PTL DEF Spec, ImplementsLeastFreeIds,
     Least!Spec
=============================================================================
