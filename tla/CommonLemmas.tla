---------------------------- MODULE CommonLemmas ----------------------------
(***************************************************************************)
(* What the proofs about several components need: induction, and why items *)
(* leave a queue in the order in which they were accepted.                 *)
(***************************************************************************)
EXTENDS Integers, Sequences, SequenceTheorems, WellFoundedInduction, TLAPS

-----------------------------------------------------------------------------
(* Induction and recursion over 0..N.  The theorems of NaturalsInduction    *)
(* take an operator, for which the provers can put none: here it is a set, *)
(* which they can, and all of it follows from NatLessThanWellFounded.      *)

(* Of natural numbers, if there are any, one is the least.                 *)
LEMMA LeastNumber ==
    ASSUME NEW T, T \subseteq Nat, T # {}
    PROVE  \E x \in T : \A y \in T : x <= y
<1> DEFINE R == {ss \in Nat \X Nat : ss[1] < ss[2]}
<1>1. IsWellFoundedOn(R, Nat)
  BY NatLessThanWellFounded DEF OpToRel
<1>2. \E x \in T : \A y \in T : ~ (<<y, x>> \in R)
  <2> HIDE DEF R
  <2> QED BY <1>1, WFMin
<1>3. PICK x \in T : \A y \in T : ~ (<<y, x>> \in R)
  BY <1>2
<1>4. ASSUME NEW y \in T PROVE x <= y
  <2>1. x \in Nat /\ y \in Nat /\ ~ (<<y, x>> \in R)
    BY <1>3
  <2> QED  BY <2>1
<1> QED  BY <1>4

(* Induction up to N, about a set instead of a formula.                    *)
LEMMA Induction ==
    ASSUME NEW N \in Nat, NEW S, 0 \in S,
           \A n \in 0..(N - 1) : n \in S => n + 1 \in S
    PROVE  0..N \subseteq S
<1> DEFINE T == (0..N) \ S
<1>1. SUFFICES ASSUME T # {} PROVE FALSE
  OBVIOUS
<1>2. PICK x \in T : \A y \in T : x <= y
  <2> HIDE DEF T
  <2>1. T \subseteq Nat
    BY DEF T
  <2> QED  BY <1>1, <2>1, LeastNumber
<1>3. x # 0 /\ x - 1 \in 0..(N - 1) /\ x - 1 \notin T
  BY <1>2
<1> QED  BY <1>2, <1>3

(* A function that is defined by recursion over 0..N exists.               *)
IsIteration(f, N, base, step) ==
    f[0] = base /\ \A i \in 1..N : f[i] = step[<<i, f[i - 1]>>]

LEMMA Iteration ==
    ASSUME NEW N \in Nat, NEW S, NEW base \in S,
           NEW step \in [(1..N) \X S -> S]
    PROVE  \E f \in [0..N -> S] : IsIteration(f, N, base, step)
<1> DEFINE Steps(f, n) == f[0] = base /\ \A i \in 1..n : f[i] = step[<<i, f[i - 1]>>]
           Can == {n \in 0..N : \E f \in [0..n -> S] : Steps(f, n)}
<1>1. 0 \in Can
  <2> DEFINE g == [i \in 0..0 |-> base]
  <2>1. g \in [0..0 -> S] /\ g[0] = base /\ 0 \in 0..N
    OBVIOUS
  <2>2. \A i \in 1..0 : g[i] = step[<<i, g[i - 1]>>]
    OBVIOUS
  <2>3. \E f \in [0..0 -> S] : Steps(f, 0)
    <3> WITNESS g \in [0..0 -> S]
    <3> QED  BY <2>1, <2>2
  <2> QED  BY <2>1, <2>3
<1>2. ASSUME NEW n \in 0..(N - 1), n \in Can
      PROVE  n + 1 \in Can
  <2>1. PICK f \in [0..n -> S] : Steps(f, n)
    BY <1>2
  <2> DEFINE g == [i \in 0..(n + 1) |-> IF i = n + 1 THEN step[<<n + 1, f[n]>>] ELSE f[i]]
  <2>2. step[<<n + 1, f[n]>>] \in S
    BY n + 1 \in 1..N
  <2>3. g \in [0..(n + 1) -> S]
    BY <2>2
  <2>4. g[0] = base
    BY <2>1
  <2>5. ASSUME NEW i \in 1..(n + 1)
        PROVE  g[i] = step[<<i, g[i - 1]>>]
    <3>1. CASE i = n + 1
      <4>1. i - 1 = n /\ n \in 0..(n + 1) /\ n # n + 1 /\ i \in 0..(n + 1)
        BY <3>1
      <4>2. g[i] = step[<<n + 1, f[n]>>] /\ g[i - 1] = f[n]
        BY <3>1, <4>1
      <4> HIDE DEF g
      <4> QED  BY <3>1, <4>2
    <3>2. CASE i # n + 1
      BY <2>1, <3>2
    <3> QED  BY <3>1, <3>2
  <2>6. \E h \in [0..(n + 1) -> S] : Steps(h, n + 1)
    <3> HIDE DEF g
    <3> WITNESS g \in [0..(n + 1) -> S]
    <3> QED  BY <2>4, <2>5
  <2>7. n + 1 \in 0..N
    OBVIOUS
  <2> HIDE DEF Steps
  <2> QED  BY <2>6, <2>7
<1>3. 0..N \subseteq Can
  <2> HIDE DEF Can
  <2> QED  BY <1>1, <1>2, Induction
<1>4. N \in 0..N
  OBVIOUS
<1>5. \E f \in [0..N -> S] : Steps(f, N)
  <2> HIDE DEF Steps
  <2> QED  BY <1>3, <1>4
<1> QED  BY <1>5 DEF IsIteration

(* Two of them with the same steps are the same.                           *)
SameSteps(f, g, N) ==
    f[0] = g[0] /\ \A i \in 1..N : f[i - 1] = g[i - 1] => f[i] = g[i]

LEMMA SameIteration ==
    ASSUME NEW N \in Nat, NEW f, NEW g, SameSteps(f, g, N)
    PROVE  \A i \in 0..N : f[i] = g[i]
<1> USE DEF SameSteps
<1> DEFINE Same == {i \in 0..N : f[i] = g[i]}
<1>1. 0 \in Same
  OBVIOUS
<1>2. ASSUME NEW n \in 0..(N - 1), n \in Same
      PROVE  n + 1 \in Same
  <2>1. n + 1 \in 1..N /\ n + 1 - 1 = n
    OBVIOUS
  <2> QED  BY <1>2, <2>1
<1>3. 0..N \subseteq Same
  <2> HIDE DEF Same
  <2> QED  BY <1>1, <1>2, Induction
<1> QED  BY <1>3

-----------------------------------------------------------------------------
(* Waiting lines: `accepted' is the history of the items put in, the first *)
(* k of which have left; `queue' is what still waits.  A queue may hold    *)
(* other things in between: poison pills, the items of another channel.    *)
(* The two are compared position by position, without a filtering of the   *)
(* queue.                                                                  *)
NoRepeats(accepted) ==
    \A a, b \in 1..Len(accepted) : accepted[a] = accepted[b] => a = b

\* The items in the queue are those accepted after the first k, in order.
WaitInOrder(accepted, k, queue, Items) ==
    /\ \A i \in 1..Len(queue) : queue[i] \in Items =>
           \E a \in (k + 1)..Len(accepted) : accepted[a] = queue[i]
    /\ \A a \in (k + 1)..Len(accepted) :
           \E i \in 1..Len(queue) : queue[i] = accepted[a]
    /\ \A i, j \in 1..Len(queue), a, b \in 1..Len(accepted) :
           i < j /\ queue[i] = accepted[a] /\ queue[j] = accepted[b] => a < b

(* A new item is accepted, and goes to the end of the queue.               *)
LEMMA ItemJoins ==
    ASSUME NEW Items, NEW S, NEW accepted \in Seq(Items), NEW queue \in Seq(S),
           NEW k \in Nat, k <= Len(accepted), NEW x \in Items \cap S,
           \A a \in 1..Len(accepted) : accepted[a] # x,
           NoRepeats(accepted), WaitInOrder(accepted, k, queue, Items)
    PROVE  /\ NoRepeats(Append(accepted, x))
           /\ WaitInOrder(Append(accepted, x), k, Append(queue, x), Items)
<1> DEFINE acc == Append(accepted, x)
           q == Append(queue, x)
<1>1. /\ Len(acc) = Len(accepted) + 1 /\ acc[Len(accepted) + 1] = x
      /\ \A a \in 1..Len(accepted) : acc[a] = accepted[a]
      /\ Len(accepted) \in Nat
  BY AppendProperties, LenProperties
<1>2. /\ Len(q) = Len(queue) + 1 /\ q[Len(queue) + 1] = x
      /\ \A i \in 1..Len(queue) : q[i] = queue[i]
      /\ Len(queue) \in Nat
  BY AppendProperties, LenProperties
<1>3. \A i \in 1..Len(queue) : queue[i] # x
  BY DEF WaitInOrder
<1> HIDE DEF acc, q
<1>4. NoRepeats(acc)
  BY <1>1 DEF NoRepeats
<1>5. ASSUME NEW i \in 1..Len(q), q[i] \in Items
      PROVE  \E a \in (k + 1)..Len(acc) : acc[a] = q[i]
  <2>1. CASE i = Len(queue) + 1
    BY <1>1, <1>2, <2>1
  <2>2. CASE i \in 1..Len(queue)
    <3>1. PICK a \in (k + 1)..Len(accepted) : accepted[a] = queue[i]
      BY <1>2, <1>5, <2>2 DEF WaitInOrder
    <3> QED  BY <1>1, <1>2, <2>2, <3>1
  <2> QED  BY <1>2, <2>1, <2>2
<1>6. ASSUME NEW a \in (k + 1)..Len(acc)
      PROVE  \E i \in 1..Len(q) : q[i] = acc[a]
  <2>1. CASE a = Len(accepted) + 1
    BY <1>1, <1>2, <2>1
  <2>2. CASE a \in (k + 1)..Len(accepted)
    <3>1. PICK i \in 1..Len(queue) : queue[i] = accepted[a]
      BY <2>2 DEF WaitInOrder
    <3> QED  BY <1>1, <1>2, <2>2, <3>1
  <2> QED  BY <1>1, <2>1, <2>2
<1>7. ASSUME NEW i \in 1..Len(q), NEW j \in 1..Len(q),
             NEW a \in 1..Len(acc), NEW b \in 1..Len(acc),
             i < j, q[i] = acc[a], q[j] = acc[b]
      PROVE  a < b
  <2>1. i \in 1..Len(queue) /\ q[i] = queue[i] /\ q[i] # x
    BY <1>2, <1>3, <1>7
  <2>2. a \in 1..Len(accepted) /\ acc[a] = accepted[a]
    <3>1. a \in 1..(Len(accepted) + 1)
      BY <1>1
    <3>2. acc[a] # x
      BY <1>7, <2>1
    <3>3. a # Len(accepted) + 1
      BY <1>1, <3>2
    <3>4. a \in 1..Len(accepted)
      BY <1>1, <3>1, <3>3
    <3> QED  BY <1>1, <3>4
  <2>3. CASE j = Len(queue) + 1
    BY <1>1, <1>2, <1>7, <2>2, <2>3
  <2>4. CASE j \in 1..Len(queue)
    <3>1. q[j] = queue[j] /\ acc[b] # x
      BY <1>2, <1>3, <1>7, <2>4
    <3>2. b \in 1..(Len(accepted) + 1) /\ b # Len(accepted) + 1
      BY <1>1, <3>1
    <3>3. b \in 1..Len(accepted) /\ acc[b] = accepted[b]
      BY <1>1, <3>2
    <3>4. queue[i] = accepted[a] /\ queue[j] = accepted[b]
      BY <1>7, <2>1, <2>2, <3>1, <3>3
    <3> QED  BY <1>7, <2>1, <2>2, <2>4, <3>3, <3>4 DEF WaitInOrder
  <2> QED  BY <1>2, <2>3, <2>4
<1>8. WaitInOrder(acc, k, q, Items)
  BY <1>5, <1>6, <1>7 DEF WaitInOrder
<1> QED  BY <1>4, <1>8 DEF acc, q

(* Something else goes to the end of the queue.                            *)
LEMMA OtherJoins ==
    ASSUME NEW Items, NEW S, NEW accepted \in Seq(Items), NEW queue \in Seq(S),
           NEW k \in Nat, NEW x \in S, x \notin Items,
           WaitInOrder(accepted, k, queue, Items)
    PROVE  WaitInOrder(accepted, k, Append(queue, x), Items)
<1> DEFINE q == Append(queue, x)
<1>1. /\ Len(q) = Len(queue) + 1 /\ q[Len(queue) + 1] = x
      /\ \A i \in 1..Len(queue) : q[i] = queue[i]
      /\ Len(queue) \in Nat
  BY AppendProperties, LenProperties
<1>2. \A a \in 1..Len(accepted) : accepted[a] # x
  OBVIOUS
<1> HIDE DEF q
<1>3. ASSUME NEW i \in 1..Len(q), q[i] \in Items
      PROVE  i \in 1..Len(queue) /\ q[i] = queue[i]
  BY <1>1, <1>3
<1>4. ASSUME NEW i \in 1..Len(q), q[i] \in Items
      PROVE  \E a \in (k + 1)..Len(accepted) : accepted[a] = q[i]
  <2>1. i \in 1..Len(queue) /\ q[i] = queue[i]
    BY <1>3, <1>4
  <2> QED  BY <1>4, <2>1 DEF WaitInOrder
<1>5. ASSUME NEW a \in (k + 1)..Len(accepted)
      PROVE  \E i \in 1..Len(q) : q[i] = accepted[a]
  <2>1. PICK i \in 1..Len(queue) : queue[i] = accepted[a]
    BY <1>5 DEF WaitInOrder
  <2> QED  BY <1>1, <2>1
<1>6. ASSUME NEW i \in 1..Len(q), NEW j \in 1..Len(q),
             NEW a \in 1..Len(accepted), NEW b \in 1..Len(accepted),
             i < j, q[i] = accepted[a], q[j] = accepted[b]
      PROVE  a < b
  <2>1. q[i] \in Items /\ q[j] \in Items
    BY <1>6
  <2>2. i \in 1..Len(queue) /\ q[i] = queue[i]
    BY <1>3, <2>1
  <2>3. j \in 1..Len(queue) /\ q[j] = queue[j]
    BY <1>3, <2>1
  <2> QED  BY <1>6, <2>2, <2>3 DEF WaitInOrder
<1>7. WaitInOrder(accepted, k, q, Items)
  BY <1>4, <1>5, <1>6 DEF WaitInOrder
<1> QED  BY <1>7 DEF q

(* An item at the head of the queue is the next one to leave.              *)
LEMMA ItemLeaves ==
    ASSUME NEW Items, NEW S, NEW accepted \in Seq(Items), NEW queue \in Seq(S),
           NEW k \in Nat, queue # <<>>, Head(queue) \in Items,
           NoRepeats(accepted), WaitInOrder(accepted, k, queue, Items)
    PROVE  /\ k < Len(accepted)
           /\ Head(queue) = accepted[k + 1]
           /\ WaitInOrder(accepted, k + 1, Tail(queue), Items)
<1> DEFINE q == Tail(queue)
<1>1. /\ Head(queue) = queue[1] /\ Len(queue) \in Nat \ {0}
      /\ Len(q) = Len(queue) - 1
      /\ \A i \in 1..Len(q) : q[i] = queue[i + 1]
      /\ Len(accepted) \in Nat
  BY HeadTailProperties, LenProperties, EmptySeq
<1> HIDE DEF q
<1>2. PICK first \in (k + 1)..Len(accepted) : accepted[first] = queue[1]
  BY <1>1 DEF WaitInOrder
<1>3. PICK place \in 1..Len(queue) : queue[place] = accepted[k + 1]
  BY <1>1, <1>2 DEF WaitInOrder
<1>4. place = 1
  <2>1. SUFFICES ASSUME place # 1 PROVE FALSE
    OBVIOUS
  <2>2. 1 < place /\ k + 1 \in 1..Len(accepted) /\ first \in 1..Len(accepted)
    BY <1>1, <1>2, <2>1
  <2>3. first < k + 1
    BY <1>1, <1>2, <1>3, <2>2, SMTT(30) DEF WaitInOrder
  <2> QED  BY <1>2, <2>3
<1>5. k < Len(accepted) /\ Head(queue) = accepted[k + 1]
  BY <1>1, <1>2, <1>3, <1>4
<1>6. ASSUME NEW i \in 1..Len(q), q[i] \in Items
      PROVE  \E a \in (k + 2)..Len(accepted) : accepted[a] = q[i]
  <2>1. i + 1 \in 1..Len(queue) /\ 1 \in 1..Len(queue) /\ 1 < i + 1
    BY <1>1
  <2>2. PICK a \in (k + 1)..Len(accepted) : accepted[a] = queue[i + 1]
    BY <1>1, <1>6, <2>1 DEF WaitInOrder
  <2>3. k + 1 < a
    BY <1>1, <1>5, <2>1, <2>2 DEF WaitInOrder
  <2> QED  BY <1>1, <2>2, <2>3
<1>7. ASSUME NEW a \in (k + 2)..Len(accepted)
      PROVE  \E i \in 1..Len(q) : q[i] = accepted[a]
  <2>1. PICK i \in 1..Len(queue) : queue[i] = accepted[a]
    BY <1>7 DEF WaitInOrder
  <2>2. i # 1
    BY <1>1, <1>5, <1>7, <2>1 DEF NoRepeats
  <2>3. i - 1 \in 1..Len(q) /\ q[i - 1] = queue[i]
    BY <1>1, <2>1, <2>2
  <2> QED  BY <2>1, <2>3
<1>8. ASSUME NEW i \in 1..Len(q), NEW j \in 1..Len(q),
             NEW a \in 1..Len(accepted), NEW b \in 1..Len(accepted),
             i < j, q[i] = accepted[a], q[j] = accepted[b]
      PROVE  a < b
  <2>1. i + 1 \in 1..Len(queue) /\ j + 1 \in 1..Len(queue) /\ i + 1 < j + 1
    BY <1>1, <1>8
  <2> QED  BY <1>1, <1>8, <2>1 DEF WaitInOrder
<1>9. WaitInOrder(accepted, k + 1, q, Items)
  BY <1>6, <1>7, <1>8 DEF WaitInOrder
<1> QED  BY <1>5, <1>9 DEF q

(* Something else leaves: the items behind it move up.                     *)
LEMMA OtherLeaves ==
    ASSUME NEW Items, NEW S, NEW accepted \in Seq(Items), NEW queue \in Seq(S),
           NEW k \in Nat, queue # <<>>, Head(queue) \notin Items,
           WaitInOrder(accepted, k, queue, Items)
    PROVE  WaitInOrder(accepted, k, Tail(queue), Items)
<1> DEFINE q == Tail(queue)
<1>1. /\ Head(queue) = queue[1] /\ Len(queue) \in Nat \ {0}
      /\ Len(q) = Len(queue) - 1
      /\ \A i \in 1..Len(q) : q[i] = queue[i + 1] /\ i + 1 \in 1..Len(queue)
      /\ \A a \in 1..Len(accepted) : accepted[a] \in Items
  BY HeadTailProperties, LenProperties, EmptySeq
<1> HIDE DEF q
<1>2. ASSUME NEW a \in (k + 1)..Len(accepted)
      PROVE  \E i \in 1..Len(q) : q[i] = accepted[a]
  <2>1. PICK i \in 1..Len(queue) : queue[i] = accepted[a]
    BY <1>2 DEF WaitInOrder
  <2>2. a \in 1..Len(accepted) /\ i # 1
    BY <1>1, <2>1, LenProperties
  <2>3. i - 1 \in 1..Len(q) /\ q[i - 1] = queue[i]
    BY <1>1, <2>1, <2>2
  <2> QED  BY <2>1, <2>3
<1>3. ASSUME NEW i \in 1..Len(q), q[i] \in Items
      PROVE  \E a \in (k + 1)..Len(accepted) : accepted[a] = q[i]
  <2>1. i + 1 \in 1..Len(queue) /\ q[i] = queue[i + 1]
    BY <1>1
  <2> QED  BY <1>3, <2>1 DEF WaitInOrder
<1>4. ASSUME NEW i \in 1..Len(q), NEW j \in 1..Len(q),
             NEW a \in 1..Len(accepted), NEW b \in 1..Len(accepted),
             i < j, q[i] = accepted[a], q[j] = accepted[b]
      PROVE  a < b
  <2>1. i + 1 \in 1..Len(queue) /\ j + 1 \in 1..Len(queue) /\ i + 1 < j + 1
    BY <1>1, <1>4
  <2> QED  BY <1>1, <1>4, <2>1, SMTT(30) DEF WaitInOrder
<1>5. WaitInOrder(accepted, k, q, Items)
  BY <1>2, <1>3, <1>4 DEF WaitInOrder
<1> QED  BY <1>5 DEF q
=============================================================================
