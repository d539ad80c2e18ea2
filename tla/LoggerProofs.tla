---------------------------- MODULE LoggerProofs ----------------------------
(***************************************************************************)
(* No entry is lost between log() and its file, for any set of entries.    *)
(*                                                                         *)
(* The inductive invariant says where an entry can be while there is a     *)
(* writer: in the queue, in the writer's hands, or in the file of its      *)
(* category; and that the phases of logger and writer agree: the writer    *)
(* runs with both files open, ends only with an empty queue after log()    *)
(* can be called no more, and is gone when the files are closed.           *)
(***************************************************************************)
EXTENDS Logger, CommonLemmas

HandMatchesPc ==
    IF writerPc = "write" THEN Len(entry) = 1 ELSE entry = <<>>

PhasesAgree ==
    /\ mainPc = "construct" => writerPc = "none" /\ ~running
    /\ mainPc = "up" => (running <=> writerPc # "none") /\ writerPc # "done"
    /\ mainPc = "join" => ~running /\ writerPc # "none"
    /\ mainPc \in {"close", "destroyed"} => writerPc \in {"none", "done"}
    /\ writerPc = "done" => ~running /\ logQueue = <<>>
    /\ writerPc \notin {"none", "done"} => \A c \in Categories : isOpen[c]

\* An entry is logged under its own category, and never without a writer
\* that has it, will have it, or had it.
EntriesAccounted ==
    /\ mainPc = "construct" => \A c \in Categories : logged[c] = <<>>
    /\ \A c \in Categories : logged[c] \in Seq(EntriesOf(c))
    /\ writerPc # "none" =>
           \A c \in Categories, e \in Entries :
               Occurs(e, logged[c]) => \/ Occurs(e, logQueue)
                                       \/ Occurs(e, entry)
                                       \/ Occurs(e, file[c])

IInv == TypeOK /\ HandMatchesPc /\ PhasesAgree /\ EntriesAccounted

LEMMA Sorts ==
    /\ \A e \in Entries : /\ CategoryOf(e) \in Categories
                          /\ e \in EntriesOf(CategoryOf(e))
    /\ \A c \in Categories : /\ EntriesOf(c) \subseteq Entries
                             /\ \A e \in EntriesOf(c) : CategoryOf(e) = c
BY CategoriesAssumption DEF Entries, Categories, EntriesOf, CategoryOf

(* Where an element is after an append, in a tail and in a concatenation.  *)
LEMMA OccursInAppend ==
    ASSUME NEW S, NEW seq \in Seq(S), NEW x \in S, NEW e
    PROVE  Occurs(e, Append(seq, x)) <=> e = x \/ Occurs(e, seq)
<1>1. /\ Len(Append(seq, x)) = Len(seq) + 1
      /\ \A i \in 1..Len(seq) : Append(seq, x)[i] = seq[i]
      /\ Append(seq, x)[Len(seq) + 1] = x
  BY AppendProperties
<1>2. Len(seq) \in Nat
  BY LenProperties
<1> QED  BY <1>1, <1>2 DEF Occurs

LEMMA OccursInTail ==
    ASSUME NEW S, NEW seq \in Seq(S), seq # <<>>, NEW e, Occurs(e, seq)
    PROVE  e = Head(seq) \/ Occurs(e, Tail(seq))
<1>1. PICK i \in 1..Len(seq) : seq[i] = e
  BY DEF Occurs
<1>2. Len(seq) \in Nat /\ Head(seq) = seq[1]
  BY LenProperties DEF Head
<1>3. /\ Len(Tail(seq)) = Len(seq) - 1
      /\ \A j \in 1..(Len(seq) - 1) : Tail(seq)[j] = seq[j + 1]
  BY HeadTailProperties
<1>4. CASE i = 1
  BY <1>1, <1>2, <1>4
<1>5. CASE i # 1
  <2>1. i - 1 \in 1..(Len(seq) - 1) /\ Tail(seq)[i - 1] = e
    BY <1>1, <1>2, <1>3, <1>5
  <2> QED  BY <2>1, <1>3 DEF Occurs
<1> QED  BY <1>4, <1>5

LEMMA OccursInConcat ==
    ASSUME NEW S, NEW s \in Seq(S), NEW t \in Seq(S), NEW e
    PROVE  Occurs(e, s) \/ Occurs(e, t) => Occurs(e, s \o t)
<1>1. /\ Len(s \o t) = Len(s) + Len(t)
      /\ \A i \in 1..(Len(s) + Len(t)) :
            (s \o t)[i] = IF i <= Len(s) THEN s[i] ELSE t[i - Len(s)]
  BY ConcatProperties
<1>2. Len(s) \in Nat /\ Len(t) \in Nat
  BY LenProperties
<1>3. ASSUME Occurs(e, s) PROVE Occurs(e, s \o t)
  BY <1>1, <1>2, <1>3 DEF Occurs
<1>4. ASSUME Occurs(e, t) PROVE Occurs(e, s \o t)
  <2>1. PICK i \in 1..Len(t) : t[i] = e
    BY <1>4 DEF Occurs
  <2>2. /\ i + Len(s) \in 1..(Len(s) + Len(t))
        /\ (s \o t)[i + Len(s)] = t[i]
    BY <1>1, <1>2, <2>1
  <2> QED  BY <1>1, <2>1, <2>2 DEF Occurs
<1> QED  BY <1>3, <1>4

LEMMA InitIInv == Init => IInv
<1> SUFFICES ASSUME Init PROVE IInv
  OBVIOUS
<1>1. <<>> \in Seq(Entries) /\ \A c \in Categories : <<>> \in Seq(EntriesOf(c))
  OBVIOUS
<1>2. TypeOK
  BY <1>1 DEF Init, TypeOK
<1>3. HandMatchesPc /\ PhasesAgree
  BY DEF Init, HandMatchesPc, PhasesAgree
<1>4. EntriesAccounted
  BY <1>1 DEF Init, EntriesAccounted
<1> QED  BY <1>2, <1>3, <1>4 DEF IInv

(* A call of log() puts the entry where the writer will find it.           *)
LEMMA LogStep ==
    ASSUME IInv, NEW x \in Entries, Log(x)
    PROVE  IInv'
<1> DEFINE d == CategoryOf(x)
<1> USE DEF IInv
<1>0. d \in Categories /\ x \in EntriesOf(d)
  BY Sorts
<1>1. /\ logQueue' = Append(logQueue, x)
      /\ logged' = [logged EXCEPT ![d] = Append(logged[d], x)]
      /\ UNCHANGED <<mainPc, running, isOpen, writerPc, entry, file>>
      /\ mainPc = "up"
  BY DEF Log
<1>2. /\ logQueue \in Seq(Entries) /\ logged[d] \in Seq(EntriesOf(d))
      /\ logged[d] \in Seq(Entries) /\ logged \in [Categories -> Seq(Entries)]
  BY <1>0 DEF TypeOK, EntriesAccounted
<1> HIDE DEF d
<1>3. /\ logQueue' \in Seq(Entries) /\ Append(logged[d], x) \in Seq(Entries)
      /\ Append(logged[d], x) \in Seq(EntriesOf(d))
  BY <1>0, <1>1, <1>2
<1>4. TypeOK'
  BY <1>1, <1>2, <1>3 DEF TypeOK
<1>5. HandMatchesPc' /\ PhasesAgree'
  BY <1>1 DEF HandMatchesPc, PhasesAgree
<1>6. EntriesAccounted'
  <2>1. \A c \in Categories :
            logged'[c] = IF c = d THEN Append(logged[d], x) ELSE logged[c]
    BY <1>1, <1>2
  <2>2. \A c \in Categories : logged'[c] \in Seq(EntriesOf(c))
    BY <1>0, <1>3, <2>1 DEF EntriesAccounted
  <2>3. ASSUME writerPc' # "none", NEW c \in Categories, NEW e \in Entries,
               Occurs(e, logged'[c])
        PROVE  Occurs(e, logQueue') \/ Occurs(e, entry') \/ Occurs(e, file'[c])
    <3>1. e = x \/ Occurs(e, logged[c])
      BY <2>1, <2>3, <1>0, <1>2, OccursInAppend
    <3>2. e = x \/ Occurs(e, logQueue) => Occurs(e, logQueue')
      BY <1>1, <1>2, OccursInAppend
    <3>3. Occurs(e, logged[c]) =>
              Occurs(e, logQueue) \/ Occurs(e, entry) \/ Occurs(e, file[c])
      BY <1>1, <2>3 DEF EntriesAccounted
    <3> QED  BY <1>1, <3>1, <3>2, <3>3
  <2> QED  BY <1>1, <2>2, <2>3 DEF EntriesAccounted
<1> QED  BY <1>4, <1>5, <1>6

(* The writer takes an entry into its hands.                               *)
LEMMA PopStep == IInv /\ WriterPops => IInv'
<1> SUFFICES ASSUME IInv, WriterPops PROVE IInv'
  OBVIOUS
<1> USE DEF IInv
<1>1. /\ logQueue # <<>> /\ logQueue \in Seq(Entries)
      /\ entry' = <<Head(logQueue)>> /\ logQueue' = Tail(logQueue)
      /\ writerPc = "pop" /\ writerPc' = "write"
      /\ UNCHANGED <<mainPc, running, isOpen, file, logged>>
  BY DEF WriterPops, TypeOK
<1>2. Head(logQueue) \in Entries /\ Tail(logQueue) \in Seq(Entries)
  BY <1>1
<1>3. entry' \in Seq(Entries) /\ Len(entry') = 1 /\ entry'[1] = Head(logQueue)
  BY <1>1, <1>2
<1>4. TypeOK'
  BY <1>1, <1>2, <1>3 DEF TypeOK
<1>5. HandMatchesPc' /\ PhasesAgree'
  BY <1>1, <1>3 DEF HandMatchesPc, PhasesAgree
<1>6. EntriesAccounted'
  <2>1. entry = <<>>
    BY <1>1 DEF HandMatchesPc
  <2>2. ASSUME NEW e \in Entries, Occurs(e, logQueue)
        PROVE  Occurs(e, entry') \/ Occurs(e, logQueue')
    <3>1. e = Head(logQueue) \/ Occurs(e, Tail(logQueue))
      BY <1>1, <2>2, OccursInTail
    <3> QED  BY <1>1, <1>3, <3>1 DEF Occurs
  <2>3. \A e : ~Occurs(e, entry)
    BY <2>1 DEF Occurs
  <2> QED  BY <1>1, <2>2, <2>3 DEF EntriesAccounted
<1> QED  BY <1>4, <1>5, <1>6

(* It writes the entry to the file of its category, which is open.         *)
LEMMA WriteStep == IInv /\ WriterWrites => IInv'
<1> SUFFICES ASSUME IInv, WriterWrites PROVE IInv'
  OBVIOUS
<1> USE DEF IInv
<1> DEFINE x == Head(entry)
           d == CategoryOf(x)
<1>1. /\ writerPc = "write" /\ writerPc' = "check" /\ entry' = <<>>
      /\ UNCHANGED <<mainPc, running, isOpen, logQueue, logged>>
      /\ entry \in Seq(Entries) /\ Len(entry) = 1
  BY DEF WriterWrites, TypeOK, HandMatchesPc
<1>2. entry = <<x>> /\ x \in Entries /\ entry[1] = x
  BY <1>1
<1>3. d \in Categories /\ x \in EntriesOf(d)
  BY <1>2, Sorts
<1>4. file' = [file EXCEPT ![d] = file[d] \o entry]
  BY <1>1, <1>3 DEF WriterWrites, PhasesAgree
<1>5. /\ file \in [Categories -> Seq(Entries)]
      /\ file[d] \in Seq(EntriesOf(d)) /\ file[d] \in Seq(Entries)
      /\ entry \in Seq(EntriesOf(d))
  <2>1. <<x>> \in Seq(EntriesOf(d))
    BY <1>3
  <2>2. entry \in Seq(EntriesOf(d))
    BY <1>2, <2>1, Zenon
  <2>3. /\ file \in [Categories -> Seq(Entries)]
        /\ \A c \in Categories : file[c] \in Seq(EntriesOf(c))
    BY DEF TypeOK
  <2>4. QED
    BY <1>3, <2>2, <2>3, Zenon
<1> HIDE DEF x, d
<1>6. /\ file[d] \o entry \in Seq(EntriesOf(d))
      /\ file[d] \o entry \in Seq(Entries)
  BY <1>1, <1>5
<1>7. TypeOK'
  BY <1>1, <1>3, <1>4, <1>5, <1>6 DEF TypeOK
<1>8. HandMatchesPc' /\ PhasesAgree'
  BY <1>1 DEF HandMatchesPc, PhasesAgree
<1>9. EntriesAccounted'
  <2>1. ASSUME NEW c \in Categories, NEW e \in Entries,
               Occurs(e, logged[c]), Occurs(e, entry)
        PROVE  c = d
    <3>1. e = x
      BY <1>1, <1>2, <2>1 DEF Occurs
    <3>2. e \in EntriesOf(c)
      BY <2>1 DEF Occurs, EntriesAccounted
    <3> QED  BY <3>1, <3>2, Sorts DEF d
  <2>2. ASSUME NEW c \in Categories, NEW e \in Entries,
               Occurs(e, file[c]) \/ (c = d /\ Occurs(e, entry))
        PROVE  Occurs(e, file'[c])
    <3>1. CASE c = d
      BY <1>1, <1>3, <1>4, <1>5, <2>2, <3>1, OccursInConcat
    <3>2. CASE c # d
      BY <1>4, <1>5, <2>2, <3>2
    <3> QED  BY <3>1, <3>2
  <2> QED  BY <1>1, <2>1, <2>2 DEF EntriesAccounted
<1> QED  BY <1>7, <1>8, <1>9

(* The other steps move no entry.                                          *)
LEMMA OtherSteps ==
    ASSUME IInv,
           \/ Starts \/ InitializationFails
           \/ WriterChecks \/ WriterFindsNothing
           \/ DestructionBegins \/ WriterJoined \/ FilesClosed
           \/ UNCHANGED vars
    PROVE  IInv'
<1> USE DEF IInv
<1>1. UNCHANGED <<logQueue, entry, file, logged>>
  BY DEF Starts, InitializationFails, WriterChecks, WriterFindsNothing,
         DestructionBegins, WriterJoined, FilesClosed, vars
<1>2. TypeOK'
  BY <1>1 DEF Starts, InitializationFails, WriterChecks, WriterFindsNothing,
         DestructionBegins, WriterJoined, FilesClosed, vars, TypeOK
<1>3. HandMatchesPc'
  BY <1>1 DEF Starts, InitializationFails, WriterChecks, WriterFindsNothing,
         DestructionBegins, WriterJoined, FilesClosed, vars, HandMatchesPc,
         PhasesAgree
<1>4. PhasesAgree'
  BY <1>1 DEF Starts, InitializationFails, WriterChecks, WriterFindsNothing,
         DestructionBegins, WriterJoined, FilesClosed, vars, PhasesAgree,
         TypeOK
<1>5. EntriesAccounted'
  <2>1. mainPc' = "construct" => mainPc = "construct"
    BY DEF Starts, InitializationFails, WriterChecks, WriterFindsNothing,
         DestructionBegins, WriterJoined, FilesClosed, vars
  <2>2. writerPc' # "none" =>
            writerPc # "none" \/ \A c \in Categories : logged[c] = <<>>
    BY DEF Starts, InitializationFails, WriterChecks, WriterFindsNothing,
         DestructionBegins, WriterJoined, FilesClosed, vars, EntriesAccounted
  <2>3. \A e : ~Occurs(e, <<>>)
    BY DEF Occurs
  <2> QED  BY <1>1, <2>1, <2>2, <2>3 DEF EntriesAccounted
<1> QED  BY <1>2, <1>3, <1>4, <1>5

LEMMA NextIInv == IInv /\ [Next]_vars => IInv'
<1> SUFFICES ASSUME IInv, [Next]_vars PROVE IInv'
  OBVIOUS
<1>1. CASE \E x \in Entries : Log(x)
  BY <1>1, LogStep
<1>2. CASE WriterPops
  BY <1>2, PopStep
<1>3. CASE WriterWrites
  BY <1>3, WriteStep
<1>4. CASE \/ Starts \/ InitializationFails
           \/ WriterChecks \/ WriterFindsNothing
           \/ DestructionBegins \/ WriterJoined \/ FilesClosed
           \/ UNCHANGED vars
  BY <1>4, OtherSteps
<1> QED  BY <1>1, <1>2, <1>3, <1>4 DEF Next, WriterStep, Terminated

LEMMA Invariant == Spec => []IInv
BY InitIInv, NextIInv, PTL DEF Spec

(* Files only ever hold entries of their own category.                     *)
THEOREM TypeCorrect == Spec => []TypeOK
<1>1. IInv => TypeOK
  BY DEF IInv
<1> QED  BY <1>1, Invariant, PTL

(* When the logger is gone every entry that was logged is in its file.     *)
THEOREM NoEntryIsLost == Spec => []NothingLoggedIsLost
<1>1. IInv => NothingLoggedIsLost
  <2> SUFFICES ASSUME IInv, mainPc = "destroyed", writerPc # "none",
                      NEW c \in Categories, NEW e \in Entries,
                      Occurs(e, logged[c])
               PROVE  Occurs(e, file[c])
    BY DEF NothingLoggedIsLost
  <2>1. logQueue = <<>> /\ entry = <<>>
    BY DEF IInv, PhasesAgree, HandMatchesPc
  <2>2. ~Occurs(e, logQueue) /\ ~Occurs(e, entry)
    BY <2>1 DEF Occurs
  <2> QED  BY <2>2 DEF IInv, EntriesAccounted
<1> QED  BY <1>1, Invariant, PTL
-----------------------------------------------------------------------------
(* Each file is written in the order in which its entries were logged.     *)

\* The writer has an entry of category c in its hands.
InHand(c) == writerPc = "write" /\ CategoryOf(Head(entry)) = c

\* How many entries of category c have left the queue.
Left(c) == Len(file[c]) + IF InHand(c) THEN 1 ELSE 0

InOrder(c) ==
    /\ NoRepeats(logged[c])
    /\ Left(c) <= Len(logged[c])
    /\ WaitInOrder(logged[c], Left(c), logQueue, EntriesOf(c))
    /\ InHand(c) => Head(entry) = logged[c][Len(file[c]) + 1]

LogOrder == \A c \in Categories : InOrder(c)

\* What a step may do to the channel of a category.
Accepts(c, x) ==
    /\ \A i \in 1..Len(logged[c]) : logged[c][i] # x
    /\ logged'[c] = Append(logged[c], x)
    /\ file'[c] = file[c]

Delivers(c) ==
    /\ Len(file[c]) < Len(logged[c])
    /\ file'[c] = Append(file[c], logged[c][Len(file[c]) + 1])
    /\ logged'[c] = logged[c]

ChannelStep(c) == \/ \E x \in EntriesOf(c) : Accepts(c, x)
                  \/ Delivers(c)
                  \/ file'[c] = file[c] /\ logged'[c] = logged[c]

LEMMA LogTypes ==
    ASSUME IInv, NEW c \in Categories
    PROVE  /\ logged[c] \in Seq(EntriesOf(c)) /\ file[c] \in Seq(EntriesOf(c))
           /\ logQueue \in Seq(Entries)
           /\ Len(logged[c]) \in Nat /\ Len(file[c]) \in Nat /\ Left(c) \in Nat
<1>1. /\ logged[c] \in Seq(EntriesOf(c)) /\ file[c] \in Seq(EntriesOf(c))
      /\ logQueue \in Seq(Entries)
  BY DEF IInv, TypeOK, EntriesAccounted
<1>2. Len(logged[c]) \in Nat /\ Len(file[c]) \in Nat
  BY <1>1, LenProperties
<1>3. Left(c) \in Nat
  <2>1. CASE InHand(c)
    BY <1>2, <2>1 DEF Left
  <2>2. CASE ~InHand(c)
    BY <1>2, <2>2 DEF Left
  <2> QED  BY <2>1, <2>2
<1> QED  BY <1>1, <1>2, <1>3

LEMMA OrderInit == Init => LogOrder
BY DEF Init, LogOrder, InOrder, Left, InHand, NoRepeats, WaitInOrder

LEMMA OrderLog ==
    ASSUME IInv, LogOrder, NEW x \in Entries, Log(x), NEW c \in Categories
    PROVE  InOrder(c)' /\ ChannelStep(c)
<1>1. /\ logQueue' = Append(logQueue, x)
      /\ logged' = [logged EXCEPT ![CategoryOf(x)]
                                = Append(logged[CategoryOf(x)], x)]
      /\ \A i \in DOMAIN logged[CategoryOf(x)] : logged[CategoryOf(x)][i] # x
      /\ UNCHANGED <<writerPc, entry, file>>
  BY DEF Log
<1>2. Left(c)' = Left(c) /\ InHand(c)' = InHand(c)
  BY <1>1 DEF Left, InHand
<1>3. /\ NoRepeats(logged[c]) /\ Left(c) <= Len(logged[c])
      /\ WaitInOrder(logged[c], Left(c), logQueue, EntriesOf(c))
      /\ InHand(c) => Head(entry) = logged[c][Len(file[c]) + 1]
  BY DEF LogOrder, InOrder
<1>4. /\ logged[c] \in Seq(EntriesOf(c)) /\ logQueue \in Seq(Entries)
      /\ Len(logged[c]) \in Nat /\ Left(c) \in Nat /\ Len(file[c]) \in Nat
      /\ logged \in [Categories -> Seq(Entries)]
      /\ EntriesOf(c) \subseteq Entries
  BY LogTypes, Sorts DEF IInv, TypeOK
<1>5. CASE CategoryOf(x) = c
  <2>1. x \in EntriesOf(c) \cap Entries
    BY <1>5, Sorts
  <2>2. \A a \in 1..Len(logged[c]) : logged[c][a] # x
    BY <1>1, <1>4, <1>5
  <2>3. logged'[c] = Append(logged[c], x)
    BY <1>1, <1>4, <1>5
  <2>4. /\ NoRepeats(logged'[c])
        /\ WaitInOrder(logged'[c], Left(c), logQueue', EntriesOf(c))
    <3> HIDE DEF LogOrder
    <3>1. /\ NoRepeats(Append(logged[c], x))
          /\ WaitInOrder(Append(logged[c], x), Left(c), Append(logQueue, x),
                         EntriesOf(c))
      BY <1>3, <1>4, <2>1, <2>2, ItemJoins
    <3> QED  BY <1>1, <2>3, <3>1
  <2>5. /\ Len(logged'[c]) = Len(logged[c]) + 1
        /\ \A a \in 1..Len(logged[c]) : logged'[c][a] = logged[c][a]
    BY <1>4, <2>1, <2>3, AppendProperties
  <2>6. InHand(c) => Head(entry') = logged'[c][Len(file[c]) + 1]
    <3>1. InHand(c) => Len(file[c]) + 1 \in 1..Len(logged[c])
      BY <1>3, <1>4 DEF Left
    <3> QED  BY <1>1, <1>3, <2>5, <3>1
  <2>7. Left(c)' <= Len(logged'[c])
    BY <1>2, <1>3, <1>4, <2>5
  <2>8. InOrder(c)'
    BY <1>1, <1>2, <2>4, <2>6, <2>7, ZenonT(30) DEF InOrder, NoRepeats, WaitInOrder
  <2>9. Accepts(c, x)
    BY <1>1, <2>2, <2>3 DEF Accepts
  <2> QED  BY <2>1, <2>8, <2>9 DEF ChannelStep
<1>6. CASE CategoryOf(x) # c
  <2>1. x \notin EntriesOf(c) /\ logged'[c] = logged[c]
    BY <1>1, <1>4, <1>6, Sorts
  <2>2. WaitInOrder(logged[c], Left(c), Append(logQueue, x), EntriesOf(c))
    BY <1>3, <1>4, <2>1, OtherJoins
  <2>3. /\ NoRepeats(logged'[c]) /\ Left(c)' <= Len(logged'[c])
        /\ WaitInOrder(logged'[c], Left(c)', logQueue', EntriesOf(c))
    BY <1>1, <1>2, <1>3, <2>1, <2>2
  <2>4. InHand(c)' => Head(entry') = logged'[c][Len(file'[c]) + 1]
    BY <1>1, <1>2, <1>3, <2>1
  <2>5. InOrder(c)'
    BY <2>3, <2>4 DEF InOrder, NoRepeats, WaitInOrder
  <2> QED  BY <1>1, <2>1, <2>5 DEF ChannelStep
<1> QED  BY <1>5, <1>6

LEMMA OrderPop ==
    ASSUME IInv, LogOrder, WriterPops, NEW c \in Categories
    PROVE  InOrder(c)' /\ ChannelStep(c)
<1>1. /\ logQueue # <<>> /\ writerPc = "pop" /\ writerPc' = "write"
      /\ entry' = <<Head(logQueue)>> /\ Head(entry') = Head(logQueue)
      /\ logQueue' = Tail(logQueue) /\ UNCHANGED <<file, logged>>
  BY DEF WriterPops
<1>2. /\ logged[c] \in Seq(EntriesOf(c)) /\ logQueue \in Seq(Entries)
      /\ Len(logged[c]) \in Nat /\ Len(file[c]) \in Nat
      /\ Left(c) = Len(file[c]) /\ Head(logQueue) \in Entries
  BY <1>1, LogTypes DEF Left, InHand
<1>3. /\ NoRepeats(logged[c]) /\ Len(file[c]) <= Len(logged[c])
      /\ WaitInOrder(logged[c], Len(file[c]), logQueue, EntriesOf(c))
  BY <1>2 DEF LogOrder, InOrder
<1>4. InHand(c)' <=> Head(logQueue) \in EntriesOf(c)
  BY <1>1, <1>2, Sorts DEF InHand
<1>5. CASE Head(logQueue) \in EntriesOf(c)
  <2>1. /\ Len(file[c]) < Len(logged[c])
        /\ Head(logQueue) = logged[c][Len(file[c]) + 1]
        /\ WaitInOrder(logged[c], Len(file[c]) + 1, Tail(logQueue), EntriesOf(c))
    BY <1>1, <1>2, <1>3, <1>5, ItemLeaves
  <2>2. InHand(c)'
    BY <1>4, <1>5
  <2>3. Left(c)' = Len(file[c]) + 1
    BY <1>1, <2>2 DEF Left
  <2>4. /\ NoRepeats(logged'[c]) /\ Left(c)' <= Len(logged'[c])
        /\ WaitInOrder(logged'[c], Left(c)', logQueue', EntriesOf(c))
    BY <1>1, <1>2, <1>3, <2>1, <2>3
  <2>5. Head(entry') = logged'[c][Len(file'[c]) + 1]
    BY <1>1, <2>1
  <2>6. InOrder(c)'
    BY <2>4, <2>5 DEF InOrder, NoRepeats, WaitInOrder
  <2> QED  BY <1>1, <2>6 DEF ChannelStep
<1>6. CASE Head(logQueue) \notin EntriesOf(c)
  <2>1. WaitInOrder(logged[c], Len(file[c]), Tail(logQueue), EntriesOf(c))
    BY <1>1, <1>2, <1>3, <1>6, OtherLeaves
  <2>2. ~InHand(c)'
    BY <1>4, <1>6
  <2>3. Left(c)' = Len(file[c]) + 0
    BY <1>1, <2>2 DEF Left
  <2>4. /\ NoRepeats(logged'[c]) /\ Left(c)' <= Len(logged'[c])
        /\ WaitInOrder(logged'[c], Left(c)', logQueue', EntriesOf(c))
    BY <1>1, <1>2, <1>3, <2>1, <2>3
  <2>5. InOrder(c)'
    BY <2>2, <2>4 DEF InOrder, NoRepeats, WaitInOrder
  <2> QED  BY <1>1, <2>5 DEF ChannelStep
<1> QED  BY <1>5, <1>6

LEMMA OrderWrite ==
    ASSUME IInv, LogOrder, WriterWrites, NEW c \in Categories
    PROVE  InOrder(c)' /\ ChannelStep(c)
<1> DEFINE x == Head(entry)
<1>1. /\ writerPc = "write" /\ writerPc' = "check"
      /\ UNCHANGED <<logQueue, logged>>
      /\ entry \in Seq(Entries) /\ Len(entry) = 1
      /\ \A b \in Categories : isOpen[b]
  BY DEF WriterWrites, IInv, TypeOK, HandMatchesPc, PhasesAgree
<1>2. entry = <<x>> /\ x \in Entries
  BY <1>1
<1>3. file' = [file EXCEPT ![CategoryOf(x)] = file[CategoryOf(x)] \o entry]
  BY <1>1, <1>2, Sorts DEF WriterWrites
<1>4. /\ logged[c] \in Seq(EntriesOf(c)) /\ file[c] \in Seq(EntriesOf(c))
      /\ Len(logged[c]) \in Nat /\ Len(file[c]) \in Nat
      /\ file \in [Categories -> Seq(Entries)]
  BY LogTypes DEF IInv, TypeOK
<1>5. InOrder(c)
  BY DEF LogOrder
<1>6. ~InHand(c)'
  BY <1>1 DEF InHand
<1>7. CASE CategoryOf(x) = c
  <2>1. InHand(c) /\ Left(c) = Len(file[c]) + 1 /\ x \in EntriesOf(c)
    BY <1>1, <1>2, <1>7, Sorts DEF InHand, Left
  <2>2. file'[c] = Append(file[c], x)
    <3>1. file'[c] = file[c] \o <<x>>
      BY <1>2, <1>3, <1>4, <1>7
    <3>2. file[c] \o <<x>> = Append(file[c], x)
      BY <1>4, <2>1, AppendIsConcat
    <3> QED  BY <3>1, <3>2
  <2>3. Len(file'[c]) = Len(file[c]) + 1
    BY <1>4, <2>1, <2>2, AppendProperties
  <2>4. Left(c)' = Left(c)
    BY <1>4, <1>6, <2>1, <2>3 DEF Left
  <2>5. InOrder(c)'
    BY <1>1, <1>5, <1>6, <2>4 DEF InOrder, NoRepeats, WaitInOrder
  <2>6. Delivers(c)
    BY <1>1, <1>4, <1>5, <2>1, <2>2 DEF Delivers, InOrder
  <2> QED  BY <2>5, <2>6 DEF ChannelStep
<1>8. CASE CategoryOf(x) # c
  <2>1. file'[c] = file[c] /\ ~InHand(c)
    BY <1>3, <1>4, <1>8 DEF InHand
  <2>2. Left(c)' = Left(c)
    BY <1>6, <2>1 DEF Left
  <2>3. InOrder(c)'
    BY <1>1, <1>5, <1>6, <2>1, <2>2 DEF InOrder, NoRepeats, WaitInOrder
  <2> QED  BY <1>1, <2>1, <2>3 DEF ChannelStep
<1> QED  BY <1>7, <1>8

LEMMA OrderOther ==
    ASSUME IInv, LogOrder, NEW c \in Categories,
           \/ Starts \/ InitializationFails
           \/ WriterChecks \/ WriterFindsNothing
           \/ DestructionBegins \/ WriterJoined \/ FilesClosed
           \/ UNCHANGED vars
    PROVE  InOrder(c)' /\ ChannelStep(c)
<1>1. UNCHANGED <<logQueue, entry, file, logged>>
  BY DEF Starts, InitializationFails, WriterChecks, WriterFindsNothing,
         DestructionBegins, WriterJoined, FilesClosed, vars
<1>2. writerPc' = "write" <=> writerPc = "write"
  BY DEF Starts, InitializationFails, WriterChecks, WriterFindsNothing,
         DestructionBegins, WriterJoined, FilesClosed, vars, IInv, PhasesAgree
<1>3. InHand(c)' = InHand(c)
  BY <1>1, <1>2 DEF InHand
<1>4. Left(c)' = Left(c)
  BY <1>1, <1>3 DEF Left
<1>5. InOrder(c)'
  BY <1>1, <1>3, <1>4, SMTT(30) DEF LogOrder, InOrder, NoRepeats, WaitInOrder
<1> QED  BY <1>1, <1>5 DEF ChannelStep

LEMMA OrderStep ==
    IInv /\ LogOrder /\ [Next]_vars
        => LogOrder' /\ \A c \in Categories : ChannelStep(c)
<1> SUFFICES ASSUME IInv, LogOrder, [Next]_vars, NEW c \in Categories
             PROVE  InOrder(c)' /\ ChannelStep(c)
  BY DEF LogOrder
<1> QED
  BY OrderLog, OrderPop, OrderWrite, OrderOther DEF Next, WriterStep, Terminated

(* What is logged in a category and what is in its file are a FIFO channel.*)
THEOREM FilesKeepTheOrder == Spec => FilesAreFifoChannels
<1>1. Init => LogOrder /\ NetworkLog!Init /\ GameInfoLog!Init
  BY OrderInit DEF Init, Categories, NetworkLog!Init, GameInfoLog!Init
<1>2. IInv /\ LogOrder /\ [Next]_vars
        => /\ LogOrder'
           /\ [NetworkLog!Next]_(NetworkLog!vars)
           /\ [GameInfoLog!Next]_(GameInfoLog!vars)
  <2> SUFFICES ASSUME IInv, LogOrder, [Next]_vars
               PROVE  /\ LogOrder'
                      /\ [NetworkLog!Next]_(NetworkLog!vars)
                      /\ [GameInfoLog!Next]_(GameInfoLog!vars)
    OBVIOUS
  <2>1. LogOrder' /\ ChannelStep("NETWORK") /\ ChannelStep("GAMEINFO")
    BY OrderStep DEF Categories
  <2>2. /\ EntriesOf("NETWORK") = NetworkEntries
        /\ EntriesOf("GAMEINFO") = GameInfoEntries
    BY DEF EntriesOf
  <2>3. [NetworkLog!Next]_(NetworkLog!vars)
    BY <2>1, <2>2 DEF ChannelStep, Accepts, Delivers, NetworkLog!Next,
       NetworkLog!Accept, NetworkLog!Deliver, NetworkLog!vars
  <2>4. [GameInfoLog!Next]_(GameInfoLog!vars)
    BY <2>1, <2>2 DEF ChannelStep, Accepts, Delivers, GameInfoLog!Next,
       GameInfoLog!Accept, GameInfoLog!Deliver, GameInfoLog!vars
  <2> QED  BY <2>1, <2>3, <2>4
<1> QED
  BY <1>1, <1>2, Invariant, PTL
  DEF Spec, FilesAreFifoChannels, NetworkLog!Spec, GameInfoLog!Spec
=============================================================================
