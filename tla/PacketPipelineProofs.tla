----------------------- MODULE PacketPipelineProofs -----------------------
(***************************************************************************)
(* Theorems about PacketPipeline, for any number of workers and packets.   *)
(***************************************************************************)
EXTENDS PacketPipeline, CommonLemmas

(* While the receiver works on an event of its batch, the count of events  *)
(* left is not zero, so the loop over them cannot run past the array.      *)
EventsPending == pc[Receiver] \in {"event", "read"} => events # 0

(* A thread has a packet exactly while it works on one: a worker routes or *)
(* drops it, the sender writes or frees it.                                *)
Busy(t) == \/ t \in Workers /\ pc[t] \in {"route", "drop"}
           \/ t = Sender /\ pc[t] \in {"send", "free"}

BusyHoldsPacket == \A t \in Threads : packet[t] # Null <=> Busy(t)

SenderStartsOnce ==
    mainPc \in {"startReceiver", "startSender"} => pc[Sender] = "none"

TypeInv == TypeOK /\ EventsPending /\ BusyHoldsPacket /\ SenderStartsOnce

(* The types are kept by every step, whichever thread takes it.            *)
LEMMA TypeStep == TypeInv /\ [Next]_vars => TypeInv'
<1> SUFFICES ASSUME TypeInv, [Next]_vars PROVE TypeInv'
  OBVIOUS
<1> USE MaxEventAssumption, ThreadsAssumption, NullAssumption
    DEF TypeInv, TypeOK, EventsPending, BusyHoldsPacket, Busy,
        SenderStartsOnce, mainVars, dataVars, queueVars, Goto
<1> Receiver \in Threads /\ Sender \in Threads /\ Workers \subseteq Threads
  BY DEF Threads
<1>1. CASE UNCHANGED vars
  BY <1>1 DEF vars
<1>2. CASE StartReceiver
  BY <1>2 DEF StartReceiver, MainStates, ThreadStates
<1>3. CASE StartSender
  BY <1>3 DEF StartSender, MainStates, ThreadStates
<1>4. ASSUME NEW w \in Workers, StartWorker(w) PROVE TypeInv'
  BY <1>4 DEF StartWorker, ThreadStates
<1>5. CASE StartThreadsReturns
  BY <1>5 DEF StartThreadsReturns, MainStates
<1>6. CASE ThreadStartFails
  BY <1>6 DEF ThreadStartFails, MainStates
<1>7. CASE ServerReturns
  BY <1>7 DEF ServerReturns, MainStates
<1>8. CASE RaiseFlag
  BY <1>8 DEF RaiseFlag, MainStates
<1>9. CASE PoisonIncoming
  BY <1>9, AppendProperties DEF PoisonIncoming, MainStates
<1>10. CASE PoisonOutgoing
  BY <1>10, AppendProperties DEF PoisonOutgoing, MainStates
<1>11. CASE JoinWorkers
  BY <1>11 DEF JoinWorkers, MainStates, ThreadStates
<1>12. CASE JoinReceiver
  BY <1>12 DEF JoinReceiver, MainStates, ThreadStates
<1>13. CASE JoinSender
  BY <1>13 DEF JoinSender, MainStates, ThreadStates
<1>14. ASSUME NEW t \in Threads, NEW label \in {"poll", "pop"},
              LoopCheck(t, label)
       PROVE  TypeInv'
  BY <1>14 DEF LoopCheck, ThreadStates
<1>15. CASE EpollWait
  BY <1>15 DEF EpollWait, ThreadStates
<1>16. CASE EpollFails
  BY <1>16 DEF EpollFails, ThreadStates
<1>17. CASE EventReadable
  BY <1>17 DEF EventReadable, ThreadStates
<1>18. CASE EventWithoutPacket
  BY <1>18 DEF EventWithoutPacket, EventDone, ThreadStates
<1>19. ASSUME NEW p \in Packets, PacketRead(p) PROVE TypeInv'
  BY <1>19, AppendProperties DEF PacketRead, Allocate, EventDone, ThreadStates
<1>20. CASE PacketReadThrows
  BY <1>20 DEF PacketReadThrows, EventDone, ThreadStates
<1>21. ASSUME NEW w \in Workers, WorkerPops(w) PROVE TypeInv'
  BY <1>21, HeadTailProperties DEF WorkerPops, ThreadStates
<1>22. ASSUME NEW w \in Workers, WorkerTimesOut(w) PROVE TypeInv'
  BY <1>22 DEF WorkerTimesOut, ThreadStates
<1>23. ASSUME NEW w \in Workers, NEW p \in Packets, QueueReply(w, p)
       PROVE  TypeInv'
  BY <1>23, AppendProperties DEF QueueReply, Allocate
<1>24. ASSUME NEW w \in Workers, HandOver(w) PROVE TypeInv'
  BY <1>24, AppendProperties DEF HandOver, ThreadStates
<1>25. ASSUME NEW w \in Workers, RouteEnds(w) PROVE TypeInv'
  BY <1>25 DEF RouteEnds, ThreadStates
<1>26. ASSUME NEW w \in Workers, DropRequest(w) PROVE TypeInv'
  BY <1>26 DEF DropRequest, ThreadStates
<1>27. CASE SenderPops
  BY <1>27, HeadTailProperties DEF SenderPops, ThreadStates
<1>28. CASE SenderFindsNothing
  BY <1>28 DEF SenderFindsNothing, ThreadStates
<1>29. CASE SendPacket
  BY <1>29, AppendProperties DEF SendPacket, ThreadStates
<1>30. CASE FreeSent
  BY <1>30 DEF FreeSent, ThreadStates
<1>31. CASE Terminated
  BY <1>31 DEF Terminated, vars
<1>32. QED
  BY <1>1, <1>2, <1>3, <1>4, <1>5, <1>6, <1>7, <1>8, <1>9, <1>10, <1>11,
     <1>12, <1>13, <1>14, <1>15, <1>16, <1>17, <1>18, <1>19, <1>20, <1>21,
     <1>22, <1>23, <1>24, <1>25, <1>26, <1>27, <1>28, <1>29, <1>30, <1>31
  DEF Next, MainStep, ReceiverStep, ReadEnds, WorkerStep, SenderStep,
      ThreadStates

LEMMA TypeInit == Init => TypeInv
<1> SUFFICES ASSUME Init PROVE TypeInv
  OBVIOUS
<1> USE MaxEventAssumption DEF Init
<1>1. TypeOK
  <2>1. mainPc \in MainStates /\ unwinding \in BOOLEAN /\ shutdownFlag \in BOOLEAN
    BY DEF MainStates
  <2>2. pc \in [Threads -> ThreadStates]
    BY DEF ThreadStates
  <2>3. packet \in [Threads -> Packets \cup {Null}]
    OBVIOUS
  <2>4. heap \in [Packets -> {"unborn", "live", "freed"}]
    OBVIOUS
  <2>5. /\ incomingPackets \in Seq(Packets \cup {Null})
        /\ outgoingPackets \in Seq(Packets \cup {Null})
        /\ queued \in Seq(Packets) /\ wire \in Seq(Packets)
    BY EmptySeq
  <2>6. events \in 0..MaxEvent
    OBVIOUS
  <2>7. QED
    BY <2>1, <2>2, <2>3, <2>4, <2>5, <2>6 DEF TypeOK
<1>2. pc[Receiver] = "none" /\ pc[Sender] = "none"
  BY DEF Threads
<1>3. EventsPending /\ SenderStartsOnce
  BY <1>2 DEF EventsPending, SenderStartsOnce
<1>4. BusyHoldsPacket
  BY DEF BusyHoldsPacket, Busy, Threads
<1>5. QED
  BY <1>1, <1>3, <1>4 DEF TypeInv

LEMMA TypeInvariant == Spec => []TypeInv
<1>1. Init => TypeInv
  BY TypeInit
<1>2. TypeInv /\ [Next]_vars => TypeInv'
  BY TypeStep
<1>3. QED
  BY <1>1, <1>2, PTL DEF Spec

(* Every variable keeps its type, however many threads, packets and events *)
(* there are: in particular the event count never drops below zero and the *)
(* null pointer is never queued as a reply or sent.                        *)
THEOREM TypeCorrect == Spec => []TypeOK
<1>1. TypeInv => TypeOK
  BY DEF TypeInv
<1>2. QED
  BY <1>1, TypeInvariant, PTL

-----------------------------------------------------------------------------
(* What occurs in a queue, and how often, after a push and after a pop.    *)

LEMMA OccursInAppend ==
    ASSUME NEW S, NEW q \in Seq(S), NEW e \in S, NEW p
    PROVE  Occurs(p, Append(q, e)) <=> Occurs(p, q) \/ p = e
<1>1. /\ Len(Append(q, e)) = Len(q) + 1
      /\ \A i \in 1..Len(q) : Append(q, e)[i] = q[i]
      /\ Append(q, e)[Len(q) + 1] = e
      /\ Len(q) \in Nat
  BY AppendProperties, LenProperties
<1>2. QED
  BY <1>1 DEF Occurs

LEMMA OccursInTail ==
    ASSUME NEW S, NEW q \in Seq(S), q # <<>>, NEW p
    PROVE  Occurs(p, q) <=> p = Head(q) \/ Occurs(p, Tail(q))
<1>1. /\ Head(q) = q[1]
      /\ Len(q) \in Nat /\ Len(q) # 0
      /\ Len(Tail(q)) = Len(q) - 1
      /\ \A i \in 1..Len(Tail(q)) : Tail(q)[i] = q[i + 1]
  BY HeadTailProperties, LenProperties, EmptySeq
<1>2. ASSUME Occurs(p, q) PROVE p = Head(q) \/ Occurs(p, Tail(q))
  <2>1. PICK i \in 1..Len(q) : q[i] = p
    BY <1>2 DEF Occurs
  <2>2. CASE i = 1
    BY <1>1, <2>1, <2>2
  <2>3. CASE i # 1
    <3>1. i - 1 \in 1..Len(Tail(q)) /\ Tail(q)[i - 1] = q[i]
      BY <1>1, <2>3
    <3>2. QED
      BY <2>1, <3>1 DEF Occurs
  <2>4. QED
    BY <2>2, <2>3
<1>3. ASSUME p = Head(q) \/ Occurs(p, Tail(q)) PROVE Occurs(p, q)
  <2>1. CASE p = Head(q)
    BY <1>1, <2>1 DEF Occurs
  <2>2. CASE Occurs(p, Tail(q))
    <3>1. PICK i \in 1..Len(Tail(q)) : Tail(q)[i] = p
      BY <2>2 DEF Occurs
    <3>2. i + 1 \in 1..Len(q) /\ q[i + 1] = p
      BY <1>1, <3>1
    <3>3. QED
      BY <3>2 DEF Occurs
  <2>3. QED
    BY <1>3, <2>1, <2>2
<1>4. QED
  BY <1>2, <1>3

LEMMA DistinctAppend ==
    ASSUME NEW S, NEW q \in Seq(S), NEW e \in S, Distinct(q),
           e = Null \/ ~Occurs(e, q)
    PROVE  Distinct(Append(q, e))
<1>1. /\ Len(Append(q, e)) = Len(q) + 1
      /\ \A i \in 1..Len(q) : Append(q, e)[i] = q[i]
      /\ Append(q, e)[Len(q) + 1] = e
      /\ Len(q) \in Nat
  BY AppendProperties, LenProperties
<1>2. SUFFICES ASSUME NEW i \in 1..(Len(q) + 1), NEW j \in 1..(Len(q) + 1),
                      Append(q, e)[i] = Append(q, e)[j], i # j
               PROVE  Append(q, e)[i] = Null
  BY <1>1 DEF Distinct
<1>3. CASE i \in 1..Len(q) /\ j \in 1..Len(q)
  BY <1>1, <1>2, <1>3 DEF Distinct
<1>4. CASE i = Len(q) + 1 \/ j = Len(q) + 1
  BY <1>1, <1>2, <1>4 DEF Occurs
<1>5. QED
  BY <1>1, <1>3, <1>4

LEMMA DistinctTail ==
    ASSUME NEW S, NEW q \in Seq(S), q # <<>>, Distinct(q)
    PROVE  /\ Distinct(Tail(q))
           /\ Head(q) = Null \/ ~Occurs(Head(q), Tail(q))
<1>1. /\ Head(q) = q[1]
      /\ Len(q) \in Nat /\ Len(q) # 0
      /\ Len(Tail(q)) = Len(q) - 1
      /\ \A i \in 1..Len(Tail(q)) : Tail(q)[i] = q[i + 1]
  BY HeadTailProperties, LenProperties, EmptySeq
<1>2. \A i \in 1..Len(Tail(q)) : i + 1 \in 1..Len(q)
  BY <1>1
<1>3. Distinct(Tail(q))
  BY <1>1, <1>2 DEF Distinct
<1>4. Head(q) = Null \/ ~Occurs(Head(q), Tail(q))
  BY <1>1, <1>2 DEF Distinct, Occurs
<1>5. QED
  BY <1>3, <1>4

-----------------------------------------------------------------------------
(* Ownership of Packet objects                                             *)

Ownership == LiveIffReachable /\ SoleOwner

(* Nothing is owned by anybody when nothing that names a packet changes.   *)
LEMMA OwnershipFrame ==
    ASSUME Ownership,
           UNCHANGED <<incomingPackets, outgoingPackets, packet, heap>>
    PROVE  Ownership'
BY DEF Ownership, LiveIffReachable, SoleOwner, Held, Occurs, Distinct

(* A poison pill is no packet: queueing it changes nobody's ownership.     *)
LEMMA OwnershipPoison ==
    ASSUME TypeInv, Ownership, PoisonIncoming \/ PoisonOutgoing
    PROVE  Ownership'
<1> USE NullAssumption DEF TypeInv, TypeOK
<1>1. UNCHANGED <<packet, heap>>
  BY DEF PoisonIncoming, PoisonOutgoing
<1>2. \A p \in Packets : /\ Occurs(p, incomingPackets)' <=> Occurs(p, incomingPackets)
                         /\ Occurs(p, outgoingPackets)' <=> Occurs(p, outgoingPackets)
                         /\ Held(p)' <=> Held(p)
  <2>1. \A p \in Packets : /\ Occurs(p, Append(incomingPackets, Null)) <=> Occurs(p, incomingPackets)
                           /\ Occurs(p, Append(outgoingPackets, Null)) <=> Occurs(p, outgoingPackets)
    BY OccursInAppend
  <2>2. QED
    BY <1>1, <2>1 DEF PoisonIncoming, PoisonOutgoing, Held, Occurs
<1>3. Distinct(incomingPackets)' /\ Distinct(outgoingPackets)'
  <2>1. Distinct(Append(incomingPackets, Null)) /\ Distinct(Append(outgoingPackets, Null))
    BY DistinctAppend DEF Ownership, SoleOwner
  <2>2. QED
    BY <2>1 DEF PoisonIncoming, PoisonOutgoing, Distinct, Ownership, SoleOwner
<1>4. QED
  BY <1>1, <1>2, <1>3 DEF Ownership, LiveIffReachable, SoleOwner

(* A packet that was just allocated is in nobody's hands, so it can be     *)
(* queued: by the receiver as a request, or by a worker as a reply.        *)
LEMMA OwnershipAllocate ==
    ASSUME TypeInv, Ownership, NEW p \in Packets, NEW w \in Workers,
           PacketRead(p) \/ QueueReply(w, p)
    PROVE  Ownership'
<1> USE NullAssumption DEF TypeInv, TypeOK
<1>1. /\ ~Occurs(p, incomingPackets)
      /\ ~Occurs(p, outgoingPackets)
      /\ ~Held(p)
  BY DEF PacketRead, QueueReply, Allocate, Ownership, LiveIffReachable
<1>2. UNCHANGED packet /\ heap' = [heap EXCEPT ![p] = "live"]
  BY DEF PacketRead, QueueReply, Allocate
<1>3. \A x \in Packets : Held(x)' <=> Held(x)
  BY <1>2 DEF Held
<1>4. CASE PacketRead(p)
  <2>1. /\ incomingPackets' = Append(incomingPackets, p)
        /\ outgoingPackets' = outgoingPackets
    BY <1>4 DEF PacketRead
  <2>2. \A x \in Packets :
            Occurs(x, Append(incomingPackets, p)) <=> Occurs(x, incomingPackets) \/ x = p
    <3>1. p \in Packets \cup {Null} /\ incomingPackets \in Seq(Packets \cup {Null})
      OBVIOUS
    <3> HIDE DEF TypeOK, TypeInv
    <3>2. QED
      BY <3>1, OccursInAppend
  <2>3. \A x \in Packets :
            /\ Occurs(x, incomingPackets)' <=> Occurs(x, incomingPackets) \/ x = p
            /\ Occurs(x, outgoingPackets)' <=> Occurs(x, outgoingPackets)
    BY <2>1, <2>2 DEF Occurs
  <2>4. Distinct(incomingPackets)' /\ Distinct(outgoingPackets)'
    <3>1. Distinct(Append(incomingPackets, p))
      BY <1>1, DistinctAppend DEF Ownership, SoleOwner
    <3>2. QED
      BY <2>1, <3>1 DEF Distinct, Ownership, SoleOwner
  <2>5. LiveIffReachable'
    <3>1. \A x \in Packets : heap'[x] = "live" <=> heap[x] = "live" \/ x = p
      BY <1>2
    <3>2. QED
      BY <1>1, <1>3, <2>3, <3>1 DEF Ownership, LiveIffReachable
  <2>6. SoleOwner'
    <3>1. \A s, u \in Threads : (packet[s] = packet[u] /\ s # u => packet[s] = Null)'
      BY <1>2 DEF Ownership, SoleOwner
    <3>2. \A x \in Packets :
              /\ ~ (Occurs(x, incomingPackets) /\ Occurs(x, outgoingPackets))'
              /\ ~ (Occurs(x, incomingPackets) /\ Held(x))'
              /\ ~ (Occurs(x, outgoingPackets) /\ Held(x))'
      BY <1>1, <1>3, <2>3 DEF Ownership, SoleOwner
    <3>3. QED
      BY <2>4, <3>1, <3>2 DEF SoleOwner
  <2>7. QED
    BY <2>5, <2>6 DEF Ownership
<1>5. CASE QueueReply(w, p)
  <2>1. /\ outgoingPackets' = Append(outgoingPackets, p)
        /\ incomingPackets' = incomingPackets
    BY <1>5 DEF QueueReply
  <2>2. \A x \in Packets :
            Occurs(x, Append(outgoingPackets, p)) <=> Occurs(x, outgoingPackets) \/ x = p
    <3>1. p \in Packets \cup {Null} /\ outgoingPackets \in Seq(Packets \cup {Null})
      OBVIOUS
    <3> HIDE DEF TypeOK, TypeInv
    <3>2. QED
      BY <3>1, OccursInAppend
  <2>3. \A x \in Packets :
            /\ Occurs(x, outgoingPackets)' <=> Occurs(x, outgoingPackets) \/ x = p
            /\ Occurs(x, incomingPackets)' <=> Occurs(x, incomingPackets)
    BY <2>1, <2>2 DEF Occurs
  <2>4. Distinct(incomingPackets)' /\ Distinct(outgoingPackets)'
    <3>1. Distinct(Append(outgoingPackets, p))
      BY <1>1, DistinctAppend DEF Ownership, SoleOwner
    <3>2. QED
      BY <2>1, <3>1 DEF Distinct, Ownership, SoleOwner
  <2>5. LiveIffReachable'
    <3>1. \A x \in Packets : heap'[x] = "live" <=> heap[x] = "live" \/ x = p
      BY <1>2
    <3>2. QED
      BY <1>1, <1>3, <2>3, <3>1 DEF Ownership, LiveIffReachable
  <2>6. SoleOwner'
    <3>1. \A s, u \in Threads : (packet[s] = packet[u] /\ s # u => packet[s] = Null)'
      BY <1>2 DEF Ownership, SoleOwner
    <3>2. \A x \in Packets :
              /\ ~ (Occurs(x, incomingPackets) /\ Occurs(x, outgoingPackets))'
              /\ ~ (Occurs(x, incomingPackets) /\ Held(x))'
              /\ ~ (Occurs(x, outgoingPackets) /\ Held(x))'
      BY <1>1, <1>3, <2>3 DEF Ownership, SoleOwner
    <3>3. QED
      BY <2>4, <3>1, <3>2 DEF SoleOwner
  <2>7. QED
    BY <2>5, <2>6 DEF Ownership
<1>6. QED
  BY <1>4, <1>5

(* A pop moves the pointer from the head of the queue to an empty hand.    *)
LEMMA OwnershipPop ==
    ASSUME TypeInv, Ownership, NEW w \in Workers, WorkerPops(w) \/ SenderPops
    PROVE  Ownership'
<1> USE NullAssumption, ThreadsAssumption DEF TypeInv, TypeOK
<1>0. PICK t \in Threads, e \in Packets \cup {Null} :
          \/ t = w /\ WorkerPops(w) /\ e = Head(incomingPackets)
          \/ t = Sender /\ SenderPops /\ e = Head(outgoingPackets)
  BY HeadTailProperties DEF Threads, WorkerPops, SenderPops
<1>1. /\ packet[t] = Null
      /\ packet' = [packet EXCEPT ![t] = e]
      /\ UNCHANGED heap
  BY <1>0 DEF Threads, BusyHoldsPacket, Busy, WorkerPops, SenderPops
<1>2. \A x \in Packets : Held(x)' <=> Held(x) \/ x = e
  BY <1>1 DEF Held
<1>3. CASE WorkerPops(w) /\ e = Head(incomingPackets)
  <2>1. /\ incomingPackets # <<>>
        /\ incomingPackets' = Tail(incomingPackets)
        /\ outgoingPackets' = outgoingPackets
        /\ e = Head(incomingPackets)
    BY <1>3 DEF WorkerPops
  <2>2. \A x \in Packets :
            Occurs(x, incomingPackets) <=> x = e \/ Occurs(x, Tail(incomingPackets))
    BY <2>1, OccursInTail
  <2>3. \A x \in Packets :
            /\ Occurs(x, incomingPackets) <=> x = e \/ Occurs(x, incomingPackets)'
            /\ Occurs(x, outgoingPackets)' <=> Occurs(x, outgoingPackets)
    BY <2>1, <2>2 DEF Occurs
  <2>4. /\ Distinct(incomingPackets)' /\ Distinct(outgoingPackets)'
        /\ e = Null \/ ~Occurs(e, incomingPackets)'
    <3>1. /\ Distinct(Tail(incomingPackets))
          /\ e = Null \/ ~Occurs(e, Tail(incomingPackets))
      BY <2>1, DistinctTail DEF Ownership, SoleOwner
    <3>2. QED
      BY <2>1, <3>1 DEF Distinct, Occurs, Ownership, SoleOwner
  <2>5. LiveIffReachable'
    BY <1>1, <1>2, <2>3 DEF Ownership, LiveIffReachable
  <2>6. SoleOwner'
    BY <1>1, <1>2, <2>3, <2>4 DEF Ownership, SoleOwner, Held
  <2>7. QED
    BY <2>5, <2>6 DEF Ownership
<1>4. CASE SenderPops /\ e = Head(outgoingPackets)
  <2>1. /\ outgoingPackets # <<>>
        /\ outgoingPackets' = Tail(outgoingPackets)
        /\ incomingPackets' = incomingPackets
        /\ e = Head(outgoingPackets)
    BY <1>4 DEF SenderPops
  <2>2. \A x \in Packets :
            Occurs(x, outgoingPackets) <=> x = e \/ Occurs(x, Tail(outgoingPackets))
    BY <2>1, OccursInTail
  <2>3. \A x \in Packets :
            /\ Occurs(x, outgoingPackets) <=> x = e \/ Occurs(x, outgoingPackets)'
            /\ Occurs(x, incomingPackets)' <=> Occurs(x, incomingPackets)
    BY <2>1, <2>2 DEF Occurs
  <2>4. /\ Distinct(incomingPackets)' /\ Distinct(outgoingPackets)'
        /\ e = Null \/ ~Occurs(e, outgoingPackets)'
    <3>1. /\ Distinct(Tail(outgoingPackets))
          /\ e = Null \/ ~Occurs(e, Tail(outgoingPackets))
      BY <2>1, DistinctTail DEF Ownership, SoleOwner
    <3>2. QED
      BY <2>1, <3>1 DEF Distinct, Occurs, Ownership, SoleOwner
  <2>5. LiveIffReachable'
    BY <1>1, <1>2, <2>3 DEF Ownership, LiveIffReachable
  <2>6. SoleOwner'
    BY <1>1, <1>2, <2>3, <2>4 DEF Ownership, SoleOwner, Held
  <2>7. QED
    BY <2>5, <2>6 DEF Ownership
<1>5. QED
  BY <1>0, <1>3, <1>4

(* HandOver moves the worker's pointer to the outgoing queue.              *)
LEMMA OwnershipHandOver ==
    ASSUME TypeInv, Ownership, NEW w \in Workers, HandOver(w)
    PROVE  Ownership'
<1> USE NullAssumption DEF TypeInv, TypeOK
<1>1. w \in Threads /\ packet[w] # Null
  BY DEF HandOver, Threads, BusyHoldsPacket, Busy
<1>2. PICK p \in Packets : p = packet[w]
  BY <1>1
<1>3. /\ packet' = [packet EXCEPT ![w] = Null]
      /\ outgoingPackets' = Append(outgoingPackets, p)
      /\ UNCHANGED <<incomingPackets, heap>>
  BY <1>2 DEF HandOver
<1>4. /\ Held(p)
      /\ ~Occurs(p, incomingPackets)
      /\ ~Occurs(p, outgoingPackets)
  BY <1>1, <1>2 DEF Held, Ownership, SoleOwner
<1>5. \A x \in Packets : Held(x)' <=> Held(x) /\ x # p
  BY <1>1, <1>2, <1>3 DEF Held, Ownership, SoleOwner
<1>6. \A x \in Packets :
          Occurs(x, Append(outgoingPackets, p)) <=> Occurs(x, outgoingPackets) \/ x = p
  <2>1. p \in Packets \cup {Null} /\ outgoingPackets \in Seq(Packets \cup {Null})
    OBVIOUS
  <2> HIDE DEF TypeOK, TypeInv
  <2>2. QED
    BY <2>1, OccursInAppend
<1>7. \A x \in Packets :
          /\ Occurs(x, outgoingPackets)' <=> Occurs(x, outgoingPackets) \/ x = p
          /\ Occurs(x, incomingPackets)' <=> Occurs(x, incomingPackets)
  BY <1>3, <1>6 DEF Occurs
<1>8. Distinct(incomingPackets)' /\ Distinct(outgoingPackets)'
  <2>1. Distinct(Append(outgoingPackets, p))
    BY <1>4, DistinctAppend DEF Ownership, SoleOwner
  <2>2. QED
    BY <1>3, <2>1 DEF Distinct, Ownership, SoleOwner
<1>9. LiveIffReachable'
  BY <1>3, <1>4, <1>5, <1>7 DEF Ownership, LiveIffReachable
<1>10. SoleOwner'
  <2>1. \A s, u \in Threads : (packet[s] = packet[u] /\ s # u => packet[s] = Null)'
    BY <1>3 DEF Ownership, SoleOwner
  <2>2. \A x \in Packets :
            /\ ~ (Occurs(x, incomingPackets) /\ Occurs(x, outgoingPackets))'
            /\ ~ (Occurs(x, incomingPackets) /\ Held(x))'
            /\ ~ (Occurs(x, outgoingPackets) /\ Held(x))'
    BY <1>4, <1>5, <1>7 DEF Ownership, SoleOwner
  <2>3. QED
    BY <1>8, <2>1, <2>2 DEF SoleOwner
<1>11. QED
  BY <1>9, <1>10 DEF Ownership

(* delete: the packet in hand, which nobody else has, is freed.            *)
LEMMA OwnershipDelete ==
    ASSUME TypeInv, Ownership, NEW w \in Workers, DropRequest(w) \/ FreeSent
    PROVE  Ownership'
<1> USE NullAssumption DEF TypeInv, TypeOK
<1>1. PICK t \in Threads :
          /\ packet[t] # Null
          /\ packet' = [packet EXCEPT ![t] = Null]
          /\ heap' = [heap EXCEPT ![packet[t]] = "freed"]
          /\ UNCHANGED <<incomingPackets, outgoingPackets>>
  BY DEF DropRequest, FreeSent, Threads, BusyHoldsPacket, Busy, queueVars
<1>2. PICK p \in Packets : p = packet[t]
  BY <1>1
<1>3. /\ Held(p)
      /\ ~Occurs(p, incomingPackets)
      /\ ~Occurs(p, outgoingPackets)
  BY <1>1, <1>2 DEF Held, Ownership, SoleOwner
<1>4. \A x \in Packets : Held(x)' <=> Held(x) /\ x # p
  BY <1>1, <1>2 DEF Held, Ownership, SoleOwner
<1>5. \A x \in Packets :
          /\ Occurs(x, outgoingPackets)' <=> Occurs(x, outgoingPackets)
          /\ Occurs(x, incomingPackets)' <=> Occurs(x, incomingPackets)
  BY <1>1 DEF Occurs
<1>6. LiveIffReachable'
  BY <1>1, <1>2, <1>3, <1>4, <1>5 DEF Ownership, LiveIffReachable
<1>7. SoleOwner'
  <2>1. Distinct(incomingPackets)' /\ Distinct(outgoingPackets)'
    BY <1>1 DEF Distinct, Ownership, SoleOwner
  <2>2. \A s, u \in Threads : (packet[s] = packet[u] /\ s # u => packet[s] = Null)'
    BY <1>1 DEF Ownership, SoleOwner
  <2>3. \A x \in Packets :
            /\ ~ (Occurs(x, incomingPackets) /\ Occurs(x, outgoingPackets))'
            /\ ~ (Occurs(x, incomingPackets) /\ Held(x))'
            /\ ~ (Occurs(x, outgoingPackets) /\ Held(x))'
    BY <1>4, <1>5 DEF Ownership, SoleOwner
  <2>4. QED
    BY <2>1, <2>2, <2>3 DEF SoleOwner
<1>8. QED
  BY <1>6, <1>7 DEF Ownership

LEMMA OwnershipStep == TypeInv /\ Ownership /\ [Next]_vars => Ownership'
<1> SUFFICES ASSUME TypeInv, Ownership, [Next]_vars PROVE Ownership'
  OBVIOUS
<1>1. CASE PoisonIncoming \/ PoisonOutgoing
  BY <1>1, OwnershipPoison
<1>2. ASSUME NEW p \in Packets, PacketRead(p) PROVE Ownership'
  BY <1>2, OwnershipAllocate, WorkersAssumption
<1>3. ASSUME NEW w \in Workers, NEW p \in Packets, QueueReply(w, p)
      PROVE  Ownership'
  BY <1>3, OwnershipAllocate
<1>4. ASSUME NEW w \in Workers, WorkerPops(w) PROVE Ownership'
  BY <1>4, OwnershipPop
<1>5. CASE SenderPops
  BY <1>5, OwnershipPop, WorkersAssumption
<1>6. ASSUME NEW w \in Workers, HandOver(w) PROVE Ownership'
  BY <1>6, OwnershipHandOver
<1>7. ASSUME NEW w \in Workers, DropRequest(w) PROVE Ownership'
  BY <1>7, OwnershipDelete
<1>8. CASE FreeSent
  BY <1>8, OwnershipDelete, WorkersAssumption
<1>9. CASE UNCHANGED <<incomingPackets, outgoingPackets, packet, heap>>
  BY <1>9, OwnershipFrame
<1>10. QED
  <2> USE DEF dataVars, queueVars
  <2>1. CASE StartReceiver \/ StartSender \/ StartThreadsReturns \/ RaiseFlag
             \/ \E w \in Workers : StartWorker(w)
    BY <2>1, <1>9 DEF StartReceiver, StartSender, StartThreadsReturns,
                      RaiseFlag, StartWorker
  <2>2. CASE JoinWorkers \/ JoinReceiver \/ JoinSender \/ ThreadStartFails
             \/ ServerReturns
    BY <2>2, <1>9 DEF JoinWorkers, JoinReceiver, JoinSender,
                      ThreadStartFails, ServerReturns
  <2>3. CASE EpollWait \/ EventWithoutPacket \/ EpollFails \/ EventReadable
             \/ PacketReadThrows
    BY <2>3, <1>9 DEF EpollWait, EventWithoutPacket, EpollFails,
                      EventReadable, PacketReadThrows
  <2>4. ASSUME NEW t \in Threads, NEW label, LoopCheck(t, label)
        PROVE  Ownership'
    BY <2>4, <1>9 DEF LoopCheck
  <2>5. ASSUME NEW w \in Workers, WorkerTimesOut(w) \/ RouteEnds(w)
        PROVE  Ownership'
    BY <2>5, <1>9 DEF WorkerTimesOut, RouteEnds
  <2>6. CASE SenderFindsNothing \/ SendPacket
    BY <2>6, <1>9 DEF SenderFindsNothing, SendPacket
  <2>7. CASE Terminated \/ UNCHANGED vars
    BY <2>7, <1>9 DEF Terminated, vars
  <2>8. QED
    BY <1>1, <1>2, <1>3, <1>4, <1>5, <1>6, <1>7, <1>8,
       <2>1, <2>2, <2>3, <2>4, <2>5, <2>6, <2>7
    DEF Next, MainStep, ReceiverStep, ReadEnds, WorkerStep, SenderStep, Threads

LEMMA OwnershipInit == Init => Ownership
<1> SUFFICES ASSUME Init PROVE Ownership
  OBVIOUS
<1>1. \A p : ~Occurs(p, incomingPackets) /\ ~Occurs(p, outgoingPackets)
  BY DEF Init, Occurs
<1>2. \A p \in Packets : ~Held(p)
  BY NullAssumption DEF Init, Held
<1>3. Distinct(incomingPackets) /\ Distinct(outgoingPackets)
  BY DEF Init, Distinct
<1>4. LiveIffReachable
  BY <1>1, <1>2 DEF Init, LiveIffReachable
<1>5. SoleOwner
  BY <1>1, <1>2, <1>3 DEF Init, SoleOwner
<1>6. QED
  BY <1>4, <1>5 DEF Ownership

LEMMA OwnershipInvariant == Spec => []Ownership
<1>1. TypeInv /\ Ownership /\ [Next]_vars => Ownership'
  BY OwnershipStep
<1>2. QED
  BY <1>1, OwnershipInit, TypeInvariant, PTL DEF Spec

(* No packet is used after its deletion, deleted twice or lost, however    *)
(* the threads interleave: a pointer in a queue or in a thread's hand is   *)
(* to a live object, and every live object has such a pointer.             *)
THEOREM PacketsLiveWhileReachable == Spec => []LiveIffReachable
<1>1. Ownership => LiveIffReachable
  BY DEF Ownership
<1>2. QED
  BY <1>1, OwnershipInvariant, PTL

(* At every moment at most one queue place or thread has a packet.         *)
THEOREM PacketsHaveOneOwner == Spec => []SoleOwner
<1>1. Ownership => SoleOwner
  BY DEF Ownership
<1>2. QED
  BY <1>1, OwnershipInvariant, PTL

-----------------------------------------------------------------------------
(* Shutdown                                                                *)

Over == {"none", "joined"}  \* nothing left to join

StopStates == {"poisonIncoming", "poisonOutgoing", "joinWorkers",
               "joinReceiver", "joinSender", "destroyed"}

(* What stopThreads has achieved by each of its steps; startThreads lowers *)
(* a flag that nobody has raised yet.                                      *)
StopProgress ==
    /\ mainPc = "startReceiver" => ~shutdownFlag
    /\ mainPc \in StopStates => shutdownFlag
    /\ mainPc \in {"joinReceiver", "joinSender", "destroyed"} =>
          \A w \in Workers : pc[w] \in Over
    /\ mainPc \in {"joinSender", "destroyed"} => pc[Receiver] \in Over
    /\ mainPc = "destroyed" => pc[Sender] \in Over

(* A pill is queued, or a loop has ended, only when the flag is up.        *)
PillMeansShutdown == Occurs(Null, incomingPackets) => shutdownFlag

ShutdownInv == StopProgress /\ PillMeansShutdown /\ ThreadsLeaveOnlyAtShutdown

LEMMA ShutdownInit == Init => ShutdownInv
BY DEF Init, ShutdownInv, StopProgress, StopStates, PillMeansShutdown, Occurs,
       ThreadsLeaveOnlyAtShutdown, Threads

(* The pill: only PoisonIncoming queues it, and the flag is up by then.    *)
LEMMA PillStep ==
    ASSUME TypeInv, ShutdownInv, [Next]_vars
    PROVE  PillMeansShutdown'
<1> USE NullAssumption DEF TypeInv, TypeOK, mainVars, dataVars, queueVars
<1>1. shutdownFlag => shutdownFlag'
  BY DEF ShutdownInv, StopProgress, Next, MainStep, ReceiverStep, ReadEnds, WorkerStep, SenderStep, vars,
         StartReceiver, StartSender, StartWorker, StartThreadsReturns,
         ThreadStartFails, ServerReturns, RaiseFlag, PoisonIncoming,
         PoisonOutgoing, JoinWorkers, JoinReceiver, JoinSender, LoopCheck,
         EpollWait, EpollFails, EventWithoutPacket, EventReadable, PacketRead,
         PacketReadThrows, WorkerPops, WorkerTimesOut, QueueReply, HandOver,
         RouteEnds, DropRequest, SenderPops, SenderFindsNothing, SendPacket,
         FreeSent, Terminated
<1>2. CASE PoisonIncoming
  BY <1>2 DEF PoisonIncoming, ShutdownInv, StopProgress, StopStates,
              PillMeansShutdown
<1>3. ASSUME NEW p \in Packets, PacketRead(p) PROVE PillMeansShutdown'
  <2>1. p \in Packets \cup {Null} /\ incomingPackets \in Seq(Packets \cup {Null})
    OBVIOUS
  <2>2. incomingPackets' = Append(incomingPackets, p)
    BY <1>3 DEF PacketRead
  <2> HIDE DEF TypeOK, TypeInv
  <2>3. Occurs(Null, Append(incomingPackets, p)) <=> Occurs(Null, incomingPackets) \/ Null = p
    BY <2>1, OccursInAppend
  <2>4. QED
    BY <1>1, <2>2, <2>3 DEF ShutdownInv, PillMeansShutdown, Occurs
<1>4. ASSUME NEW w \in Workers, WorkerPops(w) PROVE PillMeansShutdown'
  <2>1. incomingPackets # <<>> /\ incomingPackets' = Tail(incomingPackets)
    BY <1>4 DEF WorkerPops
  <2>2. Occurs(Null, Tail(incomingPackets)) => Occurs(Null, incomingPackets)
    BY <2>1, OccursInTail
  <2>3. QED
    BY <1>1, <2>1, <2>2 DEF ShutdownInv, PillMeansShutdown, Occurs
<1>5. CASE UNCHANGED incomingPackets
  BY <1>1, <1>5 DEF ShutdownInv, PillMeansShutdown, Occurs
<1>6. QED
  BY <1>2, <1>3, <1>4, <1>5
  DEF Next, MainStep, ReceiverStep, ReadEnds, WorkerStep, SenderStep, vars,
      StartReceiver, StartSender, StartWorker, StartThreadsReturns,
      ThreadStartFails, ServerReturns, RaiseFlag, PoisonOutgoing, JoinWorkers,
      JoinReceiver, JoinSender, LoopCheck, EpollWait, EpollFails,
      EventWithoutPacket, EventReadable, PacketReadThrows, WorkerTimesOut,
      QueueReply, HandOver, RouteEnds, DropRequest, SenderPops,
      SenderFindsNothing, SendPacket, FreeSent, Terminated

(* Once raised, the flag stays up, and no thread that is over starts again *)
(* while stopThreads runs.                                                 *)
LEMMA StopProgressStep ==
    ASSUME TypeInv, ShutdownInv, [Next]_vars
    PROVE  StopProgress'
<1> USE ThreadsAssumption
    DEF TypeInv, TypeOK, ShutdownInv, StopProgress, StopStates, Over, mainVars,
        dataVars, queueVars, Goto
<1> Receiver \in Threads /\ Sender \in Threads /\ Workers \subseteq Threads
  BY DEF Threads
<1>1. CASE UNCHANGED <<mainPc, shutdownFlag, pc>>
  BY <1>1
<1>2. CASE \/ StartReceiver \/ StartSender \/ StartThreadsReturns
           \/ ThreadStartFails \/ ServerReturns \/ RaiseFlag
           \/ PoisonIncoming \/ PoisonOutgoing
  BY <1>2 DEF StartReceiver, StartSender, StartThreadsReturns, ThreadStartFails,
              ServerReturns, RaiseFlag, PoisonIncoming, PoisonOutgoing
<1>3. ASSUME NEW w \in Workers, StartWorker(w) PROVE StopProgress'
  BY <1>3 DEF StartWorker
<1>4. CASE JoinWorkers
  BY <1>4 DEF JoinWorkers, Active
<1>5. CASE JoinReceiver
  BY <1>5 DEF JoinReceiver, Active
<1>6. CASE JoinSender
  BY <1>6 DEF JoinSender, Active
\* A step of a thread is a step of one that is not over.
<1>7. ASSUME NEW t \in Threads, pc[t] \notin Over,
             \A u \in Threads \ {t} : pc'[u] = pc[u],
             UNCHANGED <<mainPc, shutdownFlag>>
      PROVE  StopProgress'
  BY <1>7
<1>8. CASE \/ LoopCheck(Receiver, "poll") \/ EpollWait \/ EventWithoutPacket
           \/ EpollFails \/ EventReadable \/ ReadEnds
  <2>1. /\ pc[Receiver] \notin Over
        /\ \A u \in Threads \ {Receiver} : pc'[u] = pc[u]
        /\ UNCHANGED <<mainPc, shutdownFlag>>
    BY <1>8 DEF LoopCheck, EpollWait, EventWithoutPacket, EpollFails,
                EventReadable, ReadEnds, PacketRead, PacketReadThrows, EventDone
  <2>2. QED
    BY <1>7, <2>1
<1>9. ASSUME NEW w \in Workers, WorkerStep(w) PROVE StopProgress'
  <2>1. /\ pc[w] \notin Over
        /\ \A u \in Threads \ {w} : pc'[u] = pc[u]
        /\ UNCHANGED <<mainPc, shutdownFlag>>
    BY <1>9 DEF WorkerStep, LoopCheck, WorkerPops, WorkerTimesOut, HandOver,
                RouteEnds, DropRequest
  <2>2. QED
    BY <1>7, <2>1
<1>10. CASE SenderStep \/ SendPacket
  <2>1. /\ pc[Sender] \notin Over
        /\ \A u \in Threads \ {Sender} : pc'[u] = pc[u]
        /\ UNCHANGED <<mainPc, shutdownFlag>>
    BY <1>10 DEF SenderStep, LoopCheck, SenderPops, SenderFindsNothing,
                 FreeSent, SendPacket
  <2>2. QED
    BY <1>7, <2>1
<1>11. QED
  BY <1>1, <1>2, <1>3, <1>4, <1>5, <1>6, <1>8, <1>9, <1>10
  DEF Next, MainStep, ReceiverStep, QueueReply, Terminated, vars

LEMMA ThreadsLeaveStep ==
    ASSUME TypeInv, ShutdownInv, [Next]_vars
    PROVE  ThreadsLeaveOnlyAtShutdown'
<1> USE ThreadsAssumption
    DEF TypeInv, TypeOK, ShutdownInv, ThreadsLeaveOnlyAtShutdown, mainVars,
        dataVars, queueVars, Goto
<1> Receiver \in Threads /\ Sender \in Threads /\ Workers \subseteq Threads
  BY DEF Threads
<1>1. CASE UNCHANGED <<pc, shutdownFlag>>
  BY <1>1
<1>2. CASE MainStep \/ ThreadStartFails \/ ServerReturns
  BY <1>2 DEF StopProgress, MainStep, StartReceiver, StartSender, StartWorker,
      StartThreadsReturns, ThreadStartFails, ServerReturns, RaiseFlag,
      PoisonIncoming, PoisonOutgoing, JoinWorkers, JoinReceiver, JoinSender
<1>3. CASE \/ LoopCheck(Receiver, "poll") \/ EpollWait \/ EventWithoutPacket
           \/ EpollFails \/ EventReadable \/ ReadEnds
  BY <1>3 DEF LoopCheck, EpollWait, EventWithoutPacket, EpollFails,
              EventReadable, ReadEnds, PacketRead, PacketReadThrows, EventDone
<1>4. ASSUME NEW w \in Workers, WorkerStep(w)
      PROVE  ThreadsLeaveOnlyAtShutdown'
  <2>1. CASE WorkerPops(w)
    <3>1. Head(incomingPackets) = Null => Occurs(Null, incomingPackets)
      BY <2>1, OccursInTail DEF WorkerPops
    <3>2. QED
      BY <2>1, <3>1 DEF WorkerPops, PillMeansShutdown
  <2>2. CASE ~WorkerPops(w)
    BY <1>4, <2>2 DEF WorkerStep, LoopCheck, WorkerTimesOut, HandOver,
                      RouteEnds, DropRequest
  <2>3. QED
    BY <2>1, <2>2
<1>5. CASE SenderStep \/ SendPacket
  BY <1>5 DEF SenderStep, LoopCheck, SenderPops, SenderFindsNothing, FreeSent,
              SendPacket
<1>6. QED
  BY <1>1, <1>2, <1>3, <1>4, <1>5
  DEF Next, ReceiverStep, QueueReply, Terminated, vars

LEMMA ShutdownInvariant == Spec => []ShutdownInv
<1>1. TypeInv /\ ShutdownInv /\ [Next]_vars => ShutdownInv'
  BY StopProgressStep, PillStep, ThreadsLeaveStep DEF ShutdownInv
<1>2. QED
  BY <1>1, ShutdownInit, TypeInvariant, PTL DEF Spec

(* No worker takes the pill, and neither a worker nor the sender leaves    *)
(* its loop, before the shutdown flag is raised.                           *)
THEOREM ThreadsServeUntilShutdown == Spec => []ThreadsLeaveOnlyAtShutdown
<1>1. ShutdownInv => ThreadsLeaveOnlyAtShutdown
  BY DEF ShutdownInv
<1>2. QED
  BY <1>1, ShutdownInvariant, PTL

(* When the manager is deleted all its threads have been joined or were    *)
(* never started, after a normal run and after a start that failed.        *)
THEOREM ManagerOutlivesThreads == Spec => []NoThreadOutlivesManager
<1>1. ShutdownInv => NoThreadOutlivesManager
  BY DEF ShutdownInv, StopProgress, NoThreadOutlivesManager, Over, Threads
<1>2. QED
  BY <1>1, ShutdownInvariant, PTL
-----------------------------------------------------------------------------
(* Replies go out in the order in which they were queued.                  *)

(* A packet that may still be queued as a reply has not been queued yet.   *)
MayBeQueued(p) == \/ heap[p] = "unborn"
                  \/ Occurs(p, incomingPackets)
                  \/ \E w \in Workers : packet[w] = p

NotYetQueued == \A p \in Packets : MayBeQueued(p) => ~Occurs(p, queued)

(* How many replies have left the outgoing queue: those written, and the   *)
(* one the sender is about to write.                                       *)
Left == Len(wire) + IF pc[Sender] = "send" THEN 1 ELSE 0

ReplyOrder ==
    /\ NoRepeats(queued)
    /\ Left <= Len(queued)
    /\ WaitInOrder(queued, Left, outgoingPackets, Packets)
    /\ pc[Sender] = "send" => packet[Sender] = queued[Len(wire) + 1]

ChannelInv == NotYetQueued /\ ReplyOrder

LEMMA ChannelInit == Init => ChannelInv /\ Channel!Init
BY DEF Init, ChannelInv, NotYetQueued, ReplyOrder, Left, NoRepeats,
       WaitInOrder, Occurs, Threads, Channel!Init

(* A step that touches neither the replies nor what the sender has in hand *)
(* changes nothing of this, if it makes no packet one that may be queued.  *)
LEMMA ChannelFrame ==
    ASSUME ChannelInv, UNCHANGED <<outgoingPackets, queued, wire>>,
           pc'[Sender] = "send" <=> pc[Sender] = "send",
           pc[Sender] = "send" => packet'[Sender] = packet[Sender],
           \A p \in Packets : MayBeQueued(p)' => MayBeQueued(p)
    PROVE  ChannelInv' /\ UNCHANGED Channel!vars
<1>1. NotYetQueued'
  BY DEF ChannelInv, NotYetQueued, Occurs
<1>2. Left' = Left
  BY DEF Left
<1>3. ReplyOrder'
  BY <1>2 DEF ChannelInv, ReplyOrder, NoRepeats, WaitInOrder
<1> QED  BY <1>1, <1>3 DEF ChannelInv, Channel!vars

(* The requests change hands: none that was queued comes back.             *)
LEMMA ChannelRequests ==
    ASSUME TypeInv, Ownership, ChannelInv,
           \/ PoisonIncoming \/ FreeSent
           \/ \E p \in Packets : PacketRead(p)
           \/ \E w \in Workers : WorkerPops(w) \/ DropRequest(w)
    PROVE  ChannelInv' /\ UNCHANGED Channel!vars
<1> USE ThreadsAssumption, NullAssumption DEF Goto, mainVars, queueVars
<1> DEFINE S == Packets \cup {Null}
<1>1. incomingPackets \in Seq(S) /\ Null \in S /\ Packets \subseteq S
  BY DEF TypeInv, TypeOK
<1>2. CASE PoisonIncoming
  <2>1. \A p : Occurs(p, Append(incomingPackets, Null))
                 <=> Occurs(p, incomingPackets) \/ p = Null
    BY <1>1, OccursInAppend
  <2>2. \A p \in Packets : MayBeQueued(p)' => MayBeQueued(p)
    BY <1>2, <2>1 DEF PoisonIncoming, MayBeQueued, Occurs
  <2> QED  BY <1>2, <2>2, ChannelFrame DEF PoisonIncoming
<1>3. ASSUME NEW p \in Packets, PacketRead(p)
      PROVE  ChannelInv' /\ UNCHANGED Channel!vars
  <2>1. \A x : Occurs(x, Append(incomingPackets, p))
                 <=> Occurs(x, incomingPackets) \/ x = p
    BY <1>1, OccursInAppend
  <2>2. /\ heap[p] = "unborn" /\ heap' = [heap EXCEPT ![p] = "live"]
        /\ incomingPackets' = Append(incomingPackets, p)
        /\ UNCHANGED <<outgoingPackets, queued, wire, packet>>
        /\ pc'[Sender] = pc[Sender]
    BY <1>3 DEF PacketRead, Allocate, EventDone, TypeInv, TypeOK, Threads
  <2>3. \A x \in Packets : MayBeQueued(x)' => MayBeQueued(x)
    BY <2>1, <2>2 DEF MayBeQueued, Occurs, TypeInv, TypeOK
  <2> QED  BY <2>2, <2>3, ChannelFrame
<1>4. ASSUME NEW w \in Workers, WorkerPops(w)
      PROVE  ChannelInv' /\ UNCHANGED Channel!vars
  <2>1. \A p : Occurs(p, incomingPackets)
                 <=> p = Head(incomingPackets) \/ Occurs(p, Tail(incomingPackets))
    BY <1>1, <1>4, OccursInTail DEF WorkerPops
  <2>2. /\ packet' = [packet EXCEPT ![w] = Head(incomingPackets)]
        /\ incomingPackets' = Tail(incomingPackets)
        /\ UNCHANGED <<outgoingPackets, queued, wire, heap>>
        /\ pc'[Sender] = pc[Sender] /\ packet'[Sender] = packet[Sender]
    BY <1>4 DEF WorkerPops, TypeInv, TypeOK, Threads
  <2>3. \A p \in Packets : MayBeQueued(p)' => MayBeQueued(p)
    BY <2>1, <2>2 DEF MayBeQueued, Occurs, TypeInv, TypeOK, Threads
  <2> QED  BY <2>2, <2>3, ChannelFrame
<1>5. ASSUME NEW w \in Workers, DropRequest(w)
      PROVE  ChannelInv' /\ UNCHANGED Channel!vars
  <2>1. /\ UNCHANGED <<incomingPackets, outgoingPackets, queued, wire>>
        /\ pc'[Sender] = pc[Sender] /\ packet'[Sender] = packet[Sender]
        /\ packet' = [packet EXCEPT ![w] = Null]
        /\ heap' = [heap EXCEPT ![packet[w]] = "freed"]
    BY <1>5 DEF DropRequest, TypeInv, TypeOK, Threads
  <2>2. \A p \in Packets : MayBeQueued(p)' => MayBeQueued(p)
    BY <2>1 DEF MayBeQueued, Occurs, TypeInv, TypeOK, Threads
  <2> QED  BY <2>1, <2>2, ChannelFrame
<1>6. CASE FreeSent
  <2>1. /\ UNCHANGED <<incomingPackets, outgoingPackets, queued, wire>>
        /\ pc[Sender] = "free" /\ pc'[Sender] = "pop"
        /\ packet' = [packet EXCEPT ![Sender] = Null]
        /\ heap' = [heap EXCEPT ![packet[Sender]] = "freed"]
    BY <1>6 DEF FreeSent, TypeInv, TypeOK, Threads
  <2>2. \A p \in Packets : MayBeQueued(p)' => MayBeQueued(p)
    BY <2>1 DEF MayBeQueued, Occurs, TypeInv, TypeOK, Threads
  <2> QED  BY <2>1, <2>2, ChannelFrame
<1> QED  BY <1>2, <1>3, <1>4, <1>5, <1>6

(* A worker queues a reply, a new packet or the request itself: the        *)
(* channel accepts it.                                                     *)
LEMMA ChannelAccept ==
    ASSUME TypeInv, Ownership, ChannelInv, NEW w \in Workers, NEW p \in Packets,
           QueueReply(w, p) \/ (HandOver(w) /\ p = packet[w])
    PROVE  ChannelInv' /\ Channel!Accept(p)
<1> USE ThreadsAssumption, NullAssumption DEF Goto, mainVars
<1> DEFINE S == Packets \cup {Null}
<1>1. /\ outgoingPackets \in Seq(S) /\ queued \in Seq(Packets)
      /\ wire \in Seq(Packets) /\ p \in Packets \cap S
      /\ Left \in Nat /\ Left <= Len(queued) /\ Len(wire) \in Nat
      /\ Len(queued) \in Nat
  BY LenProperties DEF TypeInv, TypeOK, ChannelInv, ReplyOrder, Left
<1>2. /\ MayBeQueued(p)
      /\ outgoingPackets' = Append(outgoingPackets, p)
      /\ queued' = Append(queued, p)
      /\ UNCHANGED <<wire, incomingPackets>>
      /\ pc'[Sender] = pc[Sender] /\ packet'[Sender] = packet[Sender]
  BY DEF QueueReply, HandOver, Allocate, MayBeQueued, TypeInv, TypeOK, Threads
<1>3. \A x \in Packets : MayBeQueued(x)' => MayBeQueued(x) /\ x # p
  <2>1. CASE QueueReply(w, p)
    <3>1. /\ ~Occurs(p, incomingPackets) /\ \A t \in Workers : packet[t] # p
          /\ heap[p] = "unborn"
      BY <2>1 DEF QueueReply, Allocate, Ownership, LiveIffReachable, Held,
                  Threads
    <3>2. heap' = [heap EXCEPT ![p] = "live"] /\ UNCHANGED packet
      BY <2>1 DEF QueueReply, Allocate
    <3> QED  BY <1>2, <3>1, <3>2 DEF MayBeQueued, Occurs, TypeInv, TypeOK
  <2>2. CASE HandOver(w) /\ p = packet[w]
    <3>1. packet' = [packet EXCEPT ![w] = Null] /\ UNCHANGED heap
      BY <2>2 DEF HandOver
    <3>2. /\ Held(p) /\ ~Occurs(p, incomingPackets) /\ heap[p] = "live"
          /\ \A t \in Workers \ {w} : packet[t] # p
      BY <2>2 DEF Held, Threads, Ownership, SoleOwner, LiveIffReachable
    <3> QED
      BY <1>2, <3>1, <3>2 DEF MayBeQueued, Occurs, TypeInv, TypeOK, Threads
  <2> QED  BY <2>1, <2>2
<1>4. \A a \in 1..Len(queued) : queued[a] # p
  BY <1>2 DEF ChannelInv, NotYetQueued, Occurs
<1>5. /\ NoRepeats(queued')
      /\ WaitInOrder(queued', Left, outgoingPackets', Packets)
  <2>1. NoRepeats(queued) /\ WaitInOrder(queued, Left, outgoingPackets, Packets)
    BY DEF ChannelInv, ReplyOrder
  <2>2. /\ NoRepeats(Append(queued, p))
        /\ WaitInOrder(Append(queued, p), Left, Append(outgoingPackets, p),
                       Packets)
    BY <1>1, <1>4, <2>1, ItemJoins
  <2> QED  BY <1>2, <2>2
<1>6. /\ Len(queued') = Len(queued) + 1
      /\ \A a \in 1..Len(queued) : queued'[a] = queued[a]
      /\ queued'[Len(queued) + 1] = p
  BY <1>1, <1>2, AppendProperties
<1>7. ReplyOrder'
  <2>1. Left' = Left
    BY <1>2 DEF Left
  <2>2. pc[Sender] = "send" => Len(wire) + 1 \in 1..Len(queued)
    BY <1>1 DEF Left
  <2>3. pc'[Sender] = "send" => packet'[Sender] = queued'[Len(wire) + 1]
    BY <1>2, <1>6, <2>2 DEF ChannelInv, ReplyOrder
  <2>4. Left' <= Len(queued')
    BY <1>1, <1>6, <2>1
  <2> QED  BY <1>2, <1>5, <2>1, <2>3, <2>4 DEF ReplyOrder, NoRepeats, WaitInOrder
<1>8. NotYetQueued'
  <2>1. \A x \in Packets : Occurs(x, queued)' <=> Occurs(x, queued) \/ x = p
    <3>1. \A x : Occurs(x, Append(queued, p)) <=> Occurs(x, queued) \/ x = p
      BY <1>1, OccursInAppend
    <3> QED  BY <1>2, <3>1 DEF Occurs
  <2> QED  BY <1>3, <2>1 DEF ChannelInv, NotYetQueued
<1>9. Channel!Accept(p)
  BY <1>2, <1>4 DEF Channel!Accept
<1> QED  BY <1>7, <1>8, <1>9 DEF ChannelInv

(* The sender takes the packet that is next, or the poison pill, and       *)
(* writes it: the channel delivers.                                        *)
LEMMA ChannelPop ==
    ASSUME TypeInv, Ownership, ChannelInv, SenderPops
    PROVE  ChannelInv' /\ UNCHANGED Channel!vars
<1> USE ThreadsAssumption, NullAssumption DEF Goto, mainVars
<1> DEFINE S == Packets \cup {Null}
<1>1. /\ outgoingPackets \in Seq(S) /\ queued \in Seq(Packets)
      /\ wire \in Seq(Packets) /\ Len(wire) \in Nat /\ Len(queued) \in Nat
      /\ Head(outgoingPackets) \in S /\ outgoingPackets # <<>>
  BY LenProperties, HeadTailProperties DEF TypeInv, TypeOK, SenderPops
<1>2. /\ packet' = [packet EXCEPT ![Sender] = Head(outgoingPackets)]
      /\ packet'[Sender] = Head(outgoingPackets)
      /\ outgoingPackets' = Tail(outgoingPackets)
      /\ pc'[Sender] = IF Head(outgoingPackets) = Null THEN "check" ELSE "send"
      /\ pc[Sender] = "pop"
      /\ UNCHANGED <<incomingPackets, queued, wire, heap>>
  BY DEF SenderPops, TypeInv, TypeOK, Threads
<1>3. Left = Len(wire)
  BY <1>1, <1>2 DEF Left
<1>4. NotYetQueued'
  BY <1>2 DEF ChannelInv, NotYetQueued, MayBeQueued, Occurs, TypeInv, TypeOK,
              Threads
<1>5. /\ NoRepeats(queued) /\ Len(wire) <= Len(queued)
      /\ WaitInOrder(queued, Len(wire), outgoingPackets, Packets)
  BY <1>3 DEF ChannelInv, ReplyOrder
<1>6. CASE Head(outgoingPackets) = Null
  <2>1. WaitInOrder(queued, Len(wire), Tail(outgoingPackets), Packets)
    BY <1>1, <1>5, <1>6, OtherLeaves
  <2>2. Left' = Len(wire) /\ pc'[Sender] # "send"
    BY <1>1, <1>2, <1>6 DEF Left
  <2> QED
    BY <1>2, <1>4, <1>5, <2>1, <2>2
    DEF ChannelInv, ReplyOrder, NoRepeats, WaitInOrder, Channel!vars
<1>7. CASE Head(outgoingPackets) \in Packets
  <2>1. /\ Len(wire) < Len(queued)
        /\ Head(outgoingPackets) = queued[Len(wire) + 1]
        /\ WaitInOrder(queued, Len(wire) + 1, Tail(outgoingPackets), Packets)
    BY <1>1, <1>5, <1>7, ItemLeaves
  <2>2. Left' = Len(wire) + 1
    BY <1>1, <1>2, <1>7 DEF Left
  <2> QED
    BY <1>1, <1>2, <1>4, <1>5, <2>1, <2>2
    DEF ChannelInv, ReplyOrder, NoRepeats, WaitInOrder, Channel!vars
<1> QED  BY <1>1, <1>6, <1>7

LEMMA ChannelDeliver ==
    ASSUME TypeInv, ChannelInv, SendPacket
    PROVE  ChannelInv' /\ Channel!Deliver
<1> USE DEF Goto, mainVars, queueVars
<1>1. /\ wire \in Seq(Packets) /\ packet[Sender] = queued[Len(wire) + 1]
      /\ Len(wire) \in Nat /\ Len(queued) \in Nat
      /\ Left = Len(wire) + 1 /\ Left <= Len(queued)
  BY LenProperties
  DEF TypeInv, TypeOK, SendPacket, ChannelInv, ReplyOrder, Left
<1>2. packet[Sender] \in Packets
  BY <1>1 DEF TypeInv, TypeOK
<1>3. /\ wire' = Append(wire, packet[Sender]) /\ Len(wire') = Len(wire) + 1
      /\ pc'[Sender] = "free"
      /\ UNCHANGED <<incomingPackets, outgoingPackets, queued, packet, heap>>
  BY <1>1, <1>2, AppendProperties
  DEF SendPacket, TypeInv, TypeOK, Threads
<1>4. Left' = Left
  BY <1>1, <1>3 DEF Left
<1>5. ChannelInv'
  BY <1>1, <1>3, <1>4
  DEF ChannelInv, NotYetQueued, MayBeQueued, ReplyOrder, NoRepeats,
      WaitInOrder, Occurs
<1>6. Channel!Deliver
  BY <1>1, <1>3 DEF Channel!Deliver
<1> QED  BY <1>5, <1>6

LEMMA ChannelStep ==
    TypeInv /\ Ownership /\ ChannelInv /\ [Next]_vars
        => ChannelInv' /\ [Channel!Next]_(Channel!vars)
<1> SUFFICES ASSUME TypeInv, Ownership, ChannelInv, [Next]_vars
             PROVE  ChannelInv' /\ [Channel!Next]_(Channel!vars)
  OBVIOUS
<1> USE ThreadsAssumption DEF dataVars, queueVars, mainVars, Goto
<1>1. CASE \/ PoisonIncoming \/ FreeSent
           \/ \E p \in Packets : PacketRead(p)
           \/ \E w \in Workers : WorkerPops(w) \/ DropRequest(w)
  BY <1>1, ChannelRequests
<1>2. ASSUME NEW w \in Workers, NEW p \in Packets, QueueReply(w, p)
      PROVE  ChannelInv' /\ [Channel!Next]_(Channel!vars)
  BY <1>2, ChannelAccept DEF Channel!Next
<1>3. ASSUME NEW w \in Workers, HandOver(w)
      PROVE  ChannelInv' /\ [Channel!Next]_(Channel!vars)
  <2>1. packet[w] \in Packets
    BY <1>3 DEF HandOver, TypeInv, TypeOK, BusyHoldsPacket, Busy, Threads
  <2> QED  BY <1>3, <2>1, ChannelAccept DEF Channel!Next
<1>4. CASE SenderPops
  BY <1>4, ChannelPop
<1>5. CASE SendPacket
  BY <1>5, ChannelDeliver DEF Channel!Next
<1>6. CASE PoisonOutgoing
  <2>1. /\ outgoingPackets \in Seq(Packets \cup {Null})
        /\ queued \in Seq(Packets) /\ Left \in Nat
    BY LenProperties DEF TypeInv, TypeOK, Left
  <2>2. WaitInOrder(queued, Left, Append(outgoingPackets, Null), Packets)
    BY <2>1, OtherJoins, NullAssumption DEF ChannelInv, ReplyOrder
  <2>3. /\ outgoingPackets' = Append(outgoingPackets, Null) /\ Left' = Left
        /\ UNCHANGED <<pc, incomingPackets, queued, wire, packet, heap>>
    BY <1>6 DEF PoisonOutgoing, Left
  <2> QED
    BY <2>2, <2>3
    DEF ChannelInv, NotYetQueued, MayBeQueued, ReplyOrder, NoRepeats,
        WaitInOrder, Occurs, Channel!vars
<1>7. ASSUME UNCHANGED <<incomingPackets, outgoingPackets, queued, wire,
                         packet, heap>>,
             pc'[Sender] = "send" <=> pc[Sender] = "send"
      PROVE  ChannelInv' /\ [Channel!Next]_(Channel!vars)
  <2>1. \A p \in Packets : MayBeQueued(p)' => MayBeQueued(p)
    BY <1>7 DEF MayBeQueued, Occurs
  <2> QED  BY <1>7, <2>1, ChannelFrame
<1>8. CASE \/ StartReceiver \/ StartSender \/ StartThreadsReturns \/ RaiseFlag
           \/ ThreadStartFails \/ ServerReturns
           \/ JoinWorkers \/ JoinReceiver \/ JoinSender
           \/ \E w \in Workers : StartWorker(w)
  BY <1>7, <1>8
  DEF TypeInv, TypeOK, SenderStartsOnce, Active, Threads, StartReceiver,
      StartSender, StartThreadsReturns, RaiseFlag, ThreadStartFails,
      ServerReturns, JoinWorkers, JoinReceiver, JoinSender, StartWorker
<1>9. CASE \/ LoopCheck(Receiver, "poll") \/ EpollWait \/ EventWithoutPacket
           \/ EpollFails \/ EventReadable \/ PacketReadThrows
           \/ LoopCheck(Sender, "pop") \/ SenderFindsNothing
           \/ \E w \in Workers :
                  LoopCheck(w, "pop") \/ WorkerTimesOut(w) \/ RouteEnds(w)
  BY <1>7, <1>9
  DEF TypeInv, TypeOK, Threads, LoopCheck, EpollWait, EventWithoutPacket,
      EpollFails, EventReadable, PacketReadThrows, SenderFindsNothing,
      WorkerTimesOut, RouteEnds, EventDone
<1>10. CASE Terminated \/ UNCHANGED vars
  BY <1>7, <1>10 DEF Terminated, vars
<1> QED
  BY <1>1, <1>2, <1>3, <1>4, <1>5, <1>6, <1>8, <1>9, <1>10
  DEF Next, MainStep, ReceiverStep, ReadEnds, WorkerStep, SenderStep

(* The replies queued by all workers and the packets the sender writes are *)
(* a FIFO channel: nothing is lost, doubled or overtaken between them.     *)
THEOREM RepliesLeaveInOrder == Spec => WireIsFifoChannel
<1>1. Init => ChannelInv /\ Channel!Init
  BY ChannelInit
<1>2. TypeInv /\ Ownership /\ ChannelInv /\ [Next]_vars
        => ChannelInv' /\ [Channel!Next]_(Channel!vars)
  BY ChannelStep
<1>3. QED
  BY <1>1, <1>2, TypeInvariant, OwnershipInvariant, PTL
  DEF Spec, WireIsFifoChannel, Channel!Spec
=============================================================================
