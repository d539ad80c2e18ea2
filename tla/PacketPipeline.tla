--------------------------- MODULE PacketPipeline ---------------------------
(***************************************************************************)
(* The threads of NetworkManager and the Packet objects they pass on.      *)
(*                                                                         *)
(* One receiver thread builds a Packet from each readable socket and puts  *)
(* it on _incomingPackets; worker threads take packets from there, route   *)
(* them, put replies (copies of the request) on _outgoingPackets and then  *)
(* either delete the request or hand it over as a reply itself; one sender *)
(* thread takes packets from _outgoingPackets, writes them to their socket *)
(* and deletes them.  The main thread starts these threads, sleeps, and    *)
(* stops and joins them before it deletes the manager.  Both queues are    *)
(* ThreadSafeQueue<Packet*>: every operation holds the queue's mutex, so   *)
(* it is one step.                                                         *)
(*                                                                         *)
(* What a handler does to players and sockets is left to Connections; here *)
(* a handler is the sequence of replies it queues and whether it ends by   *)
(* handing the request over (PACKET_SEND) or not.                          *)
(***************************************************************************)
EXTENDS Naturals, Sequences

CONSTANTS Workers,          \* the worker threads
          Packets,          \* the Packet objects that may ever be allocated
          MaxEvent,         \* most events one epoll_wait returns
          Receiver, Sender, \* the two other threads
          Null              \* the null pointer, also the poison pill

ASSUME WorkersAssumption == Workers # {}
ASSUME ThreadsAssumption ==
    Receiver # Sender /\ Receiver \notin Workers /\ Sender \notin Workers
ASSUME NullAssumption == Null \notin Packets
ASSUME MaxEventAssumption == MaxEvent \in Nat

VARIABLES
    mainPc,                 \* where the main thread is
    unwinding,              \* stopThreads runs in the catch of startThreads
    shutdownFlag,           \* _shutdownFlag
    pc,                     \* where each thread of the manager is
    incomingPackets,        \* _incomingPackets
    outgoingPackets,        \* _outgoingPackets
    events,                 \* the receiver's events not yet looked at
    packet,                 \* the packet pointer each thread holds
    heap,                   \* the lifetime of each Packet object
    queued,                 \* history: the replies in the order they were queued
    wire                    \* the packets passed to send(), in order

vars == <<mainPc, unwinding, shutdownFlag, pc, incomingPackets,
          outgoingPackets, events, packet, heap, queued, wire>>

Threads == Workers \cup {Receiver, Sender}

MainStates == {"startReceiver", "startSender", "startWorkers", "sleep",
               "setFlag", "poisonIncoming", "poisonOutgoing", "joinWorkers",
               "joinReceiver", "joinSender", "destroyed"}

ThreadStates == {"none", "check", "poll", "event", "read", "pop", "route",
                 "drop", "send", "free", "done", "joined"}

\* A thread that has been started and has not returned from its loop.
Active(t) == pc[t] \notin {"none", "done", "joined"}

TypeOK ==
    /\ mainPc \in MainStates
    /\ unwinding \in BOOLEAN
    /\ shutdownFlag \in BOOLEAN
    /\ pc \in [Threads -> ThreadStates]
    /\ incomingPackets \in Seq(Packets \cup {Null})
    /\ outgoingPackets \in Seq(Packets \cup {Null})
    /\ events \in 0..MaxEvent
    /\ packet \in [Threads -> Packets \cup {Null}]
    /\ heap \in [Packets -> {"unborn", "live", "freed"}]
    /\ queued \in Seq(Packets)
    /\ wire \in Seq(Packets)

Init ==
    /\ mainPc = "startReceiver"
    /\ unwinding = FALSE
    /\ shutdownFlag = FALSE
    /\ pc = [t \in Threads |-> "none"]
    /\ incomingPackets = <<>>
    /\ outgoingPackets = <<>>
    /\ events = 0
    /\ packet = [t \in Threads |-> Null]
    /\ heap = [p \in Packets |-> "unborn"]
    /\ queued = <<>>
    /\ wire = <<>>

queueVars == <<incomingPackets, outgoingPackets, queued>>
dataVars == <<queueVars, events, packet, heap, wire>>
mainVars == <<mainPc, unwinding, shutdownFlag>>

Goto(t, label) == pc' = [pc EXCEPT ![t] = label]

-----------------------------------------------------------------------------
(* The main thread: startThreads, sleep(100), ~Server.                     *)

StartReceiver ==
    /\ mainPc = "startReceiver"
    /\ mainPc' = "startSender"
    /\ shutdownFlag' = FALSE
    /\ Goto(Receiver, "check")
    /\ UNCHANGED <<unwinding, dataVars>>

StartSender ==
    /\ mainPc = "startSender"
    /\ mainPc' = "startWorkers"
    /\ Goto(Sender, "check")
    /\ UNCHANGED <<unwinding, shutdownFlag, dataVars>>

StartWorker(w) ==
    /\ mainPc = "startWorkers"
    /\ pc[w] = "none"
    /\ Goto(w, "check")
    /\ UNCHANGED <<mainVars, dataVars>>

StartThreadsReturns ==
    /\ mainPc = "startWorkers"
    /\ \A w \in Workers : pc[w] # "none"
    /\ mainPc' = "sleep"
    /\ UNCHANGED <<unwinding, shutdownFlag, pc, dataVars>>

\* A std::thread constructor throws: the catch of startThreads calls
\* stopThreads, whatever has been started by then.
ThreadStartFails ==
    /\ \/ mainPc \in {"startReceiver", "startSender"}
       \/ mainPc = "startWorkers" /\ \E w \in Workers : pc[w] = "none"
    /\ mainPc' = "setFlag"
    /\ unwinding' = TRUE
    /\ UNCHANGED <<shutdownFlag, pc, dataVars>>

\* start_server returns after its sleep, and ~Server calls stopThreads.
ServerReturns ==
    /\ mainPc = "sleep"
    /\ mainPc' = "setFlag"
    /\ UNCHANGED <<unwinding, shutdownFlag, pc, dataVars>>

\* Mutation: the pills are queued before the flag is raised.
FlagRaisedTooLate ==
    /\ mainPc = "setFlag"
    /\ mainPc' = "poisonIncoming"
    /\ UNCHANGED <<unwinding, shutdownFlag, pc, dataVars>>

RaiseFlag ==
    /\ mainPc = "setFlag"
    /\ shutdownFlag' = TRUE
    /\ mainPc' = "poisonIncoming"
    /\ UNCHANGED <<unwinding, pc, dataVars>>

PoisonIncoming ==
    /\ mainPc = "poisonIncoming"
    /\ incomingPackets' = Append(incomingPackets, Null)
    /\ mainPc' = "poisonOutgoing"
    /\ UNCHANGED <<unwinding, shutdownFlag, pc, outgoingPackets, queued,
                   events, packet, heap, wire>>

PoisonOutgoing ==
    /\ mainPc = "poisonOutgoing"
    /\ outgoingPackets' = Append(outgoingPackets, Null)
    /\ mainPc' = "joinWorkers"
    /\ UNCHANGED <<unwinding, shutdownFlag, pc, incomingPackets, queued,
                   events, packet, heap, wire>>

\* Mutation: only the workers that have ended are joined.
JoinEndedWorkers ==
    /\ mainPc = "joinWorkers"
    /\ pc' = [t \in Threads |-> IF t \in Workers /\ pc[t] = "done"
                                THEN "joined" ELSE pc[t]]
    /\ mainPc' = "joinReceiver"
    /\ UNCHANGED <<unwinding, shutdownFlag, dataVars>>

\* Every joinable worker is joined, then the vector is cleared.
JoinWorkers ==
    /\ mainPc = "joinWorkers"
    /\ \A w \in Workers : ~Active(w)
    /\ pc' = [t \in Threads |-> IF t \in Workers /\ pc[t] = "done"
                                THEN "joined" ELSE pc[t]]
    /\ mainPc' = "joinReceiver"
    /\ UNCHANGED <<unwinding, shutdownFlag, dataVars>>

\* A thread that was never started, or joined before, is not joinable.
JoinReceiver ==
    /\ mainPc = "joinReceiver"
    /\ ~Active(Receiver)
    /\ Goto(Receiver, IF pc[Receiver] = "done" THEN "joined" ELSE pc[Receiver])
    /\ mainPc' = "joinSender"
    /\ UNCHANGED <<unwinding, shutdownFlag, dataVars>>

\* From the catch of startThreads the exception goes on to start_server,
\* which returns 1, so that ~Server runs stopThreads a second time; from
\* ~Server the manager is deleted.
JoinSender ==
    /\ mainPc = "joinSender"
    /\ ~Active(Sender)
    /\ Goto(Sender, IF pc[Sender] = "done" THEN "joined" ELSE pc[Sender])
    /\ mainPc' = IF unwinding THEN "setFlag" ELSE "destroyed"
    /\ unwinding' = FALSE
    /\ UNCHANGED <<shutdownFlag, dataVars>>

MainStep ==
    \/ StartReceiver \/ StartSender \/ \E w \in Workers : StartWorker(w)
    \/ StartThreadsReturns \/ RaiseFlag \/ PoisonIncoming \/ PoisonOutgoing
    \/ JoinWorkers \/ JoinReceiver \/ JoinSender

-----------------------------------------------------------------------------
(* Every loop starts by reading the flag.                                  *)

LoopCheck(t, label) ==
    /\ pc[t] = "check"
    /\ Goto(t, IF shutdownFlag THEN "done" ELSE label)
    /\ UNCHANGED <<mainVars, dataVars>>

\* new Packet: an object that was never used before.
Allocate(p) ==
    /\ heap[p] = "unborn"
    /\ heap' = [heap EXCEPT ![p] = "live"]

-----------------------------------------------------------------------------
(* receiverThreadLoop                                                      *)

\* No event (the 50 ms are over, or EINTR), or up to MaxEvent of them.
EpollWait ==
    /\ pc[Receiver] = "poll"
    /\ events' \in 0..MaxEvent
    /\ Goto(Receiver, IF events' = 0 THEN "check" ELSE "event")
    /\ UNCHANGED <<mainVars, queueVars, packet, heap, wire>>

EpollFails ==
    /\ pc[Receiver] = "poll"
    /\ Goto(Receiver, "done")
    /\ UNCHANGED <<mainVars, dataVars>>

\* On to the next event of the batch, or back to the head of the loop.
EventDone ==
    /\ events' = events - 1
    /\ Goto(Receiver, IF events = 1 THEN "check" ELSE "event")

\* A connection to accept, or a socket that hung up.
EventWithoutPacket ==
    /\ pc[Receiver] = "event"
    /\ EventDone
    /\ UNCHANGED <<mainVars, queueVars, packet, heap, wire>>

\* EPOLLIN on a client: the constructor of Packet reads from the socket,
\* which blocks, until it has the whole packet or the read fails.
EventReadable ==
    /\ pc[Receiver] = "event"
    /\ Goto(Receiver, "read")
    /\ UNCHANGED <<mainVars, dataVars>>

PacketRead(p) ==
    /\ pc[Receiver] = "read"
    /\ Allocate(p)
    /\ incomingPackets' = Append(incomingPackets, p)
    /\ EventDone
    /\ UNCHANGED <<mainVars, outgoingPackets, queued, packet, wire>>

\* The constructor throws, which frees the object under construction.
PacketReadThrows ==
    /\ pc[Receiver] = "read"
    /\ EventDone
    /\ UNCHANGED <<mainVars, queueVars, packet, heap, wire>>

ReadEnds == PacketReadThrows \/ \E p \in Packets : PacketRead(p)

-----------------------------------------------------------------------------
(* workerThreadLoop                                                        *)

\* waitAndPopTimeout finds a packet; the poison pill ends the loop.
WorkerPops(w) ==
    /\ pc[w] = "pop"
    /\ incomingPackets # <<>>
    /\ packet' = [packet EXCEPT ![w] = Head(incomingPackets)]
    /\ incomingPackets' = Tail(incomingPackets)
    /\ Goto(w, IF Head(incomingPackets) = Null THEN "done" ELSE "route")
    /\ UNCHANGED <<mainVars, outgoingPackets, queued, events, heap, wire>>

\* Mutation: waitAndPop, which waits for a packet for ever.
WorkerNeverTimesOut(w) == FALSE /\ UNCHANGED <<vars, w>>

\* The queue stays empty for 100 ms.
WorkerTimesOut(w) ==
    /\ pc[w] = "pop"
    /\ incomingPackets = <<>>
    /\ Goto(w, "check")
    /\ UNCHANGED <<mainVars, dataVars>>

\* packetRouter, from inside a handler: a copy of the request is made, filled
\* and queued.  Nobody else has the copy until it is queued.
QueueReply(w, p) ==
    /\ pc[w] = "route"
    /\ Allocate(p)
    /\ outgoingPackets' = Append(outgoingPackets, p)
    /\ queued' = Append(queued, p)
    /\ UNCHANGED <<mainVars, pc, incomingPackets, events, packet, wire>>

\* Mutation: `packet = nullptr` after the push is missing.
HandOverKeepsPointer(w) ==
    /\ pc[w] = "route"
    /\ outgoingPackets' = Append(outgoingPackets, packet[w])
    /\ queued' = Append(queued, packet[w])
    /\ Goto(w, "drop")
    /\ UNCHANGED <<mainVars, packet, incomingPackets, events, heap, wire>>

\* packetRouter returns PACKET_SEND: the request object becomes the reply.
HandOver(w) ==
    /\ pc[w] = "route"
    /\ outgoingPackets' = Append(outgoingPackets, packet[w])
    /\ queued' = Append(queued, packet[w])
    /\ packet' = [packet EXCEPT ![w] = Null]
    /\ Goto(w, "check")
    /\ UNCHANGED <<mainVars, incomingPackets, events, heap, wire>>

\* Mutation: the delete is skipped when the router throws.
RouteThrowLeaks(w) ==
    /\ pc[w] = "route"
    /\ packet' = [packet EXCEPT ![w] = Null]
    /\ Goto(w, "check")
    /\ UNCHANGED <<mainVars, queueVars, events, heap, wire>>

\* packetRouter returns anything else, or throws.
RouteEnds(w) ==
    /\ pc[w] = "route"
    /\ Goto(w, "drop")
    /\ UNCHANGED <<mainVars, dataVars>>

DropRequest(w) ==
    /\ pc[w] = "drop"
    /\ heap' = [heap EXCEPT ![packet[w]] = "freed"]
    /\ packet' = [packet EXCEPT ![w] = Null]
    /\ Goto(w, "check")
    /\ UNCHANGED <<mainVars, queueVars, events, wire>>

WorkerStep(w) ==
    \/ LoopCheck(w, "pop") \/ WorkerPops(w) \/ WorkerTimesOut(w)
    \/ HandOver(w) \/ RouteEnds(w) \/ DropRequest(w)

-----------------------------------------------------------------------------
(* senderThreadLoop                                                        *)

\* Mutation: tryPop takes the newest packet.
SenderPopsNewest ==
    /\ pc[Sender] = "pop"
    /\ outgoingPackets # <<>>
    /\ LET n == Len(outgoingPackets) IN
       /\ packet' = [packet EXCEPT ![Sender] = outgoingPackets[n]]
       /\ outgoingPackets' = SubSeq(outgoingPackets, 1, n - 1)
       /\ Goto(Sender, IF outgoingPackets[n] = Null THEN "check" ELSE "send")
    /\ UNCHANGED <<mainVars, incomingPackets, queued, events, heap, wire>>

\* tryPop: the inner loop ends on an empty queue (then usleep) and on the
\* poison pill, and does not look at the flag while packets remain.
SenderPops ==
    /\ pc[Sender] = "pop"
    /\ outgoingPackets # <<>>
    /\ packet' = [packet EXCEPT ![Sender] = Head(outgoingPackets)]
    /\ outgoingPackets' = Tail(outgoingPackets)
    /\ Goto(Sender, IF Head(outgoingPackets) = Null THEN "check" ELSE "send")
    /\ UNCHANGED <<mainVars, incomingPackets, queued, events, heap, wire>>

SenderFindsNothing ==
    /\ pc[Sender] = "pop"
    /\ outgoingPackets = <<>>
    /\ Goto(Sender, "check")
    /\ UNCHANGED <<mainVars, dataVars>>

\* send() blocks while the client does not drain its socket.
SendPacket ==
    /\ pc[Sender] = "send"
    /\ wire' = Append(wire, packet[Sender])
    /\ Goto(Sender, "free")
    /\ UNCHANGED <<mainVars, queueVars, events, packet, heap>>

\* Mutation: a packet that was sent is not deleted.
SentIsNotFreed ==
    /\ pc[Sender] = "free"
    /\ packet' = [packet EXCEPT ![Sender] = Null]
    /\ Goto(Sender, "pop")
    /\ UNCHANGED <<mainVars, queueVars, events, heap, wire>>

FreeSent ==
    /\ pc[Sender] = "free"
    /\ heap' = [heap EXCEPT ![packet[Sender]] = "freed"]
    /\ packet' = [packet EXCEPT ![Sender] = Null]
    /\ Goto(Sender, "pop")
    /\ UNCHANGED <<mainVars, queueVars, events, wire>>

SenderStep ==
    \/ LoopCheck(Sender, "pop") \/ SenderPops \/ SenderFindsNothing \/ FreeSent

-----------------------------------------------------------------------------
ReceiverStep ==
    LoopCheck(Receiver, "poll") \/ EpollWait \/ EventWithoutPacket

\* main has returned: nothing runs any more.
Terminated == mainPc = "destroyed" /\ UNCHANGED vars

Next ==
    \/ MainStep \/ ThreadStartFails \/ ServerReturns
    \/ ReceiverStep \/ EpollFails \/ EventReadable \/ ReadEnds
    \/ \E w \in Workers :
           WorkerStep(w) \/ \E p \in Packets : QueueReply(w, p)
    \/ SenderStep \/ SendPacket
    \/ Terminated

Spec == Init /\ [][Next]_vars

(* Every started thread is scheduled, so its next step is taken.  Nothing  *)
(* makes the 100 s of sleep end, a thread fail to start, or a handler      *)
(* queue one more reply.                                                   *)
ThreadFairness ==
    /\ WF_vars(MainStep)
    /\ WF_vars(ReceiverStep \/ EventReadable)
    /\ \A w \in Workers : WF_vars(WorkerStep(w))
    /\ WF_vars(SenderStep)

(* The blocking calls on a client's socket return: clients complete the    *)
(* packets they begin (or hang up), and drain what is sent to them.        *)
ClientFairness == WF_vars(ReadEnds) /\ WF_vars(SendPacket)

FairSpec == Spec /\ ThreadFairness /\ ClientFairness

-----------------------------------------------------------------------------
(* Safety                                                                  *)

Occurs(p, queue) == \E i \in 1..Len(queue) : queue[i] = p
Held(p) == \E t \in Threads : packet[t] = p

\* A queue holds no packet twice (but it may hold several poison pills).
Distinct(queue) ==
    \A i, j \in 1..Len(queue) : queue[i] = queue[j] /\ i # j => queue[i] = Null

(* A Packet object is live exactly as long as some queue or thread has a   *)
(* pointer to it: no thread deletes or uses a packet another one deleted   *)
(* (networkWorker.cpp:42, networkQueuer.cpp:107), and none is lost.        *)
LiveIffReachable ==
    \A p \in Packets :
        heap[p] = "live" <=> \/ Occurs(p, incomingPackets)
                            \/ Occurs(p, outgoingPackets)
                            \/ Held(p)

(* Raw pointers are passed from thread to thread without a reference       *)
(* count: at no time do two threads, two queues or two places of a queue   *)
(* have the same one, also when the request itself becomes the reply       *)
(* (networkWorker.cpp:24-25).                                              *)
SoleOwner ==
    /\ Distinct(incomingPackets)
    /\ Distinct(outgoingPackets)
    /\ \A s, t \in Threads : packet[s] = packet[t] /\ s # t => packet[s] = Null
    /\ \A p \in Packets :
          /\ ~ (Occurs(p, incomingPackets) /\ Occurs(p, outgoingPackets))
          /\ ~ (Occurs(p, incomingPackets) /\ Held(p))
          /\ ~ (Occurs(p, outgoingPackets) /\ Held(p))

(* The poison pill is queued after the flag is raised: no worker takes it, *)
(* and no loop but the receiver's ends, while the server is to keep        *)
(* serving (networkManager.cpp:56-59).                                     *)
ThreadsLeaveOnlyAtShutdown ==
    \A t \in Workers \cup {Sender} :
        pc[t] \in {"done", "joined"} => shutdownFlag

(* ~Server deletes the manager, with its queues and flag, when no thread   *)
(* runs in it any more, also after a failed start (server.cpp:23-26).      *)
NoThreadOutlivesManager ==
    mainPc = "destroyed" =>
        \A t \in Threads : pc[t] \in {"none", "joined"}

-----------------------------------------------------------------------------
(* What the sender and the outgoing queue promise                          *)

Channel == INSTANCE FifoChannel
               WITH Items <- Packets, accepted <- queued, delivered <- wire

(* Replies go out in the order in which the workers queued them, each at   *)
(* most once and none skipped, up to where the shutdown cuts them off      *)
(* (networkQueuer.cpp:84-113).                                             *)
WireIsFifoChannel == Channel!Spec

-----------------------------------------------------------------------------
(* Liveness                                                                *)

(* stopThreads returns and the manager is deleted: one poison pill a queue *)
(* is enough, as the workers that do not get it time out and read the flag *)
(* (networkManager.cpp:55-78, networkWorker.cpp:17).                       *)
ShutdownCompletes == (mainPc = "setFlag") ~> (mainPc = "destroyed")

(* As long as the server runs every packet is handled, its replies are     *)
(* sent, and all of them are deleted.                                      *)
EveryPacketIsFreed ==
    \A p \in Packets : (heap[p] = "live") ~> (heap[p] = "freed" \/ shutdownFlag)
=============================================================================
