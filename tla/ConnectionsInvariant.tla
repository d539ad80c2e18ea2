------------------------ MODULE ConnectionsInvariant ------------------------
(***************************************************************************)
(* Why no thread of Connections uses a player that another has deleted.    *)
(*                                                                         *)
(* Nobody counts the pointers to a player.  What keeps them apart is that  *)
(* a client that waits for its replies has at most one request on the way, *)
(* and that whoever disconnects it does so when no reply to it is left:    *)
(* the exclusion of OneAtATime.  The other parts say what a packet on the  *)
(* way, an entry of a list, an event and the plan of a handler can refer   *)
(* to, so that every step keeps that exclusion.                            *)
(***************************************************************************)
EXTENDS Connections

-----------------------------------------------------------------------------
(* Types, and where each thread can be.                                    *)

Steps == [do : {"setState"}, state : PlayerStates]
         \cup [do : {"erase", "insert"}]
         \cup [do : {"queue"}, reply : Replies]

ThreadRecords ==
    [pc : {"idle", "event", "lookup", "read", "route", "run", "send",
           "check", "remove", "unlink", "close"},
     job : Jobs, todo : Seq(Steps), result : Replies \cup {"ok", "disconnect"}]

Disconnecting == {"remove", "unlink", "close"}

Stations ==
    /\ thread[Receiver].pc \in {"idle", "event", "lookup", "read"}
                               \cup Disconnecting
    /\ \A w \in Workers :
          thread[w].pc \in {"idle", "route", "run"} \cup Disconnecting
    /\ thread[Sender].pc \in {"idle", "send", "check"} \cup Disconnecting
    /\ thread[Receiver].pc = "idle" <=> events = <<>>
    /\ thread[Receiver].pc = "lookup" => Head(events).fd \in Fds

\* What goes out is a reply.
RepliesGoOut ==
    /\ \A i \in 1..Len(outgoingPackets) :
          outgoingPackets[i].content \in Replies
    /\ thread[Sender].pc = "send" => thread[Sender].job.content \in Replies

TypeInv == /\ TypeOK
           /\ thread \in [Threads -> ThreadRecords]
           /\ Stations
           /\ RepliesGoOut

-----------------------------------------------------------------------------
(* Sockets: a descriptor is of one open connection, and a client that has  *)
(* sent a packet waits until it has been read.                             *)

SocketInv ==
    /\ \A fd \in Fds : fdClient[fd] # Null => link[fdClient[fd]] = "open"
    /\ \A fd, gd \in Fds :
          fdClient[fd] = fdClient[gd] /\ fdClient[fd] # Null => fd = gd
    /\ \A i \in 1..Len(backlog) : link[backlog[i]] = "backlog"
    /\ \A i, j \in 1..Len(backlog) : backlog[i] = backlog[j] => i = j

InboxInv ==
    \A c \in Clients :
        /\ Len(inbox[c]) <= 1 /\ Len(inbox[c]) <= sent[c]
        /\ inbox[c] # <<>> => (gone[c] <=> Head(inbox[c]) = "truncated")

-----------------------------------------------------------------------------
(* A packet on its way names a live player, whose descriptor is still that *)
(* of the client the packet came from.                                     *)

Valid(job) ==
    /\ job.client \in Clients /\ job.fd \in Fds
    /\ fdClient[job.fd] = job.client
    /\ job.player \in Players
    /\ player[job.player].mem = "live" /\ player[job.player].fd = job.fd

\* The receiver may disconnect a descriptor that has no player.
ThreadHas(t) ==
    IF thread[t].pc \in {"idle", "event", "lookup"} THEN thread[t].job = NoJob
    ELSE /\ thread[t].job.client \in Clients /\ thread[t].job.fd \in Fds
         /\ fdClient[thread[t].job.fd] = thread[t].job.client
         /\ IF thread[t].job.player = Null
            THEN t = Receiver /\ thread[t].pc # "unlink"
            ELSE IF thread[t].pc = "close"
                 THEN player[thread[t].job.player].mem = "deleted"
                 ELSE Valid(thread[t].job)

JobInv ==
    /\ \A i \in 1..Len(incomingPackets) : Valid(incomingPackets[i])
    /\ \A i \in 1..Len(outgoingPackets) : Valid(outgoingPackets[i])
    /\ \A t \in Threads : ThreadHas(t)

-----------------------------------------------------------------------------
(* Where a client's packets are: not read yet (or it has hung up), waiting *)
(* for a worker, in a worker's hands, and the replies to it.               *)

Has(queue, c) == \E i \in 1..Len(queue) : queue[i].client = c

Waits(c) == inbox[c] # <<>> \/ gone[c]
Requested(c) == Has(incomingPackets, c)
Served(c) == \E w \in Workers : thread[w].job.client = c
Answered(c) == Has(outgoingPackets, c) \/ thread[Sender].job.client = c

\* A worker that has queued no reply yet, and will queue none after it has
\* changed the player in a way that others see.
Unanswered(w) ==
    \/ thread[w].pc \in {"route"} \cup Disconnecting
    \/ /\ thread[w].pc = "run"
       /\ \/ thread[w].result # "ok"
          \/ thread[w].todo # <<>> /\ Head(thread[w].todo).do # "queue"

OneAtATime ==
    /\ \A c \in Clients :
          /\ Waits(c) \/ sent[c] = 0 =>
                 ~Requested(c) /\ ~Served(c) /\ ~Answered(c)
          /\ Requested(c) => ~Served(c) /\ ~Answered(c)
    /\ \A i, j \in 1..Len(incomingPackets) :
          incomingPackets[i].client = incomingPackets[j].client => i = j
    /\ \A v, w \in Workers :
          thread[v].job.client = thread[w].job.client =>
              v = w \/ thread[v].job.client = Null
    /\ thread[Receiver].job.client # Null => Waits(thread[Receiver].job.client)
    /\ thread[Receiver].pc \in Disconnecting => gone[thread[Receiver].job.client]
    /\ \A w \in Workers : Unanswered(w) => ~Answered(thread[w].job.client)
    /\ thread[Sender].pc \in Disconnecting =>
           LET c == thread[Sender].job.client
           IN  ~Has(outgoingPackets, c) /\ ~Served(c)

-----------------------------------------------------------------------------
(* The lists                                                               *)

\* w moves its player: it has erased it, and is about to insert it.
Moving(w) ==
    LET p == thread[w].job.player
    IN  /\ thread[w].pc = "run"
        /\ thread[w].todo = <<[do |-> "insert"]>>
        /\ player[p].state = "Login"
        /\ tempPlayerLst[player[p].fd] = Null
        /\ playerLst[player[p].fd] = Null

AboutToErase(w) ==
    /\ thread[w].pc = "run"
    /\ thread[w].todo # <<>> /\ Head(thread[w].todo).do = "erase"

ListInv ==
    /\ \A fd \in Fds : tempPlayerLst[fd] # Null =>
          LET p == tempPlayerLst[fd]
          IN  /\ player[p].mem = "live" /\ player[p].fd = fd
              /\ player[p].state \in {"Handshake", "Status", "Login", "None"}
              /\ player[p].state = "Login" =>
                     \E w \in Workers : /\ thread[w].job.player = p
                                        /\ AboutToErase(w)
    /\ \A fd \in Fds : playerLst[fd] # Null =>
          LET p == playerLst[fd]
          IN  /\ player[p].mem = "live" /\ player[p].fd = fd
              /\ player[p].state \in {"Login", "Configuration", "Play", "None"}
    /\ \A fd \in Fds : tempPlayerLst[fd] = Null \/ playerLst[fd] = Null
    /\ \A p \in Players : player[p].mem = "live" =>
          /\ player[p].fd \in Fds
          /\ \/ tempPlayerLst[player[p].fd] = p
             \/ playerLst[player[p].fd] = p
             \/ tempPlayerLock # Null /\ thread[tempPlayerLock].job.player = p
    /\ tempPlayerLock # Null => Moving(tempPlayerLock)

-----------------------------------------------------------------------------
(* What is left of a handler: replies to queue; a change of state and then *)
(* replies; or the promotion of a player that logs in.                     *)

OnlyQueues(steps) == \A i \in 1..Len(steps) : steps[i].do = "queue"

Moves == {<<"Handshake", "Status">>, <<"Status", "Status">>,
          <<"Login", "Configuration">>, <<"Configuration", "Play">>,
          <<"Handshake", "None">>, <<"Status", "None">>, <<"Login", "None">>}

Replying(state, todo, result) ==
    /\ OnlyQueues(todo)
    /\ todo # <<>> => result = "ok"
    /\ state = "None" => todo = <<>> /\ result \in {"disconnect", "pong"}

ChangingState(state, todo, result) ==
    /\ todo # <<>> /\ Head(todo).do = "setState"
    /\ <<state, Head(todo).state>> \in Moves
    /\ Replying(Head(todo).state, Tail(todo), result)

Promoting(state, todo, result) ==
    /\ result = "ok"
    /\ \/ state = "Handshake" /\ todo = SetState("Login") \o Promote
       \/ state = "Login" /\ todo = Promote

PlanInv ==
    \A w \in Workers : thread[w].pc = "run" =>
        LET p == thread[w].job.player
            state == player[p].state
        IN  \/ Replying(state, thread[w].todo, thread[w].result)
            \/ ChangingState(state, thread[w].todo, thread[w].result)
            \/ /\ Promoting(state, thread[w].todo, thread[w].result)
               /\ tempPlayerLst[player[p].fd] = p
            \/ /\ thread[w].todo = <<[do |-> "insert"]>>
               /\ thread[w].result = "ok"
               /\ tempPlayerLock = w

-----------------------------------------------------------------------------
(* A player in state None has a holder that will disconnect it, and that   *)
(* is the only one.                                                        *)

Doomed(p) == player[p].mem = "live" /\ player[p].state = "None"

DoomInv ==
    /\ \A p \in Players : Doomed(p) =>
          \/ \E w \in Workers : thread[w].job.player = p
          \/ thread[Sender].job.player = p
          \/ \E i \in 1..Len(outgoingPackets) : outgoingPackets[i].player = p
    /\ \A i \in 1..Len(outgoingPackets) : Doomed(outgoingPackets[i].player) =>
          LET c == outgoingPackets[i].client
          IN  /\ ~Served(c) /\ thread[Sender].job.client # c
              /\ \A j \in 1..Len(outgoingPackets) :
                    outgoingPackets[j].client = c => j = i
    /\ thread[Sender].pc \in {"send", "check"} =>
          (Doomed(thread[Sender].job.player) =>
              LET c == thread[Sender].job.client
              IN  ~Served(c) /\ ~Has(outgoingPackets, c))

-----------------------------------------------------------------------------
(* The events the receiver has not handled are about connections with      *)
(* something to read, which nobody else will close.                        *)

EventInv ==
    /\ \A i, j \in 1..Len(events) : events[i].fd = events[j].fd => i = j
    /\ \A i \in 1..Len(events) :
          LET c == fdClient[events[i].fd]
          IN  /\ events[i].fd \in Fds => c # Null /\ Waits(c)
              /\ events[i].hup => events[i].fd \in Fds /\ gone[c]
    /\ thread[Receiver].pc \in {"read"} \cup Disconnecting =>
          thread[Receiver].job.fd = Head(events).fd

-----------------------------------------------------------------------------
(* A descriptor without a session: nobody logged in on it.                 *)

Blank(fd) ==
    /\ playerLst[fd] = Null
    /\ \/ tempPlayerLst[fd] = Null
       \/ player[tempPlayerLst[fd]].state = "Handshake"

BlankInv ==
    /\ \A fd \in Fds :
          LET c == fdClient[fd]
          IN  c = Null \/ Len(inbox[c]) = sent[c] => Blank(fd)
    /\ \A t \in Threads : thread[t].pc = "close" => Blank(thread[t].job.fd)
    /\ thread[Receiver].pc = "lookup" => playerLst[Head(events).fd] = Null
    /\ LET fd == thread[Receiver].job.fd
       IN  thread[Receiver].job.player = Null =>
              /\ thread[Receiver].pc = "remove" => Blank(fd)
              /\ thread[Receiver].pc = "read" =>
                     playerLst[fd] = Null /\ tempPlayerLst[fd] = Null

-----------------------------------------------------------------------------
(* A client in configuration sends no packet the server does not know.     *)

UnknownInv ==
    /\ \A fd \in Fds :
          LET c == fdClient[fd]
              p == playerLst[fd]
          IN  c # Null /\ p # Null =>
                 (inbox[c] = <<"unknown">> => player[p].state # "Configuration")
    /\ \A i \in 1..Len(incomingPackets) :
          incomingPackets[i].content = "unknown" =>
              player[incomingPackets[i].player].state # "Configuration"
    /\ \A w \in Workers :
          thread[w].pc = "route" /\ thread[w].job.content = "unknown" =>
              player[thread[w].job.player].state # "Configuration"

(* Players are made in the order of their numbers.                         *)
BirthInv ==
    \E n \in 0..MaxPlayer : {p \in Players : player[p].mem # "unborn"} = 1..n

(* Every request of a client that waits has one holder, and whoever        *)
(* disconnects the client holds the last that is left of it; the lists,    *)
(* events, handlers and descriptors agree with that, so that no player is  *)
(* used after its deletion (networkQueuer.cpp:52-103,                      *)
(* networkWorker.cpp:16-40, server.cpp:120-197).                           *)
IInv == /\ TypeInv /\ SocketInv /\ InboxInv /\ JobInv /\ OneAtATime
        /\ ListInv /\ PlanInv /\ DoomInv /\ EventInv /\ BlankInv
        /\ UnknownInv /\ BirthInv
        /\ NoFault
=============================================================================
