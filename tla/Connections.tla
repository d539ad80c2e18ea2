----------------------------- MODULE Connections -----------------------------
(***************************************************************************)
(* The life of connections and of their Player objects.                    *)
(*                                                                         *)
(* The receiver thread accepts connections and reads one packet for every  *)
(* readable socket; the first packet of a socket creates a temporary       *)
(* player.  Workers route a packet by the state of its player, which may   *)
(* change that state, move the player to the main list, queue replies, or  *)
(* disconnect it.  The sender writes replies and disconnects a player left *)
(* in state None.  All three find, change and delete the same Player       *)
(* objects through raw pointers.                                           *)
(*                                                                         *)
(* The lifetime of Packet objects and the shutdown are in PacketPipeline.  *)
(* Sockets are what the kernel makes of them: an accepted connection gets  *)
(* the lowest free descriptor, so that a closed one is soon used again.    *)
(***************************************************************************)
EXTENDS Naturals, Sequences, FiniteSets, FiniteSetsExt, SequencesExt

CONSTANTS Clients,          \* the clients, of one connection each
          Workers, Receiver, Sender,
          Null,             \* the null pointer, also "no client"
          MaxFd,            \* descriptors the process may have for clients
          MaxPlayer,        \* Player objects that may ever be created
          MaxSent,          \* packets a client may send
          Sendable,         \* which packets the clients send
          Liberties         \* what clients and memory may do besides, below

ASSUME ThreadsAssumption ==
    Receiver # Sender /\ Receiver \notin Workers /\ Sender \notin Workers
ASSUME NullAssumption == Null \notin Clients \cup Workers \cup Nat
ASSUME BoundsAssumption ==
    MaxFd \in Nat /\ MaxPlayer \in Nat /\ MaxSent \in Nat

(* Without liberties a client waits, before it sends or hangs up, until    *)
(* everything of its own has gone through the server, and sends no unknown *)
(* packet in state Configuration; and a list looked up without its lock    *)
(* shows the contents of before or after a concurrent change.              *)
ASSUME LibertiesAssumption ==
    Liberties \subseteq {"earlyHangUp",      \* hangs up without waiting
                         "unknownInConfiguration",
                         "tornLookup"}       \* find() misses during a change

Handshakes == {"toStatus", "toLogin", "toOther"}

(* A packet is its id and what its body can make of the handlers: the      *)
(* handshakes (id 0) by their next state, "id0" and "id7" with the body    *)
(* the state of the player asks for, "short" of id 0 without a body, "id2" *)
(* with a body over 32767 bytes as "oversized", "unknown" with an id that  *)
(* no state knows, and "truncated" when the client hangs up in the middle. *)
Messages == Handshakes \cup {"id0", "short", "id1", "id2", "id3", "id7",
                             "oversized", "unknown", "truncated"}

ASSUME SendableAssumption == Sendable \subseteq Messages

Replies == {"status", "pong", "loginSuccess", "knownPacks", "registryData",
            "updateTags", "finishConfiguration", "play", "changeDifficulty",
            "playerAbilities", "setHeldItem", "positionAndLook", "gameEvent",
            "disconnect"}

PlayerStates == {"None", "Handshake", "Status", "Login", "Configuration",
                 "Play"}

Threads == Workers \cup {Receiver, Sender}
ListenFd == 0
Fds == 1..MaxFd
Players == 1..MaxPlayer

VARIABLES
    link,                   \* each client's connection, as the server has it
    gone,                   \* the clients that have hung up
    sent,                   \* how many packets each client has sent
    inbox,                  \* packets in each connection's receive buffer
    backlog,                \* connections not accepted yet, oldest first
    edge,                   \* the listening socket has an event to report
    fdClient,               \* whose connection each descriptor is
    player,                 \* the Player objects
    tempPlayerLst,          \* _tempPlayerLst: from descriptors to players
    playerLst,              \* _playerLst
    tempPlayerLock,         \* who holds _tempPlayerLock in the midst of a step
    incomingPackets,        \* _incomingPackets
    outgoingPackets,        \* _outgoingPackets
    events,                 \* the receiver's events not yet handled
    thread,                 \* where each thread is, and with what
    received,               \* the replies each client has been sent
    fault                   \* undefined behaviour met, after which all stops

socketVars == <<link, inbox, backlog, edge, fdClient>>
clientVars == <<gone, sent>>
listVars == <<tempPlayerLst, playerLst, tempPlayerLock>>
queueVars == <<incomingPackets, outgoingPackets>>
vars == <<socketVars, clientVars, player, listVars, queueVars, events, thread,
          received, fault>>

(* A packet on its way: its player and descriptor are fields of Packet,    *)
(* its client is a history variable.                                       *)
Jobs == [player : Players \cup {Null}, fd : Fds \cup {ListenFd},
         client : Clients \cup {Null}, content : Messages \cup Replies]

NoJob == [player |-> Null, fd |-> ListenFd, client |-> Null,
          content |-> "short"]

Idle == [pc |-> "idle", job |-> NoJob, todo |-> <<>>, result |-> "ok"]

TypeOK ==
    /\ link \in [Clients -> {"new", "backlog", "open", "closed"}]
    /\ gone \in [Clients -> BOOLEAN]
    /\ sent \in [Clients -> 0..MaxSent]
    /\ inbox \in [Clients -> Seq(Messages)]
    /\ backlog \in Seq(Clients)
    /\ edge \in BOOLEAN
    /\ fdClient \in [Fds -> Clients \cup {Null}]
    /\ player \in [Players -> [mem : {"unborn", "live", "deleted"},
                               state : PlayerStates,
                               fd : Fds \cup {ListenFd}]]
    /\ tempPlayerLst \in [Fds -> Players \cup {Null}]
    /\ playerLst \in [Fds -> Players \cup {Null}]
    /\ tempPlayerLock \in Workers \cup {Null}
    /\ incomingPackets \in Seq(Jobs)
    /\ outgoingPackets \in Seq(Jobs)
    /\ events \in Seq([fd : Fds \cup {ListenFd}, hup : BOOLEAN])
    /\ \A t \in Threads :
          /\ thread[t].pc \in {"idle", "event", "lookup", "read", "route",
                               "run", "send", "check", "remove", "unlink",
                               "close"}
          /\ thread[t].job \in Jobs
          /\ thread[t].result \in Replies \cup {"ok", "disconnect"}
    /\ received \in [Clients -> SUBSET Replies]
    /\ fault \in {"none", "useAfterFree", "doubleDelete"}

Init ==
    /\ link = [c \in Clients |-> "new"]
    /\ gone = [c \in Clients |-> FALSE]
    /\ sent = [c \in Clients |-> 0]
    /\ inbox = [c \in Clients |-> <<>>]
    /\ backlog = <<>>
    /\ edge = FALSE
    /\ fdClient = [fd \in Fds |-> Null]
    /\ player = [p \in Players |-> [mem |-> "unborn", state |-> "None",
                                    fd |-> ListenFd]]
    /\ tempPlayerLst = [fd \in Fds |-> Null]
    /\ playerLst = [fd \in Fds |-> Null]
    /\ tempPlayerLock = Null
    /\ incomingPackets = <<>>
    /\ outgoingPackets = <<>>
    /\ events = <<>>
    /\ thread = [t \in Threads |-> Idle]
    /\ received = [c \in Clients |-> {}]
    /\ fault = "none"

Live(p) == p # Null /\ player[p].mem = "live"

\* Only the position of a thread changes, and maybe fault.
StaysLocal == UNCHANGED <<socketVars, clientVars, player, listVars, queueVars,
                          events, received>>

\* Only a queue and the position of a thread change.
QueueStep == UNCHANGED <<socketVars, clientVars, player, listVars, events,
                         received, fault>>

\* A thread reads or writes p through its pointer.
Uses(p) == fault' = IF Live(p) THEN fault ELSE "useAfterFree"

Becomes(t, pc) == thread' = [thread EXCEPT ![t].pc = pc]

-----------------------------------------------------------------------------
(* The clients                                                             *)

\* Nothing of c is in a buffer, in a queue or in the hands of a thread.
Quiet(c) ==
    /\ inbox[c] = <<>>
    /\ \A job \in ToSet(incomingPackets) \cup ToSet(outgoingPackets)
                  \cup {thread[t].job : t \in Threads} : job.client # c

Connected(c) == link[c] \in {"backlog", "open"} /\ ~gone[c]

Connect(c) ==
    /\ link[c] = "new"
    /\ link' = [link EXCEPT ![c] = "backlog"]
    /\ backlog' = Append(backlog, c)
    /\ edge' = TRUE
    /\ UNCHANGED <<inbox, fdClient, clientVars, player, listVars, queueVars,
                   events, thread, received, fault>>

InConfiguration(c) ==
    \E fd \in Fds : /\ fdClient[fd] = c
                    /\ playerLst[fd] # Null
                    /\ player[playerLst[fd]].state = "Configuration"

SendMessage(c, m) ==
    /\ Connected(c)
    /\ sent[c] < MaxSent
    /\ Quiet(c)
    /\ m = "unknown" /\ InConfiguration(c) =>
           "unknownInConfiguration" \in Liberties
    /\ inbox' = [inbox EXCEPT ![c] = Append(@, m)]
    /\ sent' = [sent EXCEPT ![c] = @ + 1]
    /\ gone' = [gone EXCEPT ![c] = (m = "truncated")]
    /\ UNCHANGED <<link, backlog, edge, fdClient, player, listVars, queueVars,
                   events, thread, received, fault>>

HangUp(c) ==
    /\ Connected(c)
    /\ Quiet(c) \/ "earlyHangUp" \in Liberties
    /\ gone' = [gone EXCEPT ![c] = TRUE]
    /\ UNCHANGED <<socketVars, sent, player, listVars, queueVars, events,
                   thread, received, fault>>

ClientStep(c) ==
    Connect(c) \/ HangUp(c) \/ \E m \in Sendable : SendMessage(c, m)

-----------------------------------------------------------------------------
(* Disconnecting, by any thread: removePlayerFromAnyList (when there is a  *)
(* player), epoll_ctl DEL and close.                                       *)

\* getSocketFd, before a lock is taken.
RemoveBegins(t) ==
    /\ thread[t].pc = "remove"
    /\ \/ thread[t].job.player = Null /\ Becomes(t, "close") /\ UNCHANGED fault
       \/ /\ thread[t].job.player # Null
          /\ Uses(thread[t].job.player)
          /\ Becomes(t, "unlink")
    /\ StaysLocal

\* Mutation: a player of the main list is looked for in the temporary one.
RemoveFromTempOnly(t) ==
    LET p == thread[t].job.player
        fd == player[p].fd
    IN  /\ thread[t].pc = "unlink"
        /\ tempPlayerLock = Null
        /\ tempPlayerLst' = [tempPlayerLst EXCEPT ![fd] = Null]
        /\ player' = [player EXCEPT ![p].mem = "deleted"]
        /\ Becomes(t, "close")
        /\ UNCHANGED <<socketVars, clientVars, playerLst, tempPlayerLock,
                       queueVars, events, received, fault>>

\* Mutation: the player is deleted but its entry is not erased.
RemoveKeepsEntry(t) ==
    LET p == thread[t].job.player
    IN  /\ thread[t].pc = "unlink"
        /\ tempPlayerLock = Null
        /\ player' = [player EXCEPT ![p].mem = "deleted"]
        /\ fault' = IF Live(p) THEN fault ELSE "doubleDelete"
        /\ Becomes(t, "close")
        /\ UNCHANGED <<socketVars, clientVars, listVars, queueVars, events,
                       received>>

\* The entry of the socket in the temporary list, else the one in the main
\* list, is erased, whoever it holds; the player is deleted in any case.
RemoveEnds(t) ==
    LET p == thread[t].job.player
        fd == player[p].fd
    IN  /\ thread[t].pc = "unlink"
        /\ tempPlayerLock = Null
        /\ IF tempPlayerLst[fd] # Null
           THEN /\ tempPlayerLst' = [tempPlayerLst EXCEPT ![fd] = Null]
                /\ UNCHANGED playerLst
           ELSE /\ playerLst' = [playerLst EXCEPT ![fd] = Null]
                /\ UNCHANGED tempPlayerLst
        /\ player' = [player EXCEPT ![p].mem = "deleted"]
        /\ fault' = IF Live(p) THEN fault ELSE "doubleDelete"
        /\ Becomes(t, "close")
        /\ UNCHANGED <<socketVars, clientVars, tempPlayerLock, queueVars,
                       events, received>>

\* A descriptor that is not open any more is left alone (EBADF).
Close(fd) ==
    LET c == fdClient[fd]
    IN  IF c = Null
        THEN UNCHANGED <<link, inbox, fdClient>>
        ELSE /\ link' = [link EXCEPT ![c] = "closed"]
             /\ inbox' = [inbox EXCEPT ![c] = <<>>]
             /\ fdClient' = [fdClient EXCEPT ![fd] = Null]

\* The receiver goes on to the next event of its batch.
AfterEvent(t) ==
    IF t = Receiver
    THEN /\ events' = Tail(events)
         /\ thread' = [thread EXCEPT ![t] =
                          [Idle EXCEPT !.pc = IF Len(events) = 1
                                              THEN "idle" ELSE "event"]]
    ELSE /\ thread' = [thread EXCEPT ![t] = Idle]
         /\ UNCHANGED events

CloseSocket(t) ==
    /\ thread[t].pc = "close"
    /\ Close(thread[t].job.fd)
    /\ AfterEvent(t)
    /\ UNCHANGED <<backlog, edge, clientVars, player, listVars, queueVars,
                   received, fault>>

Disconnect(t) == RemoveBegins(t) \/ RemoveEnds(t) \/ CloseSocket(t)

-----------------------------------------------------------------------------
(* receiverThreadLoop                                                      *)

ReadyFds ==
    {fd \in Fds : LET c == fdClient[fd]
                  IN  c # Null /\ (inbox[c] # <<>> \/ gone[c])}

\* All that is ready (256 events are enough), in any order.  A client that
\* is gone has closed (end of file) or reset its connection (EPOLLHUP).  The
\* listening socket is edge-triggered: it is reported once.
EpollWait ==
    /\ thread[Receiver].pc = "idle"
    /\ ReadyFds # {} \/ edge
    /\ \E order \in SetToSeqs(ReadyFds \cup IF edge THEN {ListenFd} ELSE {}),
          hups \in SUBSET {fd \in ReadyFds : gone[fdClient[fd]]} :
           events' = [i \in DOMAIN order |-> [fd |-> order[i],
                                              hup |-> order[i] \in hups]]
    /\ edge' = FALSE
    /\ Becomes(Receiver, "event")
    /\ UNCHANGED <<link, inbox, backlog, fdClient, clientVars, player,
                   listVars, queueVars, received, fault>>

FreeFds == {fd \in Fds : fdClient[fd] = Null}

AcceptEvent ==
    /\ thread[Receiver].pc = "event"
    /\ Head(events).fd = ListenFd
    /\ AfterEvent(Receiver)
    /\ UNCHANGED <<edge, clientVars, player, listVars, queueVars, received,
                   fault>>

\* One connection is accepted for an event, however many are waiting.
Accept ==
    /\ AcceptEvent
    /\ backlog # <<>> /\ FreeFds # {}
    /\ link' = [link EXCEPT ![Head(backlog)] = "open"]
    /\ fdClient' = [fdClient EXCEPT ![Min(FreeFds)] = Head(backlog)]
    /\ backlog' = Tail(backlog)
    /\ UNCHANGED inbox

\* accept fails: the backlog is empty or the process out of descriptors.
AcceptFails ==
    /\ AcceptEvent
    /\ backlog = <<>> \/ FreeFds = {}
    /\ UNCHANGED <<link, inbox, backlog, fdClient>>

\* epoll_ctl fails, and the connection is closed at once.
AcceptedButNotWatched ==
    /\ AcceptEvent
    /\ backlog # <<>> /\ FreeFds # {}
    /\ link' = [link EXCEPT ![Head(backlog)] = "closed"]
    /\ inbox' = [inbox EXCEPT ![Head(backlog)] = <<>>]
    /\ backlog' = Tail(backlog)
    /\ UNCHANGED fdClient

\* A thread is inside the erase or the insertion of a list.
Changing == \E t \in Threads :
    \/ thread[t].pc = "unlink"
    \/ thread[t].pc = "run" /\ thread[t].todo # <<>>
       /\ Head(thread[t].todo).do \in {"erase", "insert"}

\* What find() without the lock may return.
Found(list, fd) ==
    {list[fd]} \cup IF "tornLookup" \in Liberties /\ Changing
                    THEN {Null} ELSE {}

\* The player is known, or known to be missing: hang-ups come first.
LookedUp(fd, p) ==
    thread' = [thread EXCEPT
                 ![Receiver].pc = IF Head(events).hup THEN "remove" ELSE "read",
                 ![Receiver].job = [NoJob EXCEPT !.player = p, !.fd = fd,
                                                 !.client = fdClient[fd]]]

LookupMain ==
    /\ thread[Receiver].pc = "event"
    /\ Head(events).fd # ListenFd
    /\ \E p \in Found(playerLst, Head(events).fd) :
           IF p = Null THEN Becomes(Receiver, "lookup")
                       ELSE LookedUp(Head(events).fd, p)
    /\ StaysLocal /\ UNCHANGED fault

\* Mutation: only the main list is searched.
LookupSkipsTemp ==
    /\ thread[Receiver].pc = "lookup"
    /\ LookedUp(Head(events).fd, Null)
    /\ StaysLocal /\ UNCHANGED fault

LookupTemp ==
    /\ thread[Receiver].pc = "lookup"
    /\ \E p \in Found(tempPlayerLst, Head(events).fd) :
           LookedUp(Head(events).fd, p)
    /\ StaysLocal /\ UNCHANGED fault

NextPlayer == Cardinality({p \in Players : player[p].mem # "unborn"}) + 1

\* The player a packet is read for; without one, addTempPlayer makes one.
PlayerOf(fd, p) ==
    LET known == thread[Receiver].job.player
    IN  IF known # Null
        THEN /\ p = known
             /\ Uses(p)
             /\ UNCHANGED <<player, tempPlayerLst>>
        ELSE /\ tempPlayerLock = Null
             /\ UNCHANGED fault
             /\ p = NextPlayer
             /\ player' = [player EXCEPT ![p] = [mem |-> "live",
                               state |-> "Handshake", fd |-> fd]]
             /\ tempPlayerLst' = [tempPlayerLst EXCEPT ![fd] = p]

\* What the packet constructor finds in the socket first.
Reads(fd, m) ==
    /\ thread[Receiver].pc = "read"
    /\ fd = thread[Receiver].job.fd
    /\ fdClient[fd] # Null
    /\ inbox[fdClient[fd]] # <<>>
    /\ m = Head(inbox[fdClient[fd]])
    /\ inbox' = [inbox EXCEPT ![fdClient[fd]] = Tail(@)]

PacketRead ==
    \E fd \in Fds, p \in Players, m \in Messages \ {"truncated"} :
        /\ Reads(fd, m)
        /\ PlayerOf(fd, p)
        /\ incomingPackets' =
               Append(incomingPackets, [player |-> p, fd |-> fd,
                          client |-> fdClient[fd], content |-> m])
        /\ AfterEvent(Receiver)
        /\ UNCHANGED <<link, backlog, edge, fdClient, clientVars, playerLst,
                       tempPlayerLock, outgoingPackets, received>>

\* The read of the body fails.  The catch clause does not know the player
\* that was made by then: p is a null pointer there, as before the lookup.
BodyReadFails ==
    \E fd \in Fds, p \in Players :
        /\ Reads(fd, "truncated")
        /\ PlayerOf(fd, p)
        /\ Becomes(Receiver, "remove")
        /\ UNCHANGED <<link, backlog, edge, fdClient, clientVars, playerLst,
                       tempPlayerLock, queueVars, events, received>>

\* Mutation: the catch clause only logs the failure.
ReadFailureIsLogged ==
    /\ thread[Receiver].pc = "read"
    /\ LET c == fdClient[thread[Receiver].job.fd] IN c # Null => gone[c]
    /\ AfterEvent(Receiver)
    /\ UNCHANGED <<socketVars, clientVars, player, listVars, queueVars,
                   received, fault>>

\* Mutation: the catch clause closes the socket but keeps the player.
ReadFailureKeepsPlayer ==
    /\ thread[Receiver].pc = "read"
    /\ LET c == fdClient[thread[Receiver].job.fd] IN c # Null => gone[c]
    /\ Becomes(Receiver, "close")
    /\ StaysLocal /\ UNCHANGED fault

\* There is no packet to read, or a reset connection has lost it.  (The read
\* of an open connection without data blocks.)
HeaderReadFails ==
    /\ thread[Receiver].pc = "read"
    /\ LET c == fdClient[thread[Receiver].job.fd] IN c # Null => gone[c]
    /\ IF thread[Receiver].job.player = Null THEN UNCHANGED fault
       ELSE Uses(thread[Receiver].job.player)
    /\ Becomes(Receiver, "remove")
    /\ StaysLocal

ReceiverStep ==
    \/ EpollWait \/ Accept \/ AcceptFails \/ AcceptedButNotWatched
    \/ LookupMain \/ LookupTemp
    \/ PacketRead \/ BodyReadFails \/ HeaderReadFails
    \/ Disconnect(Receiver)

-----------------------------------------------------------------------------
(* packetRouter: by the player's state and the packet, the steps of the    *)
(* handler that others can see, and what it returns ("ok", "disconnect",   *)
(* or, for PACKET_SEND, the reply the packet has become).  A handler that  *)
(* throws has the effect of "ok": the packet is deleted.                   *)

SetState(s) == <<[do |-> "setState", state |-> s]>>
Promote == <<[do |-> "erase"], [do |-> "insert"]>>
Queue(replies) ==
    [i \in DOMAIN replies |-> [do |-> "queue", reply |-> replies[i]]]

\* What a handler does and returns.
Outcome(steps, result) == [steps |-> steps, result |-> result]
Nothing == Outcome(<<>>, "ok")

handleHandshakePacket(nextState) ==
    CASE nextState = "toStatus" -> Outcome(SetState("Status"), "ok")
      [] nextState = "toLogin"  -> Outcome(SetState("Login") \o Promote, "ok")
      [] OTHER                  -> Outcome(SetState("None"), "disconnect")

\* The connection stays open for the ping.
handleStatusPacket == Outcome(SetState("Status"), "status")

\* Mutation: a worker that queues the pong also disconnects the client.
PongAndDisconnect ==
    Outcome(SetState("None") \o Queue(<<"pong">>), "disconnect")

\* State None tells the sender to disconnect.
handlePingPacket == Outcome(SetState("None"), "pong")

\* Mutation: setReturnPacket(PACKET_DISCONNECT) is missing.
ForgetDisconnect == Outcome(SetState("None"), "ok")

unknownPacket == Outcome(SetState("None"), "disconnect")

handleLoginStartPacket == Outcome(<<>>, "loginSuccess")

handleLoginAcknowledged == SetState("Configuration")

handleAcknowledgeFinishConfiguration == SetState("Play")

\* Several packets of registry data are queued, one for each registry.
sendCompleteConfigurationSequence ==
    Queue(<<"registryData", "updateTags", "finishConfiguration">>)

sendDisconnectPacket == Queue(<<"disconnect">>)

Row(state, on, outcome) == [state |-> state, on |-> on, outcome |-> outcome]

\* A handshake of another packet's body is misread or too short.
HandshakeRows ==
    {Row("Handshake", {"toStatus"}, handleHandshakePacket("toStatus")),
     Row("Handshake", {"toLogin"}, handleHandshakePacket("toLogin")),
     Row("Handshake", {"toOther", "id0"}, handleHandshakePacket("toOther")),
     Row("Handshake", {"id0", "short"}, Nothing),       \* a read throws
     Row("Handshake", {"id1", "id2", "id3", "id7", "oversized", "unknown"},
         unknownPacket)}

StatusRows ==
    {Row("Status", Handshakes \cup {"id0", "short"}, handleStatusPacket),
     Row("Status", {"id1"}, handlePingPacket),
     Row("Status", {"id2", "id3", "id7", "oversized", "unknown"},
         unknownPacket)}

\* A handshake may pass for a login start with a short name.
LoginRows ==
    {Row("Login", Handshakes \cup {"id0"}, handleLoginStartPacket),
     Row("Login", Handshakes \cup {"short", "id2"}, Nothing),
     Row("Login", {"id3"}, Outcome(handleLoginAcknowledged
                                   \o Queue(<<"knownPacks">>), "ok")),
     Row("Login", {"oversized"}, Outcome(<<>>, "disconnect")),
     Row("Login", {"id1", "id7", "unknown"}, unknownPacket)}

ConfigurationRows ==
    {Row("Configuration", Handshakes \cup {"id0", "short", "id1", "id2",
                                           "oversized"}, Nothing),
     Row("Configuration", {"id3"},
         Outcome(handleAcknowledgeFinishConfiguration
                 \o Queue(<<"play", "changeDifficulty", "playerAbilities",
                            "setHeldItem", "positionAndLook">>), "ok")),
     Row("Configuration", {"id7"},
         Outcome(sendCompleteConfigurationSequence, "ok")),
     Row("Configuration", {"unknown"},
         Outcome(sendDisconnectPacket \o SetState("None"), "disconnect"))}

PlayRows ==
    {Row("Play", Handshakes \cup {"id0"},
         Outcome(Queue(<<"gameEvent">>), "ok")),
     Row("Play", {"short", "id1", "id2", "id3", "id7", "oversized",
                  "unknown"}, Nothing)}

Table == HandshakeRows \cup StatusRows \cup LoginRows
         \cup ConfigurationRows \cup PlayRows
         \cup {Row("None", Messages, Outcome(<<>>, "disconnect"))}

-----------------------------------------------------------------------------
(* workerThreadLoop                                                        *)

WorkerPops(w) ==
    /\ thread[w].pc = "idle"
    /\ incomingPackets # <<>>
    /\ incomingPackets' = Tail(incomingPackets)
    /\ thread' = [thread EXCEPT ![w] = [Idle EXCEPT
                     !.pc = "route", !.job = Head(incomingPackets)]]
    /\ QueueStep /\ UNCHANGED outgoingPackets

Route(w) ==
    /\ thread[w].pc = "route"
    /\ Uses(thread[w].job.player)
    /\ \E row \in Table :
        /\ row.state = player[thread[w].job.player].state
        /\ thread[w].job.content \in row.on
        /\ thread' = [thread EXCEPT ![w].pc = "run",
                                    ![w].todo = row.outcome.steps,
                                    ![w].result = row.outcome.result]
    /\ StaysLocal

\* The next step of the handler w runs.
Does(w, what) ==
    /\ thread[w].pc = "run"
    /\ thread[w].todo # <<>>
    /\ Head(thread[w].todo).do = what
    /\ thread' = [thread EXCEPT ![w].todo = Tail(@)]
    /\ UNCHANGED <<socketVars, clientVars, incomingPackets, events, received>>

SetPlayerState(w) ==
    LET p == thread[w].job.player
    IN  /\ Does(w, "setState")
        /\ Uses(p)
        /\ player' = [player EXCEPT ![p].state = Head(thread[w].todo).state]
        /\ UNCHANGED <<listVars, outgoingPackets>>

\* Mutation: the lock is held for the erase only.
EraseTempUnlocked(w) ==
    LET p == thread[w].job.player
    IN  /\ Does(w, "erase")
        /\ Uses(p)
        /\ tempPlayerLock = Null
        /\ tempPlayerLst' = [tempPlayerLst EXCEPT ![player[p].fd] = Null]
        /\ UNCHANGED <<player, playerLst, tempPlayerLock, outgoingPackets>>

\* promoteTempPlayer holds _tempPlayerLock from the erase to its end.
EraseTemp(w) ==
    LET p == thread[w].job.player
    IN  /\ Does(w, "erase")
        /\ Uses(p)
        /\ tempPlayerLock = Null
        /\ tempPlayerLock' = w
        /\ tempPlayerLst' = [tempPlayerLst EXCEPT ![player[p].fd] = Null]
        /\ UNCHANGED <<player, playerLst, outgoingPackets>>

\* Mutation: the player is put back into the temporary list.
InsertTemp(w) ==
    LET p == thread[w].job.player
    IN  /\ Does(w, "insert")
        /\ tempPlayerLst' = [tempPlayerLst EXCEPT ![player[p].fd] = p]
        /\ tempPlayerLock' = Null
        /\ UNCHANGED <<player, playerLst, outgoingPackets, fault>>

InsertMain(w) ==
    LET p == thread[w].job.player
    IN  /\ Does(w, "insert")
        /\ playerLst' = [playerLst EXCEPT ![player[p].fd] = p]
        /\ tempPlayerLock' = Null
        /\ UNCHANGED <<player, tempPlayerLst, outgoingPackets, fault>>

\* A copy of the request becomes the reply.  Of the packets that are made in
\* this way only the first of state Play needs the player (its id).
QueueReply(w) ==
    LET reply == Head(thread[w].todo).reply
    IN  /\ Does(w, "queue")
        /\ outgoingPackets' = Append(outgoingPackets,
               [thread[w].job EXCEPT !.content = reply])
        /\ IF reply = "play" THEN Uses(thread[w].job.player)
                             ELSE UNCHANGED fault
        /\ UNCHANGED <<player, listVars>>

Returns(w) == thread[w].pc = "run" /\ thread[w].todo = <<>>

ReturnsSend(w) ==
    /\ Returns(w)
    /\ thread[w].result \in Replies \ {"disconnect"}
    /\ outgoingPackets' = Append(outgoingPackets,
           [thread[w].job EXCEPT !.content = thread[w].result])
    /\ thread' = [thread EXCEPT ![w] = Idle]
    /\ QueueStep /\ UNCHANGED incomingPackets

\* The packet always has a player: its constructor has made one.
ReturnsDisconnect(w) ==
    /\ Returns(w)
    /\ thread[w].result = "disconnect"
    /\ Becomes(w, "remove")
    /\ StaysLocal /\ UNCHANGED fault

ReturnsOk(w) ==
    /\ Returns(w)
    /\ thread[w].result = "ok"
    /\ thread' = [thread EXCEPT ![w] = Idle]
    /\ StaysLocal /\ UNCHANGED fault

WorkerStep(w) ==
    \/ WorkerPops(w) \/ Route(w) \/ SetPlayerState(w) \/ EraseTemp(w)
    \/ InsertMain(w) \/ QueueReply(w) \/ ReturnsSend(w)
    \/ ReturnsDisconnect(w) \/ ReturnsOk(w) \/ Disconnect(w)

-----------------------------------------------------------------------------
(* senderThreadLoop                                                        *)

SenderPops ==
    /\ thread[Sender].pc = "idle"
    /\ outgoingPackets # <<>>
    /\ outgoingPackets' = Tail(outgoingPackets)
    /\ thread' = [thread EXCEPT ![Sender] = [Idle EXCEPT
                     !.pc = "send", !.job = Head(outgoingPackets)]]
    /\ QueueStep /\ UNCHANGED incomingPackets

\* send() on a descriptor, whoever has it now.
Send ==
    /\ thread[Sender].pc = "send"
    /\ LET c == fdClient[thread[Sender].job.fd]
       IN  received' = IF c = Null THEN received
                       ELSE [received EXCEPT
                                ![c] = @ \cup {thread[Sender].job.content}]
    /\ Becomes(Sender, "check")
    /\ UNCHANGED <<socketVars, clientVars, player, listVars, queueVars, events,
                   fault>>

\* Mutation: a player left in state None is not disconnected.
CheckNever ==
    /\ thread[Sender].pc = "check"
    /\ thread' = [thread EXCEPT ![Sender] = Idle]
    /\ StaysLocal /\ UNCHANGED fault

CheckState ==
    /\ thread[Sender].pc = "check"
    /\ Uses(thread[Sender].job.player)
    /\ IF player[thread[Sender].job.player].state = "None"
       THEN Becomes(Sender, "remove")
       ELSE thread' = [thread EXCEPT ![Sender] = Idle]
    /\ StaysLocal

SenderStep == SenderPops \/ Send \/ CheckState \/ Disconnect(Sender)

-----------------------------------------------------------------------------
(* After undefined behaviour anything can follow: the model stops there.   *)
Next ==
    /\ fault = "none"
    /\ \/ \E c \in Clients : ClientStep(c)
       \/ ReceiverStep
       \/ \E w \in Workers : WorkerStep(w)
       \/ SenderStep

Spec == Init /\ [][Next]_vars

(* The threads are scheduled; clients need not do anything.                *)
Fairness ==
    /\ WF_vars(fault = "none" /\ ReceiverStep)
    /\ \A w \in Workers : WF_vars(fault = "none" /\ WorkerStep(w))
    /\ WF_vars(fault = "none" /\ SenderStep)

FairSpec == Spec /\ Fairness

-----------------------------------------------------------------------------
(* Safety                                                                  *)

Queued == ToSet(incomingPackets) \cup ToSet(outgoingPackets)

(* No thread uses a player that another one has deleted, and none deletes  *)
(* it again, although nobody counts the pointers to it                     *)
(* (server.cpp:165-197, networkQueuer.cpp:97-103, networkWorker.cpp:26-37).*)
NoFault == fault = "none"

(* A descriptor is closed and used again for the next connection, while    *)
(* packets keep its number: no reply goes to a client that is not the one  *)
(* that asked (networkQueuer.cpp:96).                                      *)
RepliesReachTheirClient ==
    /\ \A job \in ToSet(outgoingPackets) : fdClient[job.fd] = job.client
    /\ thread[Sender].pc = "send" =>
           fdClient[thread[Sender].job.fd] = thread[Sender].job.client

(* Both lists hold live players under their own descriptor, no player and  *)
(* no descriptor is in both, and every live player is in one of them or    *)
(* in the hands of the worker that moves it (server.cpp:151-197).          *)
ListsHoldTheLivePlayers ==
    /\ \A fd \in Fds :
          /\ \A p \in {tempPlayerLst[fd], playerLst[fd]} \ {Null} :
                Live(p) /\ player[p].fd = fd
          /\ tempPlayerLst[fd] = Null \/ playerLst[fd] = Null
    /\ \A p \in Players : Live(p) =>
          \/ tempPlayerLst[player[p].fd] = p
          \/ playerLst[player[p].fd] = p
          \/ tempPlayerLock # Null /\ thread[tempPlayerLock].job.player = p

(* The first packet of a connection is routed as a handshake: neither a    *)
(* session nor a state is inherited from an earlier connection on the same *)
(* descriptor, also not by the temporary player that a failed read of a    *)
(* body leaves behind (packet.cpp:99-112, networkQueuer.cpp:74-77).        *)
NewConnectionStartsInHandshake ==
    \A fd \in Fds :
        LET c == fdClient[fd] IN
        c = Null \/ Len(inbox[c]) = sent[c] =>
            /\ playerLst[fd] = Null
            /\ \/ tempPlayerLst[fd] = Null
               \/ player[tempPlayerLst[fd]].state = "Handshake"

(* The number of players online that the status reply tells is the size of *)
(* the main list: it counts those who log in or play, and no connection    *)
(* that only asks for the status (server.cpp:209, handshake.cpp:22-28).    *)
OnlineMeansLoggedIn ==
    \A fd \in Fds :
        /\ playerLst[fd] # Null =>
              player[playerLst[fd]].state \notin {"Handshake", "Status"}
        /\ tempPlayerLst[fd] # Null =>
              player[tempPlayerLst[fd]].state \notin {"Configuration", "Play"}

(* A player that state None has doomed is in the hands of the one thread   *)
(* that will remove it: nothing else of its client is on the way.          *)
DoomedPlayersHaveOneRemover ==
    \A p \in Players : Live(p) /\ player[p].state = "None" =>
        Cardinality({t \in Threads : thread[t].job.player = p})
        + Cardinality({i \in DOMAIN outgoingPackets :
                           outgoingPackets[i].player = p})
        + Cardinality({i \in DOMAIN incomingPackets :
                           incomingPackets[i].player = p}) = 1

PlayerSessions ==
    [fd \in Fds |-> {[player |-> p, state |-> player[p].state] :
                         p \in {q \in Players : Live(q) /\ player[q].fd = fd}}]

Service == INSTANCE Sessions WITH owner <- fdClient, Nobody <- Null,
                                  sessions <- PlayerSessions

(* Every descriptor has one player at a time, which goes through the       *)
(* states of the protocol in order while its client is connected, and      *)
(* leaves nothing behind: what three kinds of threads do to two lists, to  *)
(* the players and to the descriptors implements Sessions (server.cpp:     *)
(* 120-197, networkQueuer.cpp:52-103, networkPacketRouter.cpp:17-283).     *)
ImplementsSessions == Service!Spec

-----------------------------------------------------------------------------
(* Liveness                                                                *)

(* The connection of a client that has hung up is closed, whatever state   *)
(* its player was in (networkQueuer.cpp:61-78).                            *)
HungUpIsClosed ==
    \A c \in Clients : (link[c] = "open" /\ gone[c]) ~> (link[c] = "closed")

(* The connection is closed after the pong: the worker that makes it sets  *)
(* state None, on which the sender acts (ping.cpp:33, networkQueuer.cpp:97)*)
PongClosesConnection ==
    \A c \in Clients : ("pong" \in received[c]) ~> (link[c] = "closed")

(* A ping in state Status is answered unless the client hangs up.          *)
PingIsAnswered ==
    \A c \in Clients :
        (/\ inbox[c] = <<"id1">>
         /\ \E fd \in Fds : /\ fdClient[fd] = c
                            /\ tempPlayerLst[fd] # Null
                            /\ player[tempPlayerLst[fd]].state = "Status")
        ~> ("pong" \in received[c] \/ gone[c])

-----------------------------------------------------------------------------
(* What comments say of the code, and the code does not do                 *)

(* The last delete of removePlayerFromAnyList is for an orphaned player,   *)
(* one that exists and is in no list (server.cpp:194-195).                 *)
OrphanedPlayerExists == fault # "doubleDelete"

(* The temporary player that removePlayerFromAnyList erases is the one it  *)
(* deletes: the list has at most that one for the socket                   *)
(* (server.cpp:174-177).                                                   *)
RemovedTempPlayerIsListed ==
    \A t \in Threads : thread[t].pc = "unlink" =>
        tempPlayerLst[player[thread[t].job.player].fd]
            \in {thread[t].job.player, Null}

(* The disconnect packet, queued for sending, can still be sent to the     *)
(* client it is for (networkPacketRouter.cpp:285-287).                     *)
DisconnectPacketIsSent ==
    \A job \in ToSet(outgoingPackets) :
        job.content = "disconnect" => fdClient[job.fd] = job.client
=============================================================================
