-------------------------- MODULE ConnectionsProofs --------------------------
(***************************************************************************)
(* What holds of Connections for any number of clients, workers,           *)
(* descriptors, players and packets, when the clients and the memory take  *)
(* no liberties: the invariant of ConnectionsInvariant, and from it the    *)
(* safety properties of Connections and that it implements Sessions.       *)
(***************************************************************************)
EXTENDS ConnectionsSteps

-----------------------------------------------------------------------------
(* The steps that are not in ConnectionsSteps keep the invariant too: those *)
(* of the clients, of the receiver and of the sender, one lemma for each.  *)
(*                                                                         *)
(* What a step of a client or of the receiver leaves alone                 *)

(* The players, the lists and what is on its way.                          *)
LEMMA ReceiverFrame ==
    ASSUME IInv, Others(Receiver),
           UNCHANGED <<player, listVars, outgoingPackets, fault>>
    PROVE  ListInv' /\ PlanInv' /\ DoomInv' /\ BirthInv' /\ NoFault'
<1> USE DEF IInv, listVars
<1>1. /\ \A w \in Workers : thread'[w] = thread[w]
      /\ thread'[Sender] = thread[Sender]
  BY Roles DEF Others
<1>2. tempPlayerLock # Null =>
          thread'[tempPlayerLock] = thread[tempPlayerLock]
  BY <1>1 DEF TypeInv, TypeOK
<1>3. ListInv'
  <2>1. \A w \in Workers : AboutToErase(w) => AboutToErase(w)'
    BY <1>1 DEF AboutToErase
  <2> QED  BY <1>1, <1>2, <2>1 DEF ListInv, Moving
<1>4. PlanInv'
  BY <1>1 DEF PlanInv
<1>5. DoomInv'
  <2>1. \A q : Doomed(q)' <=> Doomed(q)
    BY DEF Doomed
  <2>2. \A d : /\ Served(d)' <=> Served(d)
               /\ Has(outgoingPackets, d)' <=> Has(outgoingPackets, d)
    BY <1>1 DEF Served, Has
  <2>3. (\A p \in Players : Doomed(p) =>
            \/ \E w \in Workers : thread[w].job.player = p
            \/ thread[Sender].job.player = p
            \/ \E i \in 1..Len(outgoingPackets) :
                  outgoingPackets[i].player = p)'
    BY <1>1, <2>1 DEF DoomInv
  <2>4. (\A i \in 1..Len(outgoingPackets) : Doomed(outgoingPackets[i].player) =>
            LET c == outgoingPackets[i].client
            IN  /\ ~Served(c) /\ thread[Sender].job.client # c
                /\ \A j \in 1..Len(outgoingPackets) :
                      outgoingPackets[j].client = c => j = i)'
    BY <1>1 DEF DoomInv, Doomed, Served
  <2>5. (thread[Sender].pc \in {"send", "check"} =>
            (Doomed(thread[Sender].job.player) =>
                LET c == thread[Sender].job.client
                IN  ~Served(c) /\ ~Has(outgoingPackets, c)))'
    BY <1>1 DEF DoomInv, Doomed, Served, Has
  <2> QED  BY <2>3, <2>4, <2>5 DEF DoomInv
<1>6. BirthInv' /\ NoFault'
  BY BirthKept DEF NoFault
<1> QED  BY <1>3, <1>4, <1>5, <1>6

LEMMA QuietMeans ==
    ASSUME TypeInv, NEW c \in Clients, Quiet(c)
    PROVE  /\ inbox[c] = <<>> /\ ~Requested(c) /\ ~Served(c) /\ ~Answered(c)
           /\ \A t \in Threads : thread[t].job.client # c
<1>1. \A t \in Threads : thread[t].job.client # c
  BY DEF Quiet
<1>2. /\ \A i \in 1..Len(incomingPackets) : incomingPackets[i].client # c
      /\ \A i \in 1..Len(outgoingPackets) : outgoingPackets[i].client # c
  <2>1. /\ DOMAIN incomingPackets = 1..Len(incomingPackets)
        /\ DOMAIN outgoingPackets = 1..Len(outgoingPackets)
    BY TypesOfData, LenProperties DEF DataTypes
  <2> QED  BY <2>1 DEF Quiet, ToSet
<1>3. inbox[c] = <<>>
  BY DEF Quiet
<1> QED  BY <1>1, <1>2, <1>3, Roles DEF Requested, Served, Answered, Has

(* The client whose packet the receiver is after.                          *)
ReceiversClient ==
    /\ thread[Receiver].job.client # Null => Waits(thread[Receiver].job.client)
    /\ thread[Receiver].pc \in Disconnecting => gone[thread[Receiver].job.client]

(* A client may begin to wait when nothing of it is on its way.            *)
LEMMA ReceiverOneAtATime ==
    ASSUME IInv, Others(Receiver), UNCHANGED queueVars, ReceiversClient',
           \A c \in Clients : inbox'[c] # <<>> \/ gone'[c] \/ sent'[c] = 0 =>
               Waits(c) \/ sent[c] = 0 \/ Quiet(c)
    PROVE  OneAtATime'
<1> USE DEF IInv, queueVars
<1>1. /\ \A w \in Workers : thread'[w] = thread[w]
      /\ thread'[Sender] = thread[Sender]
  BY Roles DEF Others
<1>2. \A d : /\ Requested(d)' <=> Requested(d)
             /\ Served(d)' <=> Served(d)
             /\ Answered(d)' <=> Answered(d)
  BY <1>1 DEF Requested, Served, Answered, Has
<1>3. ASSUME NEW c \in Clients
      PROVE  /\ inbox'[c] # <<>> \/ gone'[c] \/ sent'[c] = 0 =>
                   ~Requested(c) /\ ~Served(c) /\ ~Answered(c)
             /\ Requested(c) => ~Served(c) /\ ~Answered(c)
  BY <1>3, QuietMeans DEF OneAtATime
<1>4. (\A c \in Clients :
          /\ Waits(c) \/ sent[c] = 0 =>
                 ~Requested(c) /\ ~Served(c) /\ ~Answered(c)
          /\ Requested(c) => ~Served(c) /\ ~Answered(c))'
  BY <1>2, <1>3 DEF Waits
<1>5. (\A w \in Workers : Unanswered(w) => ~Answered(thread[w].job.client))'
  BY <1>1 DEF OneAtATime, Unanswered, Answered, Has
<1>6. (thread[Sender].pc \in Disconnecting =>
          LET c == thread[Sender].job.client
          IN  ~Has(outgoingPackets, c) /\ ~Served(c))'
  BY <1>1 DEF OneAtATime, Has, Served
<1>7. (/\ \A i, j \in 1..Len(incomingPackets) :
             incomingPackets[i].client = incomingPackets[j].client => i = j
       /\ \A v, w \in Workers :
             thread[v].job.client = thread[w].job.client =>
                 v = w \/ thread[v].job.client = Null)'
  BY <1>1 DEF OneAtATime
<1> QED  BY <1>4, <1>5, <1>6, <1>7 DEF OneAtATime, ReceiversClient

-----------------------------------------------------------------------------
(* The steps of the clients                                                *)

LEMMA ConnectKeeps ==
    ASSUME IInv, NEW c \in Clients, Connect(c)
    PROVE  Kept'
<1> USE DEF IInv, clientVars, listVars, queueVars
<1>1. /\ link[c] = "new" /\ link' = [link EXCEPT ![c] = "backlog"]
      /\ backlog' = Append(backlog, c)
      /\ UNCHANGED <<inbox, fdClient, clientVars, player, listVars,
                     queueVars, events, thread, received, fault>>
  BY DEF Connect
<1>2. SocketInv'
  <2>1. /\ link'[c] = "backlog"
        /\ \A d \in Clients \ {c} : link'[d] = link[d]
    BY <1>1 DEF TypeInv, TypeOK
  <2>2. /\ Len(backlog') = Len(backlog) + 1 /\ Len(backlog) \in Nat
        /\ \A i \in 1..Len(backlog) : backlog'[i] = backlog[i]
        /\ backlog'[Len(backlog) + 1] = c
    BY <1>1, Appended DEF TypeInv, TypeOK
  <2>3. \A i \in 1..Len(backlog) : backlog[i] \in Clients \ {c}
    BY <1>1 DEF SocketInv, TypeInv, TypeOK
  <2>4. \A fd \in Fds : fdClient[fd] # Null => fdClient[fd] \in Clients \ {c}
    BY <1>1 DEF SocketInv, TypeInv, TypeOK
  <2>5. \A i \in 1..Len(backlog') : i \in 1..Len(backlog) \/ i = Len(backlog) + 1
    BY <2>2
  <2>6. (\A i \in 1..Len(backlog) : link[backlog[i]] = "backlog")'
    BY <2>1, <2>2, <2>3, <2>5 DEF SocketInv
  <2>7. (\A i, j \in 1..Len(backlog) : backlog[i] = backlog[j] => i = j)'
    BY <2>2, <2>3, <2>5 DEF SocketInv
  <2>8. (\A fd \in Fds : fdClient[fd] # Null => link[fdClient[fd]] = "open")'
    BY <1>1, <2>1, <2>4 DEF SocketInv
  <2> QED  BY <1>1, <2>6, <2>7, <2>8 DEF SocketInv
<1>3. Others(Receiver)
  BY <1>1 DEF Others
<1>4. ListInv' /\ PlanInv' /\ DoomInv' /\ BirthInv' /\ NoFault'
  BY <1>1, <1>3, ReceiverFrame
<1>5. InboxInv' /\ EventInv' /\ UnknownInv'
  BY <1>1 DEF InboxInv, EventInv, Waits, UnknownInv
<1>6. BlankInv'
  BY <1>1 DEF BlankInv, Blank
<1>7. JobInv'
  BY <1>1 DEF JobInv, ThreadHas, Valid
<1>8. OneAtATime'
  BY <1>1 DEF OneAtATime, Waits, Requested, Served, Answered, Has, Unanswered
<1> QED  BY <1>2, <1>4, <1>5, <1>6, <1>7, <1>8 DEF Kept

LEMMA HangUpKeeps ==
    ASSUME IInv, NEW c \in Clients, HangUp(c), Liberties = {}
    PROVE  Kept'
<1> USE DEF IInv, socketVars, clientVars, listVars, queueVars
<1>1. /\ Quiet(c) /\ ~gone[c] /\ gone' = [gone EXCEPT ![c] = TRUE]
      /\ UNCHANGED <<socketVars, sent, player, listVars, queueVars, events,
                     thread, received, fault>>
  BY DEF HangUp, Connected
<1>2. /\ inbox[c] = <<>> /\ gone'[c]
      /\ \A t \in Threads : thread[t].job.client # c
      /\ \A d \in Clients \ {c} : gone'[d] = gone[d]
  BY <1>1, QuietMeans DEF TypeInv, TypeOK
<1>3. Others(Receiver)
  BY <1>1 DEF Others
<1>4. ListInv' /\ PlanInv' /\ DoomInv' /\ BirthInv' /\ NoFault'
  BY <1>1, <1>3, ReceiverFrame
<1>5. InboxInv' /\ SocketInv' /\ UnknownInv'
  BY <1>1, <1>2 DEF InboxInv, SocketInv, UnknownInv
<1>6. BlankInv'
  BY <1>1 DEF BlankInv, Blank
<1>7. JobInv'
  BY <1>1 DEF JobInv, ThreadHas, Valid
<1>8. \A d \in Clients : gone[d] => gone'[d]
  BY <1>2
<1>9. thread[Receiver].job.client \in Clients \cup {Null}
  BY ThreadTypes, Roles DEF Jobs
<1>10. thread[Receiver].pc \in Disconnecting =>
           thread[Receiver].job.client \in Clients
  BY Roles DEF JobInv, ThreadHas, Disconnecting
<1>11. ReceiversClient'
  BY <1>1, <1>8, <1>9, <1>10 DEF ReceiversClient, OneAtATime, Waits
<1>12. OneAtATime'
  BY <1>1, <1>2, <1>3, <1>11, ReceiverOneAtATime DEF Waits
<1>13. EventInv'
  <2>1. \A i \in 1..Len(events) : events[i].fd \in Fds =>
            fdClient[events[i].fd] \in Clients
    BY DEF EventInv, TypeInv, TypeOK
  <2> QED  BY <1>1, <1>8, <2>1 DEF EventInv, Waits
<1> QED  BY <1>4, <1>5, <1>6, <1>7, <1>12, <1>13 DEF Kept

LEMMA OnePacket ==
    ASSUME NEW m
    PROVE  /\ Append(<<>>, m) = <<m>> /\ <<m>> # <<>>
           /\ Len(<<m>>) = 1 /\ Head(<<m>>) = m
OBVIOUS

LEMMA SendMessageKeeps ==
    ASSUME IInv, NEW c \in Clients, NEW m \in Sendable, SendMessage(c, m),
           Liberties = {}
    PROVE  Kept'
<1> USE DEF IInv, clientVars, listVars, queueVars
<1>1. /\ Quiet(c) /\ ~gone[c] /\ gone' = [gone EXCEPT ![c] = (m = "truncated")]
      /\ m = "unknown" => ~InConfiguration(c)
      /\ inbox' = [inbox EXCEPT ![c] = Append(inbox[c], m)]
      /\ sent' = [sent EXCEPT ![c] = sent[c] + 1]
      /\ UNCHANGED <<link, backlog, edge, fdClient, player, listVars,
                     queueVars, events, thread, received, fault>>
  BY DEF SendMessage, Connected
<1>2. /\ inbox[c] = <<>> /\ inbox'[c] = <<m>> /\ gone'[c] = (m = "truncated")
      /\ sent'[c] = sent[c] + 1 /\ sent[c] \in Nat
      /\ \A t \in Threads : thread[t].job.client # c
      /\ \A d \in Clients \ {c} :
            gone'[d] = gone[d] /\ inbox'[d] = inbox[d] /\ sent'[d] = sent[d]
  <2>1. inbox[c] = <<>> /\ \A t \in Threads : thread[t].job.client # c
    BY <1>1, QuietMeans
  <2>2. /\ gone'[c] = (m = "truncated")
        /\ \A d \in Clients \ {c} : gone'[d] = gone[d]
    BY <1>1 DEF TypeInv, TypeOK
  <2>3. /\ sent'[c] = sent[c] + 1 /\ sent[c] \in Nat
        /\ \A d \in Clients \ {c} : sent'[d] = sent[d]
    BY <1>1, BoundsAssumption DEF TypeInv, TypeOK
  <2>4. /\ inbox'[c] = Append(<<>>, m)
        /\ \A d \in Clients \ {c} : inbox'[d] = inbox[d]
    BY <1>1, <2>1 DEF TypeInv, TypeOK
  <2> QED  BY <2>1, <2>2, <2>3, <2>4, OnePacket
<1>3. Others(Receiver)
  BY <1>1 DEF Others
<1>4. ListInv' /\ PlanInv' /\ DoomInv' /\ BirthInv' /\ NoFault'
  BY <1>1, <1>3, ReceiverFrame
<1>5. SocketInv'
  BY <1>1 DEF SocketInv
<1>6. InboxInv'
  <2>1. inbox'[c] # <<>> /\ Head(inbox'[c]) = m
    BY <1>2, OnePacket
  <2>2. Len(inbox'[c]) <= 1 /\ Len(inbox'[c]) <= sent'[c]
    <3>1. Len(inbox'[c]) = 1
      BY <1>2, OnePacket
    <3>2. \A n \in Nat : 1 <= n + 1
      OBVIOUS
    <3> QED  BY <1>2, <3>1, <3>2
  <2>3. gone'[c] <=> m = "truncated"
    BY <1>2, Zenon
  <2>4. ASSUME NEW d \in Clients
        PROVE  /\ Len(inbox'[d]) <= 1 /\ Len(inbox'[d]) <= sent'[d]
               /\ inbox'[d] # <<>> =>
                      (gone'[d] <=> Head(inbox'[d]) = "truncated")
    <3>1. CASE d = c
      <4>1. gone'[d] <=> Head(inbox'[d]) = "truncated"
        BY <2>1, <2>3, <3>1, Zenon
      <4>2. Len(inbox'[d]) <= 1 /\ Len(inbox'[d]) <= sent'[d]
        BY <2>2, <3>1, Zenon
      <4> QED  BY <4>1, <4>2, Zenon
    <3>2. CASE d # c
      BY <1>2, <3>2 DEF InboxInv
    <3> QED  BY <3>1, <3>2
  <2> QED  BY <2>4 DEF InboxInv
<1>7. UnknownInv'
  <2>1. inbox'[c] = <<"unknown">> => m = "unknown"
    <3>1. Head(<<"unknown">>) = "unknown" /\ Head(<<m>>) = m
      BY OnePacket
    <3> QED  BY <1>2, <3>1
  <2>2. ASSUME NEW fd \in Fds, fdClient[fd] = c, playerLst[fd] # Null,
               m = "unknown"
        PROVE  player[playerLst[fd]].state # "Configuration"
    BY <1>1, <2>2 DEF InConfiguration
  <2>3. \A fd \in Fds : fdClient[fd] # Null => fdClient[fd] \in Clients
    BY DEF TypeInv, TypeOK
  <2> QED  BY <1>1, <1>2, <2>1, <2>2, <2>3 DEF UnknownInv
<1>8. BlankInv'
  <2>1. \A fd : Blank(fd)' <=> Blank(fd)
    BY <1>1 DEF Blank
  <2>2. Len(inbox'[c]) = sent'[c] => Len(inbox[c]) = sent[c]
    <3>1. Len(inbox'[c]) = 1 /\ Len(inbox[c]) = 0
      BY <1>2, OnePacket
    <3> QED  BY <1>2, <3>1
  <2>3. \A fd \in Fds : fdClient[fd] # Null => fdClient[fd] \in Clients
    BY DEF TypeInv, TypeOK
  <2>4. (\A fd \in Fds : LET d == fdClient[fd]
                       IN  d = Null \/ Len(inbox[d]) = sent[d] => Blank(fd))'
    BY <1>1, <1>2, <2>1, <2>2, <2>3 DEF BlankInv
  <2>5. (\A t \in Threads : thread[t].pc = "close" => Blank(thread[t].job.fd))'
    BY <1>1 DEF BlankInv, Blank
  <2>6. (LET gd == thread[Receiver].job.fd
         IN  thread[Receiver].job.player = Null =>
              /\ thread[Receiver].pc = "remove" => Blank(gd)
              /\ thread[Receiver].pc = "read" =>
                     playerLst[gd] = Null /\ tempPlayerLst[gd] = Null)'
    BY <1>1 DEF BlankInv, Blank
  <2> QED  BY <1>1, <2>4, <2>5, <2>6 DEF BlankInv
<1>9. JobInv'
  BY <1>1 DEF JobInv, ThreadHas, Valid
<1>10. /\ \A d \in Clients : gone[d] => gone'[d]
       /\ \A d \in Clients : Waits(d) => inbox'[d] # <<>> \/ gone'[d]
  BY <1>1, <1>2, OnePacket DEF Waits
<1>11. thread[Receiver].job.client \in Clients \cup {Null}
  BY ThreadTypes, Roles DEF Jobs
<1>12. thread[Receiver].pc \in Disconnecting =>
           thread[Receiver].job.client \in Clients
  BY Roles DEF JobInv, ThreadHas, Disconnecting
<1>13. ReceiversClient'
  BY <1>1, <1>10, <1>11, <1>12 DEF ReceiversClient, OneAtATime, Waits
<1>14. OneAtATime'
  <2>1. \A d \in Clients : inbox'[d] # <<>> \/ gone'[d] \/ sent'[d] = 0 =>
            Waits(d) \/ sent[d] = 0 \/ Quiet(d)
    BY <1>1, <1>2 DEF Waits
  <2> QED  BY <1>1, <1>3, <1>13, <2>1, ReceiverOneAtATime
<1>15. EventInv'
  <2>1. \A i \in 1..Len(events) : events[i].fd \in Fds =>
            fdClient[events[i].fd] \in Clients
    BY DEF EventInv, TypeInv, TypeOK
  <2> QED  BY <1>1, <1>10, <2>1 DEF EventInv, Waits
<1> QED
  BY <1>4, <1>5, <1>6, <1>7, <1>8, <1>9, <1>14, <1>15 DEF Kept

-----------------------------------------------------------------------------
(* The receiver waits and accepts                                          *)

(* A descriptor that is reported has a client that waits.                  *)
LEMMA EpollWaitKeeps ==
    ASSUME IInv, EpollWait
    PROVE  Kept'
<1> USE DEF IInv, clientVars, listVars, queueVars
<1> DEFINE S == ReadyFds \cup IF edge THEN {ListenFd} ELSE {}
<1>1. PICK order \in SetToSeqs(S),
           hups \in SUBSET {fd \in ReadyFds : gone[fdClient[fd]]} :
           events' = [i \in DOMAIN order |-> [fd |-> order[i],
                                              hup |-> order[i] \in hups]]
  BY DEF EpollWait
<1>2. /\ thread[Receiver].pc = "idle" /\ Becomes(Receiver, "event")
      /\ UNCHANGED <<link, inbox, backlog, fdClient, clientVars, player,
                     listVars, queueVars, received, fault>>
  BY DEF EpollWait
<1>3. /\ order \in [1..Cardinality(S) -> S]
      /\ \A i, j \in 1..Cardinality(S) : i # j => order[i] # order[j]
      /\ DOMAIN order = 1..Cardinality(S) /\ Cardinality(S) \in Nat
  <2>1. IsFiniteSet(Fds) /\ IsFiniteSet(Fds \cup {ListenFd})
    <3>1. IsFiniteSet(Fds)
      BY FS_Interval, BoundsAssumption DEF Fds
    <3> QED  BY <3>1, FS_AddElement
  <2>2. S \subseteq Fds \cup {ListenFd}
    BY DEF ReadyFds
  <2>3. Cardinality(S) \in Nat
    BY <2>1, <2>2, FS_Subset, FS_CardinalityType
  <2> HIDE DEF S
  <2> QED  BY <2>3 DEF SetToSeqs
<1>4. /\ S \subseteq ReadyFds \cup {ListenFd}
      /\ \A fd \in ReadyFds : /\ fd \in Fds /\ fdClient[fd] # Null
                             /\ Waits(fdClient[fd])
  BY DEF ReadyFds, Waits
<1> HIDE DEF S
<1>5. /\ Others(Receiver) /\ thread'[Receiver].pc = "event"
      /\ thread'[Receiver].job = NoJob
  <2>1. /\ \A u \in Threads \ {Receiver} : thread'[u] = thread[u]
        /\ thread'[Receiver].pc = "event"
        /\ thread'[Receiver].job = thread[Receiver].job
    BY <1>2, BecomesEffect, Roles DEF Positions
  <2>2. thread[Receiver].job = NoJob
    BY <1>2, Roles DEF JobInv, ThreadHas
  <2> QED  BY <2>1, <2>2 DEF Others
<1>6. ListInv' /\ PlanInv' /\ DoomInv' /\ BirthInv' /\ NoFault'
  BY <1>2, <1>5, ReceiverFrame
<1>7. SocketInv' /\ InboxInv'
  BY <1>2 DEF SocketInv, InboxInv
<1>8. JobInv'
  <2>1. ThreadHas(Receiver)'
    BY <1>5 DEF ThreadHas
  <2> QED  BY <1>2, <1>5, <2>1, JobsKept, Roles
<1>9. OneAtATime'
  <2>1. ReceiversClient'
    BY <1>5 DEF ReceiversClient, NoJob, Disconnecting
  <2> QED  BY <1>2, <1>5, <2>1, ReceiverOneAtATime DEF Waits
<1>10. EventInv'
  <2>1. Len(events') = Cardinality(S)
    BY <1>1, <1>3
  <2>2. ASSUME NEW i \in 1..Len(events')
        PROVE  /\ events'[i].fd = order[i] /\ order[i] \in S
               /\ events'[i].hup <=> order[i] \in hups
    BY <1>1, <1>3, <2>1, <2>2
  <2>3. \A i, j \in 1..Len(events') : events'[i].fd = events'[j].fd => i = j
    BY <1>3, <2>1, <2>2
  <2>4. ASSUME NEW i \in 1..Len(events')
        PROVE  /\ events'[i].fd \in Fds =>
                      LET c == fdClient[events'[i].fd]
                      IN  c # Null /\ Waits(c)
               /\ events'[i].hup =>
                      /\ events'[i].fd \in Fds
                      /\ gone[fdClient[events'[i].fd]]
    <3>1. events'[i].fd \in S /\ (events'[i].hup => events'[i].fd \in hups)
      BY <2>2
    <3> QED  BY <1>4, <3>1, NullIsNothing
  <2>5. thread'[Receiver].pc \notin {"read"} \cup Disconnecting
    BY <1>5 DEF Disconnecting
  <2> QED  BY <1>2, <2>3, <2>4, <2>5 DEF EventInv, Waits
<1>11. BlankInv'
  <2>1. \A fd : Blank(fd)' <=> Blank(fd)
    BY <1>2 DEF Blank
  <2>2. (\A fd \in Fds : LET c == fdClient[fd]
                       IN  c = Null \/ Len(inbox[c]) = sent[c] => Blank(fd))'
    BY <1>2, <2>1 DEF BlankInv
  <2>3. (\A t \in Threads : thread[t].pc = "close" => Blank(thread[t].job.fd))'
    BY <1>2, <1>5 DEF BlankInv, Blank, Others
  <2> QED  BY <1>5, <2>2, <2>3 DEF BlankInv
<1>12. UnknownInv'
  BY <1>2, <1>5, Roles DEF UnknownInv, Others
<1> QED
  BY <1>6, <1>7, <1>8, <1>9, <1>10, <1>11, <1>12 DEF Kept

(* When an event has been handled the others still stand.                  *)
LEMMA EventsKept ==
    ASSUME IInv, events # <<>>, events' = Tail(events),
           thread'[Receiver].pc \in {"idle", "event"},
           \A fd \in Fds \ {Head(events).fd} : fdClient[fd] # Null =>
               /\ fdClient'[fd] = fdClient[fd]
               /\ inbox'[fdClient[fd]] = inbox[fdClient[fd]]
               /\ gone'[fdClient[fd]] = gone[fdClient[fd]]
    PROVE  EventInv'
<1> USE DEF IInv
<1>1. /\ Head(events) = events[1] /\ Len(events) \in Nat \ {0}
      /\ Len(events') = Len(events) - 1
      /\ \A i \in 1..Len(events') : events'[i] = events[i + 1]
  BY HeadAndTail, TypesOfData DEF DataTypes
<1>2. \A i, j \in 1..Len(events') : events'[i].fd = events'[j].fd => i = j
  BY <1>1 DEF EventInv
<1>3. ASSUME NEW i \in 1..Len(events')
      PROVE  /\ events'[i].fd \in Fds =>
                    LET c == fdClient'[events'[i].fd]
                    IN  c # Null /\ (inbox'[c] # <<>> \/ gone'[c])
             /\ events'[i].hup =>
                    /\ events'[i].fd \in Fds
                    /\ gone'[fdClient'[events'[i].fd]]
  <2>1. /\ i + 1 \in 1..Len(events) /\ 1 \in 1..Len(events)
        /\ events'[i] = events[i + 1] /\ i + 1 # 1
    BY <1>1
  <2>2. events'[i].fd # Head(events).fd
    BY <1>1, <2>1 DEF EventInv
  <2>3. LET c == fdClient[events'[i].fd]
        IN  /\ events'[i].fd \in Fds => c # Null /\ Waits(c)
            /\ events'[i].hup => events'[i].fd \in Fds /\ gone[c]
    BY <2>1 DEF EventInv
  <2> QED  BY <2>2, <2>3 DEF Waits
<1>4. thread'[Receiver].pc \notin {"read"} \cup Disconnecting
  BY DEF Disconnecting
<1> QED  BY <1>2, <1>3, <1>4 DEF EventInv, Waits

(* A new connection takes a descriptor that nobody has the number of.      *)
LEMMA AcceptKeeps ==
    ASSUME IInv, Accept \/ AcceptFails \/ AcceptedButNotWatched
    PROVE  Kept'
<1> USE DEF IInv, clientVars, listVars, queueVars
<1>1. /\ thread[Receiver].pc = "event" /\ Head(events).fd = ListenFd
      /\ AfterEvent(Receiver)
      /\ UNCHANGED <<edge, clientVars, player, listVars, queueVars, received,
                     fault>>
  BY DEF Accept, AcceptFails, AcceptedButNotWatched, AcceptEvent
<1>2. events # <<>>
  BY <1>1 DEF TypeInv, Stations
<1>3. /\ Others(Receiver) /\ thread'[Receiver].job = NoJob
      /\ thread'[Receiver].pc \in {"idle", "event"}
      /\ events' = Tail(events)
  BY <1>1, <1>2, AfterEventEffect, Roles DEF Others
<1>4. backlog # <<>> =>
          /\ Head(backlog) \in Clients /\ link[Head(backlog)] = "backlog"
          /\ \A fd \in Fds : fdClient[fd] # Head(backlog)
          /\ \A i \in 1..Len(Tail(backlog)) :
                /\ link[Tail(backlog)[i]] = "backlog"
                /\ Tail(backlog)[i] \in Clients \ {Head(backlog)}
          /\ \A i, j \in 1..Len(Tail(backlog)) :
                Tail(backlog)[i] = Tail(backlog)[j] => i = j
  <2>1. ASSUME backlog # <<>>
        PROVE  /\ Head(backlog) = backlog[1] /\ Head(backlog) \in Clients
               /\ Len(backlog) \in Nat \ {0}
               /\ Len(Tail(backlog)) = Len(backlog) - 1
               /\ \A i \in 1..Len(Tail(backlog)) :
                     Tail(backlog)[i] = backlog[i + 1]
    BY <2>1, HeadAndTail, TypesOfData DEF DataTypes
  <2>2. \A i \in 1..Len(backlog) : backlog[i] \in Clients
    BY DEF TypeInv, TypeOK
  <2>3. \A fd \in Fds : fdClient[fd] = Null \/ link[fdClient[fd]] = "open"
    BY DEF SocketInv
  <2>4. Null \notin Clients
    BY NullIsNothing
  <2> QED  BY <2>1, <2>2, <2>3, <2>4 DEF SocketInv
<1>5. FreeFds # {} => Min(FreeFds) \in FreeFds
  <2>1. FreeFds \subseteq Nat
    BY NullIsNothing DEF FreeFds
  <2> QED  BY <2>1, MinIsIn
<1>6. /\ \A fd \in Fds : fdClient[fd] # Null =>
            /\ fdClient'[fd] = fdClient[fd]
            /\ inbox'[fdClient[fd]] = inbox[fdClient[fd]]
            /\ link'[fdClient[fd]] = link[fdClient[fd]]
      /\ \A d \in Clients : inbox'[d] = inbox[d] \/ inbox'[d] = <<>>
  <2>1. CASE AcceptFails
    BY <2>1 DEF AcceptFails
  <2>2. CASE Accept
    <3>1. /\ backlog # <<>> /\ FreeFds # {}
          /\ link' = [link EXCEPT ![Head(backlog)] = "open"]
          /\ fdClient' = [fdClient EXCEPT ![Min(FreeFds)] = Head(backlog)]
          /\ UNCHANGED inbox
      BY <2>2 DEF Accept
    <3>2. fdClient[Min(FreeFds)] = Null
      BY <1>5, <3>1 DEF FreeFds
    <3> QED  BY <1>4, <3>1, <3>2 DEF TypeInv, TypeOK
  <2>3. CASE AcceptedButNotWatched
    <3>1. /\ backlog # <<>> /\ UNCHANGED fdClient
          /\ link' = [link EXCEPT ![Head(backlog)] = "closed"]
          /\ inbox' = [inbox EXCEPT ![Head(backlog)] = <<>>]
      BY <2>3 DEF AcceptedButNotWatched
    <3> QED  BY <1>4, <3>1 DEF TypeInv, TypeOK
  <2> QED  BY <2>1, <2>2, <2>3
<1>7. SocketInv'
  <2>1. CASE AcceptFails
    BY <2>1 DEF AcceptFails, SocketInv
  <2>2. CASE Accept
    <3> DEFINE c == Head(backlog)
               new == Min(FreeFds)
    <3>1. /\ backlog # <<>> /\ FreeFds # {}
          /\ link' = [link EXCEPT ![c] = "open"]
          /\ fdClient' = [fdClient EXCEPT ![new] = c]
          /\ backlog' = Tail(backlog)
      BY <2>2 DEF Accept
    <3>2. new \in Fds /\ c \in Clients
      BY <1>4, <1>5, <3>1 DEF FreeFds
    <3> HIDE DEF new
    <3>3. /\ fdClient'[new] = c /\ link'[c] = "open"
          /\ \A fd \in Fds \ {new} : fdClient'[fd] = fdClient[fd]
          /\ \A d \in Clients \ {c} : link'[d] = link[d]
      BY <3>1, <3>2 DEF TypeInv, TypeOK
    <3>4. \A fd \in Fds : fdClient'[fd] # Null =>
              \/ fd = new
              \/ /\ fdClient'[fd] = fdClient[fd]
                 /\ fdClient[fd] \in Clients \ {c}
      BY <1>4, <3>1, <3>3 DEF TypeInv, TypeOK
    <3> QED  BY <1>4, <3>1, <3>3, <3>4 DEF SocketInv
  <2>3. CASE AcceptedButNotWatched
    <3> DEFINE c == Head(backlog)
    <3>1. /\ backlog # <<>> /\ UNCHANGED fdClient
          /\ link' = [link EXCEPT ![c] = "closed"]
          /\ backlog' = Tail(backlog)
      BY <2>3 DEF AcceptedButNotWatched
    <3>2. \A d \in Clients \ {c} : link'[d] = link[d]
      BY <3>1 DEF TypeInv, TypeOK
    <3>3. \A fd \in Fds : fdClient[fd] # Null => fdClient[fd] \in Clients \ {c}
      BY <1>4, <3>1 DEF TypeInv, TypeOK
    <3> QED  BY <1>4, <3>1, <3>2, <3>3 DEF SocketInv
  <2> QED  BY <2>1, <2>2, <2>3
<1>8. ListInv' /\ PlanInv' /\ DoomInv' /\ BirthInv' /\ NoFault'
  BY <1>1, <1>3, ReceiverFrame
<1>9. InboxInv'
  <2>1. /\ Len(<<>>) = 0
        /\ \A d \in Clients : sent[d] >= 0
    BY BoundsAssumption DEF TypeInv, TypeOK
  <2> QED  BY <1>1, <1>6, <2>1 DEF InboxInv
<1>10. JobInv'
  <2>1. ASSUME NEW job, Valid(job) PROVE Valid(job)'
    BY <1>1, <1>6, <2>1, NullIsNothing DEF Valid
  <2>2. ThreadHas(Receiver)'
    BY <1>3 DEF ThreadHas
  <2>3. ASSUME NEW u \in Threads \ {Receiver} PROVE ThreadHas(u)'
    <3>1. ThreadHas(u) /\ thread'[u] = thread[u]
      BY <1>3 DEF JobInv, Others
    <3>2. Valid(thread[u].job) => Valid(thread[u].job)'
      BY <2>1, <3>1 DEF Valid
    <3>3. thread[u].job.fd \in Fds /\ thread[u].job.client \in Clients
              /\ fdClient[thread[u].job.fd] = thread[u].job.client
              => fdClient'[thread[u].job.fd] = fdClient[thread[u].job.fd]
      BY <1>6, NullIsNothing
    <3> QED  BY <1>1, <3>1, <3>2, <3>3 DEF ThreadHas
  <2>4. (\A i \in 1..Len(incomingPackets) : Valid(incomingPackets[i]))'
    BY <1>1, <2>1 DEF JobInv
  <2>5. (\A i \in 1..Len(outgoingPackets) : Valid(outgoingPackets[i]))'
    BY <1>1, <2>1 DEF JobInv
  <2> QED  BY <2>2, <2>3, <2>4, <2>5 DEF JobInv
<1>11. OneAtATime'
  <2>1. ReceiversClient'
    BY <1>3 DEF ReceiversClient, NoJob, Disconnecting
  <2> QED  BY <1>1, <1>3, <1>6, <2>1, ReceiverOneAtATime DEF Waits
<1>12. EventInv'
  BY <1>1, <1>2, <1>3, <1>6, EventsKept
<1>13. BlankInv'
  <2>1. \A fd : Blank(fd)' <=> Blank(fd)
    BY <1>1 DEF Blank
  <2>2. ASSUME NEW fd \in Fds, LET c == fdClient'[fd]
                              IN  c = Null \/ Len(inbox'[c]) = sent[c]
        PROVE  Blank(fd)
    <3>1. CASE fdClient[fd] = Null
      BY <3>1 DEF BlankInv
    <3>2. CASE fdClient[fd] # Null
      BY <1>6, <2>2, <3>2 DEF BlankInv
    <3> QED  BY <3>1, <3>2
  <2>3. (\A fd \in Fds : LET c == fdClient[fd]
                       IN  c = Null \/ Len(inbox[c]) = sent[c] => Blank(fd))'
    BY <1>1, <2>1, <2>2
  <2>4. (\A t \in Threads : thread[t].pc = "close" => Blank(thread[t].job.fd))'
    BY <1>1, <1>3 DEF BlankInv, Blank, Others
  <2> QED  BY <1>3, <2>3, <2>4 DEF BlankInv
<1>14. UnknownInv'
  <2>1. \A fd \in Fds : playerLst[fd] # Null => fdClient[fd] # Null
    BY DEF BlankInv, Blank
  <2>2. \A w \in Workers : thread'[w] = thread[w]
    BY <1>3, Roles DEF Others
  <2> QED  BY <1>1, <1>6, <2>1, <2>2 DEF UnknownInv
<1> QED
  BY <1>7, <1>8, <1>9, <1>10, <1>11, <1>12, <1>13, <1>14 DEF Kept

-----------------------------------------------------------------------------
(* The receiver looks a player up, and reads                               *)

(* What lookups and reads have in common: the client of the first event is *)
(* there, and it waits.                                                    *)
LEMMA FirstEvent ==
    ASSUME IInv, events # <<>>, Head(events).fd \in Fds
    PROVE  LET fd == Head(events).fd
               c == fdClient[fd]
           IN  /\ c \in Clients /\ c # Null /\ Waits(c)
               /\ Head(events).hup => gone[c]
               /\ ~Requested(c) /\ ~Served(c) /\ ~Answered(c)
<1>1. Head(events) = events[1] /\ 1 \in 1..Len(events)
  BY HeadAndTail, TypesOfData DEF DataTypes
<1>2. LET fd == Head(events).fd
          c == fdClient[fd]
      IN  c # Null /\ Waits(c) /\ (Head(events).hup => gone[c])
  BY <1>1 DEF IInv, EventInv
<1>3. fdClient[Head(events).fd] \in Clients
  BY <1>2 DEF IInv, TypeInv, TypeOK
<1> QED  BY <1>2, <1>3 DEF IInv, OneAtATime

(* The main list, and then the temporary one: without torn lookups a       *)
(* player that is not found is in neither.                                 *)
LEMMA LookupKeeps ==
    ASSUME IInv, LookupMain \/ LookupTemp, Liberties = {}
    PROVE  Kept'
<1> USE DEF IInv, socketVars, clientVars, listVars, queueVars
<1> DEFINE fd == Head(events).fd
           c == fdClient[fd]
<1>1. /\ UNCHANGED <<socketVars, clientVars, player, listVars, queueVars,
                     events, received, fault>>
      /\ thread[Receiver].pc \in {"event", "lookup"} /\ events # <<>>
  BY DEF LookupMain, LookupTemp, StaysLocal, TypeInv, Stations
<1>2. fd \in Fds
  <2>1. CASE LookupMain
    <3>1. Head(events) \in EventRecords
      BY <1>1, HeadAndTail, TypesOfData DEF DataTypes
    <3> QED  BY <2>1, <3>1 DEF LookupMain, EventRecords
  <2>2. CASE LookupTemp
    BY <2>2 DEF LookupTemp, TypeInv, Stations
  <2> QED  BY <2>1, <2>2
<1>3. /\ c \in Clients /\ c # Null /\ Waits(c) /\ (Head(events).hup => gone[c])
      /\ ~Requested(c) /\ ~Served(c) /\ ~Answered(c)
  BY <1>1, <1>2, FirstEvent
<1>4. \/ Becomes(Receiver, "lookup") /\ playerLst[fd] = Null
      \/ \E p \in Players \cup {Null} :
            /\ LookedUp(fd, p)
            /\ p = Null => playerLst[fd] = Null /\ tempPlayerLst[fd] = Null
            /\ p # Null => p = playerLst[fd] \/ p = tempPlayerLst[fd]
  <2>1. CASE LookupMain
    BY <1>2, <2>1 DEF LookupMain, Found, TypeInv, TypeOK
  <2>2. CASE LookupTemp
    <3>1. playerLst[fd] = Null
      BY <2>2 DEF LookupTemp, BlankInv
    <3> QED  BY <1>2, <2>2, <3>1 DEF LookupTemp, Found, TypeInv, TypeOK
  <2> QED  BY <2>1, <2>2
<1> HIDE DEF fd, c
<1>5. /\ Others(Receiver)
      /\ \/ /\ thread'[Receiver].pc = "lookup" /\ playerLst[fd] = Null
            /\ thread'[Receiver].job = NoJob
         \/ \E p \in Players \cup {Null} :
               /\ thread'[Receiver].pc = IF Head(events).hup THEN "remove"
                                                             ELSE "read"
               /\ thread'[Receiver].job.player = p
               /\ thread'[Receiver].job.fd = fd
               /\ thread'[Receiver].job.client = c
               /\ p = Null => playerLst[fd] = Null /\ tempPlayerLst[fd] = Null
               /\ p # Null => p = playerLst[fd] \/ p = tempPlayerLst[fd]
  <2>1. CASE Becomes(Receiver, "lookup") /\ playerLst[fd] = Null
    <3>1. /\ \A u \in Threads \ {Receiver} : thread'[u] = thread[u]
          /\ thread'[Receiver].pc = "lookup"
          /\ thread'[Receiver].job = thread[Receiver].job
      BY <2>1, BecomesEffect, Roles DEF Positions
    <3>2. thread[Receiver].job = NoJob
      BY <1>1, Roles DEF JobInv, ThreadHas
    <3> QED  BY <2>1, <3>1, <3>2 DEF Others
  <2>2. ASSUME NEW p \in Players \cup {Null}, LookedUp(fd, p),
               p = Null => playerLst[fd] = Null /\ tempPlayerLst[fd] = Null,
               p # Null => p = playerLst[fd] \/ p = tempPlayerLst[fd]
        PROVE  <1>5
    BY <1>2, <2>2, LookedUpEffect DEF c
  <2> QED  BY <1>4, <2>1, <2>2
<1>6. thread'[Receiver].pc \in {"lookup", "read", "remove"}
  BY <1>5
<1>7. ListInv' /\ PlanInv' /\ DoomInv' /\ BirthInv' /\ NoFault'
  BY <1>1, <1>5, ReceiverFrame
<1>8. SocketInv' /\ InboxInv'
  BY <1>1 DEF SocketInv, InboxInv
<1>9. JobInv'
  <2>1. ASSUME NEW p \in Players, p = playerLst[fd] \/ p = tempPlayerLst[fd]
        PROVE  player[p].mem = "live" /\ player[p].fd = fd
    BY <1>2, <2>1, NullIsNothing DEF ListInv
  <2>2. fdClient[fd] = c
    BY DEF c
  <2>3. Receiver \in Threads
    BY Roles
  <2>4. ThreadHas(Receiver)'
    <3>1. CASE thread'[Receiver].job = NoJob /\ thread'[Receiver].pc = "lookup"
      BY <3>1 DEF ThreadHas
    <3>2. ASSUME NEW p \in Players \cup {Null},
                 thread'[Receiver].pc \in {"read", "remove"},
                 thread'[Receiver].job.player = p,
                 thread'[Receiver].job.fd = fd,
                 thread'[Receiver].job.client = c,
                 p # Null => p = playerLst[fd] \/ p = tempPlayerLst[fd]
          PROVE  ThreadHas(Receiver)'
      BY <1>1, <1>2, <1>3, <2>1, <2>2, <3>2 DEF ThreadHas, Valid
    <3> QED  BY <1>5, <3>1, <3>2
  <2> QED  BY <1>1, <1>5, <2>3, <2>4, JobsKept
<1>10. OneAtATime'
  <2>1. ReceiversClient'
    BY <1>1, <1>3, <1>5 DEF ReceiversClient, NoJob, Disconnecting, Waits
  <2> QED  BY <1>1, <1>5, <2>1, ReceiverOneAtATime DEF Waits
<1>11. EventInv'
  <2>1. thread'[Receiver].pc \in {"read"} \cup Disconnecting =>
            thread'[Receiver].job.fd = fd
    BY <1>5 DEF Disconnecting
  <2> QED  BY <1>1, <2>1 DEF EventInv, Waits, fd
<1>12. BlankInv'
  <2>1. \A gd : Blank(gd)' <=> Blank(gd)
    BY <1>1 DEF Blank
  <2>2. (\A gd \in Fds : LET d == fdClient[gd]
                       IN  d = Null \/ Len(inbox[d]) = sent[d] => Blank(gd))'
    BY <1>1, <2>1 DEF BlankInv
  <2>3. (\A t \in Threads : thread[t].pc = "close" => Blank(thread[t].job.fd))'
    <3>1. \A t \in Threads : thread'[t].pc = "close" => thread'[t] = thread[t]
      BY <1>5, <1>6 DEF Others
    <3> QED  BY <1>1, <3>1 DEF BlankInv, Blank
  <2>4. (LET gd == thread[Receiver].job.fd
         IN  thread[Receiver].job.player = Null =>
              /\ thread[Receiver].pc = "remove" => Blank(gd)
              /\ thread[Receiver].pc = "read" =>
                     playerLst[gd] = Null /\ tempPlayerLst[gd] = Null)'
    BY <1>1, <1>5 DEF Blank
  <2>5. thread'[Receiver].pc = "lookup" => playerLst'[Head(events').fd] = Null
    BY <1>1, <1>5 DEF fd
  <2> QED  BY <2>2, <2>3, <2>4, <2>5 DEF BlankInv
<1>13. UnknownInv'
  BY <1>1, <1>5, Roles DEF UnknownInv, Others
<1> QED
  BY <1>7, <1>8, <1>9, <1>10, <1>11, <1>12, <1>13 DEF Kept

(* Where the receiver is when it reads.                                    *)
LEMMA ReadingFrom ==
    ASSUME IInv, thread[Receiver].pc = "read"
    PROVE  LET fd == thread[Receiver].job.fd
               c == fdClient[fd]
               p == thread[Receiver].job.player
           IN  /\ fd \in Fds /\ c \in Clients /\ c # Null
               /\ thread[Receiver].job.client = c
               /\ events # <<>> /\ Head(events).fd = fd
               /\ Waits(c) /\ ~Requested(c) /\ ~Served(c) /\ ~Answered(c)
               /\ p = Null => playerLst[fd] = Null /\ tempPlayerLst[fd] = Null
               /\ p # Null => Valid(thread[Receiver].job)
<1> USE DEF IInv
<1>1. ThreadHas(Receiver) /\ Receiver \in Threads
  BY Roles DEF JobInv
<1>2. /\ thread[Receiver].job.client \in Clients
      /\ thread[Receiver].job.fd \in Fds
      /\ fdClient[thread[Receiver].job.fd] = thread[Receiver].job.client
      /\ thread[Receiver].job.player # Null => Valid(thread[Receiver].job)
  BY <1>1 DEF ThreadHas
<1>3. events # <<>> /\ Head(events).fd = thread[Receiver].job.fd
  BY DEF TypeInv, Stations, EventInv
<1>4. Waits(thread[Receiver].job.client)
  BY <1>2, NullIsNothing DEF OneAtATime
<1>5. thread[Receiver].job.player = Null =>
          /\ playerLst[thread[Receiver].job.fd] = Null
          /\ tempPlayerLst[thread[Receiver].job.fd] = Null
  BY DEF BlankInv
<1> QED  BY <1>2, <1>3, <1>4, <1>5, NullIsNothing DEF OneAtATime

(* The header is not there: the client has hung up, and is disconnected.   *)
LEMMA HeaderReadFailsKeeps ==
    ASSUME IInv, HeaderReadFails
    PROVE  Kept'
<1> USE DEF IInv, socketVars, clientVars, listVars, queueVars
<1> DEFINE fd == thread[Receiver].job.fd
           c == fdClient[fd]
           p == thread[Receiver].job.player
<1>1. /\ thread[Receiver].pc = "read" /\ (c # Null => gone[c])
      /\ Becomes(Receiver, "remove")
      /\ UNCHANGED <<socketVars, clientVars, player, listVars, queueVars,
                     events, received>>
      /\ IF p = Null THEN UNCHANGED fault ELSE Uses(p)
  BY DEF HeaderReadFails, StaysLocal
<1>2. /\ fd \in Fds /\ c \in Clients /\ c # Null
      /\ thread[Receiver].job.client = c /\ Head(events).fd = fd
      /\ p = Null => playerLst[fd] = Null /\ tempPlayerLst[fd] = Null
      /\ p # Null => Valid(thread[Receiver].job)
  BY <1>1, ReadingFrom
<1>3. UNCHANGED fault
  <2>1. p # Null => Live(p)
    BY <1>2, ValidTypes
  <2> QED  BY <1>1, <2>1 DEF Uses
<1> HIDE DEF fd, c, p
<1>4. /\ Others(Receiver) /\ thread'[Receiver].pc = "remove"
      /\ thread'[Receiver].job = thread[Receiver].job
  BY <1>1, BecomesEffect, Roles DEF Positions, Others
<1>5. ListInv' /\ PlanInv' /\ DoomInv' /\ BirthInv' /\ NoFault'
  BY <1>1, <1>3, <1>4, ReceiverFrame
<1>6. SocketInv' /\ InboxInv'
  BY <1>1 DEF SocketInv, InboxInv
<1>7. JobInv'
  <2>1. ThreadHas(Receiver)'
    BY <1>1, <1>2, <1>4 DEF ThreadHas, Valid, fd, c, p
  <2> QED  BY <1>1, <1>4, <2>1, JobsKept, Roles
<1>8. OneAtATime'
  <2>1. ReceiversClient'
    BY <1>1, <1>2, <1>4 DEF ReceiversClient, Waits
  <2> QED  BY <1>1, <1>4, <2>1, ReceiverOneAtATime DEF Waits
<1>9. EventInv'
  BY <1>1, <1>2, <1>4 DEF EventInv, Waits, fd
<1>10. BlankInv'
  <2>1. \A gd : Blank(gd)' <=> Blank(gd)
    BY <1>1 DEF Blank
  <2>2. (\A gd \in Fds : LET d == fdClient[gd]
                       IN  d = Null \/ Len(inbox[d]) = sent[d] => Blank(gd))'
    BY <1>1, <2>1 DEF BlankInv
  <2>3. (\A t \in Threads : thread[t].pc = "close" => Blank(thread[t].job.fd))'
    <3>1. \A t \in Threads : thread'[t].pc = "close" => thread'[t] = thread[t]
      BY <1>4 DEF Others
    <3> QED  BY <1>1, <3>1 DEF BlankInv, Blank
  <2>4. (LET gd == thread[Receiver].job.fd
         IN  thread[Receiver].job.player = Null =>
              /\ thread[Receiver].pc = "remove" => Blank(gd)
              /\ thread[Receiver].pc = "read" =>
                     playerLst[gd] = Null /\ tempPlayerLst[gd] = Null)'
    BY <1>1, <1>2, <1>4 DEF Blank, fd, p
  <2> QED  BY <1>4, <2>2, <2>3, <2>4 DEF BlankInv
<1>11. UnknownInv'
  BY <1>1, <1>4, Roles DEF UnknownInv, Others
<1> QED
  BY <1>5, <1>6, <1>7, <1>8, <1>9, <1>10, <1>11 DEF Kept

(* The next player has not been made before.                               *)
LEMMA NextPlayerIsNew ==
    ASSUME TypeInv, BirthInv, NEW p \in Players, p = NextPlayer
    PROVE  /\ player[p].mem = "unborn"
           /\ \A r : player' = [player EXCEPT ![p] = r] /\ r.mem # "unborn" =>
                 BirthInv'
<1>1. PICK n \in 0..MaxPlayer :
           {q \in Players : player[q].mem # "unborn"} = 1..n
  BY DEF BirthInv
<1>2. p = n + 1
  <2>1. Cardinality(1..n) = n
    BY FS_Interval, BoundsAssumption
  <2> QED  BY <1>1, <2>1 DEF NextPlayer
<1>3. player[p].mem = "unborn"
  BY <1>1, <1>2
<1>4. ASSUME NEW r, player' = [player EXCEPT ![p] = r], r.mem # "unborn"
      PROVE  BirthInv'
  <2>1. n + 1 \in 0..MaxPlayer /\ Players = 1..MaxPlayer
    BY <1>2, BoundsAssumption DEF Players
  <2>2. player'[p] = r /\ \A q \in Players \ {p} : player'[q] = player[q]
    BY <1>4 DEF TypeInv, TypeOK
  <2>3. \A q \in Players : player'[q].mem # "unborn" <=> q \in 1..(n + 1)
    <3>1. \A q \in Players : player[q].mem # "unborn" <=> q \in 1..n
      BY <1>1
    <3>2. \A q \in Players : q \in 1..(n + 1) <=> q \in 1..n \/ q = n + 1
      BY <2>1
    <3> QED  BY <1>2, <1>4, <2>2, <3>1, <3>2
  <2>4. {q \in Players : player'[q].mem # "unborn"} = 1..(n + 1)
    <3>1. 1..(n + 1) \subseteq Players
      BY <2>1, BoundsAssumption
    <3> QED  BY <2>3, <3>1
  <2> QED  BY <2>1, <2>4 DEF BirthInv
<1> QED  BY <1>3, <1>4

(* A read takes the only packet of a client of which nothing else is on    *)
(* its way, for the player it finds in a list, or makes one and puts it    *)
(* there.                                                                  *)
MakesPlayer(fd, p) ==
    /\ thread[Receiver].job.player = Null /\ tempPlayerLock = Null
    /\ player[p].mem = "unborn"
    /\ tempPlayerLst[fd] = Null /\ playerLst[fd] = Null
    /\ player' = [player EXCEPT ![p] = [mem |-> "live",
                                        state |-> "Handshake", fd |-> fd]]
    /\ tempPlayerLst' = [tempPlayerLst EXCEPT ![fd] = p]

FindsPlayer(fd, p) ==
    /\ thread[Receiver].job.player = p
    /\ tempPlayerLst[fd] = p \/ playerLst[fd] = p
    /\ player[p].mem = "live" /\ player[p].fd = fd
    /\ UNCHANGED <<player, tempPlayerLst>>

LEMMA ReadsKeep ==
    ASSUME IInv, NEW fd \in Fds, NEW p \in Players, NEW m \in Messages,
           Reads(fd, m), PlayerOf(fd, p), UNCHANGED playerLst
    PROVE  LET c == fdClient[fd]
           IN  /\ thread[Receiver].job.fd = fd
               /\ thread[Receiver].job.client = c
               /\ c \in Clients /\ c # Null
               /\ events # <<>> /\ Head(events).fd = fd
               /\ ~Requested(c) /\ ~Served(c) /\ ~Answered(c)
               /\ inbox[c] = <<m>> /\ inbox'[c] = <<>> /\ sent[c] # 0
               /\ gone[c] <=> m = "truncated"
               /\ \A d \in Clients \ {c} : inbox'[d] = inbox[d]
               /\ fault' = fault /\ BirthInv'
               /\ MakesPlayer(fd, p) \/ FindsPlayer(fd, p)
<1> USE DEF IInv
<1> DEFINE c == fdClient[fd]
           known == thread[Receiver].job.player
<1>1. /\ thread[Receiver].pc = "read" /\ fd = thread[Receiver].job.fd
      /\ c # Null /\ inbox[c] # <<>> /\ m = Head(inbox[c])
      /\ inbox' = [inbox EXCEPT ![c] = Tail(inbox[c])]
  BY DEF Reads
<1>2. /\ c \in Clients /\ thread[Receiver].job.client = c
      /\ events # <<>> /\ Head(events).fd = fd
      /\ ~Requested(c) /\ ~Served(c) /\ ~Answered(c)
      /\ known = Null => playerLst[fd] = Null /\ tempPlayerLst[fd] = Null
      /\ known # Null => Valid(thread[Receiver].job)
  BY <1>1, ReadingFrom
<1> HIDE DEF c
<1>3. /\ inbox[c] \in Seq(Messages) /\ Len(inbox[c]) <= 1
      /\ Len(inbox[c]) <= sent[c]
  BY <1>2 DEF InboxInv, TypeInv, TypeOK
<1>4. gone[c] <=> m = "truncated"
  BY <1>1, <1>2 DEF InboxInv
<1>5. /\ Len(inbox[c]) = 1 /\ inbox[c][1] = m /\ Tail(inbox[c]) = <<>>
  BY <1>1, <1>3, HeadAndTail
<1>6. inbox[c] = <<m>>
  BY <1>3, <1>5
<1>7. /\ inbox'[c] = <<>> /\ \A d \in Clients \ {c} : inbox'[d] = inbox[d]
  BY <1>1, <1>2, <1>5 DEF TypeInv, TypeOK
<1>8. sent[c] # 0
  BY <1>2, <1>3, <1>5 DEF TypeInv, TypeOK
<1>9. /\ MakesPlayer(fd, p) \/ FindsPlayer(fd, p)
      /\ fault' = fault /\ BirthInv'
  <2>1. CASE known # Null
    <3>1. /\ p = known /\ Uses(p) /\ UNCHANGED <<player, tempPlayerLst>>
      BY <2>1 DEF PlayerOf
    <3>2. player[p].mem = "live" /\ player[p].fd = fd /\ Live(p)
      BY <1>1, <1>2, <2>1, <3>1, ValidTypes
    <3>3. tempPlayerLst[fd] = p \/ playerLst[fd] = p
      <4>1. CASE tempPlayerLock # Null /\ thread[tempPlayerLock].job.player = p
        <5>1. tempPlayerLock \in Workers /\ thread[tempPlayerLock].pc = "run"
          BY <4>1 DEF ListInv, Moving, TypeInv, TypeOK
        <5>2. /\ thread[tempPlayerLock].job.fd = player[p].fd
              /\ thread[tempPlayerLock].job.client
                 = fdClient[thread[tempPlayerLock].job.fd]
          BY <4>1, <5>1, WorkersPlayer
        <5>3. Served(c)
          BY <3>2, <5>1, <5>2 DEF Served, c
        <5> QED  BY <1>2, <5>3
      <4>2. CASE ~(tempPlayerLock # Null
                   /\ thread[tempPlayerLock].job.player = p)
        BY <3>2, <4>2 DEF ListInv
      <4> QED  BY <4>1, <4>2
    <3>4. fault' = fault
      BY <3>1, <3>2 DEF Uses
    <3>5. BirthInv'
      BY <3>1, BirthKept
    <3> QED  BY <3>1, <3>2, <3>3, <3>4, <3>5 DEF FindsPlayer
  <2>2. CASE known = Null
    <3> DEFINE r == [mem |-> "live", state |-> "Handshake", fd |-> fd]
    <3>1. /\ tempPlayerLock = Null /\ UNCHANGED fault /\ p = NextPlayer
          /\ player' = [player EXCEPT ![p] = r]
          /\ tempPlayerLst' = [tempPlayerLst EXCEPT ![fd] = p]
      BY <2>2 DEF PlayerOf
    <3>2. r.mem # "unborn"
      OBVIOUS
    <3>3. player[p].mem = "unborn" /\ BirthInv'
      BY <3>1, <3>2, NextPlayerIsNew
    <3> QED  BY <1>2, <2>2, <3>1, <3>3 DEF MakesPlayer
  <2> QED  BY <2>1, <2>2
<1> QED  BY <1>1, <1>2, <1>4, <1>6, <1>7, <1>8, <1>9 DEF c

(* What both reads leave alone.                                            *)
LEMMA ReadFrame ==
    ASSUME IInv, Others(Receiver), NEW fd \in Fds, NEW p \in Players,
           MakesPlayer(fd, p) \/ FindsPlayer(fd, p),
           UNCHANGED <<playerLst, tempPlayerLock, outgoingPackets, fault>>
    PROVE  ListInv' /\ PlanInv' /\ DoomInv'
<1> USE DEF IInv
<1>1. CASE FindsPlayer(fd, p)
  BY <1>1, ReceiverFrame DEF FindsPlayer, listVars
<1>2. CASE MakesPlayer(fd, p)
  <2>1. /\ tempPlayerLock = Null /\ player[p].mem = "unborn"
        /\ tempPlayerLst[fd] = Null /\ playerLst[fd] = Null
        /\ player'[p].mem = "live" /\ player'[p].state = "Handshake"
        /\ player'[p].fd = fd /\ tempPlayerLst'[fd] = p
        /\ \A q \in Players \ {p} : player'[q] = player[q]
        /\ \A gd \in Fds \ {fd} : tempPlayerLst'[gd] = tempPlayerLst[gd]
    BY <1>2 DEF MakesPlayer, TypeInv, TypeOK
  <2>2. /\ \A w \in Workers : thread'[w] = thread[w]
        /\ thread'[Sender] = thread[Sender]
    BY Roles DEF Others
  <2>3. p # Null /\ \A gd \in Fds : /\ tempPlayerLst[gd] \in Players \cup {Null}
                                    /\ playerLst[gd] \in Players \cup {Null}
    BY NullIsNothing DEF TypeInv, TypeOK
  <2>4. ListInv'
    <3>1. \A w \in Workers : AboutToErase(w) => AboutToErase(w)'
      BY <2>2 DEF AboutToErase
    <3>2. \A gd \in Fds \ {fd} : tempPlayerLst'[gd] # Null =>
              LET q == tempPlayerLst'[gd]
              IN  /\ player'[q].mem = "live" /\ player'[q].fd = gd
                  /\ player'[q].state \in {"Handshake", "Status", "Login",
                                           "None"}
                  /\ player'[q].state = "Login" =>
                         \E w \in Workers : /\ thread'[w].job.player = q
                                            /\ AboutToErase(w)'
      BY <2>1, <2>2, <2>3, <3>1 DEF ListInv
    <3>3. \A gd \in Fds : playerLst[gd] # Null =>
              LET q == playerLst[gd]
              IN  /\ player'[q].mem = "live" /\ player'[q].fd = gd
                  /\ player'[q].state \in {"Login", "Configuration", "Play",
                                           "None"}
      BY <2>1, <2>3 DEF ListInv
    <3>4. \A gd \in Fds : tempPlayerLst'[gd] = Null \/ playerLst[gd] = Null
      BY <2>1 DEF ListInv
    <3>5. \A q \in Players : player'[q].mem = "live" =>
              /\ player'[q].fd \in Fds
              /\ \/ tempPlayerLst'[player'[q].fd] = q
                 \/ playerLst[player'[q].fd] = q
      <4>1. ASSUME NEW q \in Players \ {p}, player'[q].mem = "live"
            PROVE  /\ player'[q].fd \in Fds
                   /\ \/ tempPlayerLst'[player'[q].fd] = q
                      \/ playerLst[player'[q].fd] = q
        <5>1. player'[q] = player[q] /\ player[q].mem = "live"
          BY <2>1, <4>1
        <5>2. /\ player[q].fd \in Fds
              /\ \/ tempPlayerLst[player[q].fd] = q
                 \/ playerLst[player[q].fd] = q
          BY <2>1, <5>1 DEF ListInv
        <5>3. q # Null
          BY NullIsNothing
        <5> QED  BY <2>1, <5>1, <5>2, <5>3
      <4> QED  BY <2>1, <4>1
    <3>6. (\A gd \in Fds : tempPlayerLst[gd] # Null =>
              LET q == tempPlayerLst[gd]
              IN  /\ player[q].mem = "live" /\ player[q].fd = gd
                  /\ player[q].state \in {"Handshake", "Status", "Login",
                                          "None"}
                  /\ player[q].state = "Login" =>
                         \E w \in Workers : /\ thread[w].job.player = q
                                            /\ AboutToErase(w))'
      BY <2>1, <3>2
    <3> QED  BY <2>1, <3>3, <3>4, <3>5, <3>6 DEF ListInv
  <2>5. PlanInv'
    <3>1. ASSUME NEW w \in Workers, thread[w].pc = "run"
          PROVE  LET q == thread[w].job.player
                 IN  /\ player'[q] = player[q]
                     /\ tempPlayerLst'[player[q].fd]
                        = tempPlayerLst[player[q].fd]
      <4> DEFINE q == thread[w].job.player
      <4>1. /\ q \in Players /\ player[q].mem = "live" /\ player[q].fd \in Fds
            /\ tempPlayerLst[player[q].fd] = q \/ playerLst[player[q].fd] = q
               \/ tempPlayerLock = w
        BY <3>1, WorkersPlayer
      <4>2. q # p /\ q # Null /\ w # Null
        BY <2>1, <4>1, NullIsNothing
      <4>3. player[q].fd # fd
        BY <2>1, <4>1, <4>2
      <4> QED  BY <2>1, <4>1, <4>2, <4>3
    <3> QED  BY <2>2, <3>1 DEF PlanInv
  <2>6. DoomInv'
    <3>1. \A q \in Players : Doomed(q)' => Doomed(q) /\ q # p
      BY <2>1 DEF Doomed
    <3>2. /\ \A i \in 1..Len(outgoingPackets) :
                outgoingPackets[i].player \in Players
          /\ thread[Sender].pc \in {"send", "check"} =>
                thread[Sender].job.player \in Players
      BY Roles, ValidTypes DEF JobInv, ThreadHas
    <3>3. \A d : Served(d)' <=> Served(d)
      BY <2>2 DEF Served
    <3>4. (\A q \in Players : Doomed(q) =>
              \/ \E w \in Workers : thread[w].job.player = q
              \/ thread[Sender].job.player = q
              \/ \E i \in 1..Len(outgoingPackets) :
                    outgoingPackets[i].player = q)'
      BY <2>2, <3>1 DEF DoomInv
    <3>5. ASSUME NEW i \in 1..Len(outgoingPackets),
                 player'[outgoingPackets[i].player].mem = "live",
                 player'[outgoingPackets[i].player].state = "None"
          PROVE  LET d == outgoingPackets[i].client
                 IN  /\ ~Served(d) /\ thread[Sender].job.client # d
                     /\ \A j \in 1..Len(outgoingPackets) :
                           outgoingPackets[j].client = d => j = i
      BY <2>1, <3>2, <3>5 DEF DoomInv, Doomed
    <3>6. ASSUME thread[Sender].pc \in {"send", "check"},
                 player'[thread[Sender].job.player].mem = "live",
                 player'[thread[Sender].job.player].state = "None"
          PROVE  LET d == thread[Sender].job.client
                 IN  ~Served(d) /\ ~Has(outgoingPackets, d)
      BY <2>1, <3>2, <3>6 DEF DoomInv, Doomed
    <3>7. (\A i \in 1..Len(outgoingPackets) : Doomed(outgoingPackets[i].player) =>
              LET d == outgoingPackets[i].client
              IN  /\ ~Served(d) /\ thread[Sender].job.client # d
                  /\ \A j \in 1..Len(outgoingPackets) :
                        outgoingPackets[j].client = d => j = i)'
      BY <2>2, <3>5 DEF Served, Doomed
    <3>8. (thread[Sender].pc \in {"send", "check"} =>
              (Doomed(thread[Sender].job.player) =>
                  LET d == thread[Sender].job.client
                  IN  ~Served(d) /\ ~Has(outgoingPackets, d)))'
      BY <2>2, <3>6 DEF Served, Doomed, Has
    <3> QED  BY <3>4, <3>7, <3>8 DEF DoomInv
  <2> QED  BY <2>4, <2>5, <2>6
<1> QED  BY <1>1, <1>2

LEMMA ReadPlayers ==
    ASSUME IInv, NEW fd \in Fds, NEW p \in Players,
           MakesPlayer(fd, p) \/ FindsPlayer(fd, p),
           UNCHANGED <<fdClient, playerLst>>
    PROVE  /\ player'[p].mem = "live" /\ player'[p].fd = fd
           /\ \A q \in Players : player[q].mem = "live" =>
                 player'[q] = player[q]
           /\ \A q \in Players : player[q].mem = "deleted" =>
                 player'[q].mem = "deleted"
           /\ \A job : Valid(job) => Valid(job)'
           /\ \A gd \in Fds : Blank(gd) => Blank(gd)'
           /\ thread[Receiver].job.player = Null => Blank(fd)'
<1> USE DEF IInv
<1>1. CASE FindsPlayer(fd, p)
  <2>1. /\ player[p].mem = "live" /\ player[p].fd = fd
        /\ UNCHANGED <<player, tempPlayerLst>>
        /\ thread[Receiver].job.player # Null
    BY <1>1, NullIsNothing DEF FindsPlayer
  <2>2. \A job : Valid(job) => Valid(job)'
    BY <2>1 DEF Valid
  <2>3. \A gd \in Fds : Blank(gd) => Blank(gd)'
    BY <2>1 DEF Blank
  <2> QED  BY <2>1, <2>2, <2>3
<1>2. CASE MakesPlayer(fd, p)
  <2>1. /\ player[p].mem = "unborn" /\ playerLst[fd] = Null
        /\ player'[p].mem = "live" /\ player'[p].state = "Handshake"
        /\ player'[p].fd = fd /\ tempPlayerLst'[fd] = p
        /\ \A q \in Players \ {p} : player'[q] = player[q]
        /\ \A gd \in Fds \ {fd} : tempPlayerLst'[gd] = tempPlayerLst[gd]
    BY <1>2 DEF MakesPlayer, TypeInv, TypeOK
  <2>2. \A job : Valid(job) => Valid(job)'
    BY <2>1 DEF Valid
  <2>3. \A gd : gd = fd => Blank(gd)'
    BY <2>1 DEF Blank
  <2>4. ASSUME NEW gd \in Fds \ {fd}, Blank(gd) PROVE Blank(gd)'
    <3>1. tempPlayerLst[gd] # Null =>
              tempPlayerLst[gd] \in Players /\ tempPlayerLst[gd] # p
      BY <2>1 DEF ListInv, TypeInv, TypeOK
    <3> QED  BY <2>1, <2>4, <3>1 DEF Blank
  <2> QED  BY <2>1, <2>2, <2>3, <2>4
<1> QED  BY <1>1, <1>2

(* What the other threads have is not the player that is read for.         *)
LEMMA ReadOthers ==
    ASSUME IInv, NEW fd \in Fds, NEW p \in Players, Others(Receiver),
           MakesPlayer(fd, p) \/ FindsPlayer(fd, p),
           UNCHANGED <<fdClient, playerLst>>
    PROVE  \A u \in Threads \ {Receiver} : ThreadHas(u)'
<1> USE DEF IInv
<1>1. /\ \A q \in Players : player[q].mem = "deleted" =>
            player'[q].mem = "deleted"
      /\ \A job : Valid(job) => Valid(job)'
  BY ReadPlayers
<1>2. ASSUME NEW u \in Threads \ {Receiver} PROVE ThreadHas(u)'
  <2>1. /\ ThreadHas(u) /\ thread'[u] = thread[u]
        /\ thread[u].job.player \in Players \cup {Null}
    BY ThreadTypes DEF JobInv, Others, Jobs
  <2>2. Valid(thread[u].job) => Valid(thread[u].job)'
    BY <1>1, <2>1 DEF Valid
  <2> QED  BY <1>1, <2>1, <2>2 DEF ThreadHas
<1> QED  BY <1>2

(* The body is not there: the client has hung up.  A player made for this  *)
(* packet stays in the temporary list, in state Handshake.                 *)
LEMMA BodyReadFailsKeeps ==
    ASSUME IInv, BodyReadFails
    PROVE  Kept'
<1> USE DEF IInv, clientVars, listVars, queueVars
<1>1. PICK fd \in Fds, p \in Players :
          /\ Reads(fd, "truncated") /\ PlayerOf(fd, p)
          /\ Becomes(Receiver, "remove")
          /\ UNCHANGED <<link, backlog, edge, fdClient, clientVars, playerLst,
                         tempPlayerLock, queueVars, events, received>>
  BY DEF BodyReadFails
<1> DEFINE c == fdClient[fd]
<1>2. /\ thread[Receiver].job.fd = fd /\ thread[Receiver].job.client = c
      /\ c \in Clients /\ c # Null /\ Head(events).fd = fd
      /\ inbox[c] = <<"truncated">> /\ inbox'[c] = <<>> /\ sent[c] # 0
      /\ gone[c] /\ \A d \in Clients \ {c} : inbox'[d] = inbox[d]
      /\ fault' = fault /\ BirthInv'
      /\ MakesPlayer(fd, p) \/ FindsPlayer(fd, p)
  <2>1. "truncated" \in Messages
    BY DEF Messages
  <2> QED  BY <1>1, <2>1, ReadsKeep
<1> HIDE DEF c
<1>3. /\ Others(Receiver) /\ thread'[Receiver].pc = "remove"
      /\ thread'[Receiver].job = thread[Receiver].job
  BY <1>1, BecomesEffect, Roles DEF Positions, Others
<1>4. /\ player'[p].mem = "live" /\ player'[p].fd = fd
      /\ \A q \in Players : player[q].mem = "live" => player'[q] = player[q]
      /\ \A job : Valid(job) => Valid(job)'
      /\ \A gd \in Fds : Blank(gd) => Blank(gd)'
      /\ thread[Receiver].job.player = Null => Blank(fd)'
  BY <1>1, <1>2, ReadPlayers
<1>5. \A gd \in Fds : fdClient[gd] # Null /\ gd # fd =>
          fdClient[gd] \in Clients \ {c}
  BY <1>2 DEF SocketInv, TypeInv, TypeOK, c
<1>6. ListInv' /\ PlanInv' /\ DoomInv' /\ NoFault'
  BY <1>1, <1>2, <1>3, ReadFrame DEF NoFault
<1>7. SocketInv'
  BY <1>1 DEF SocketInv
<1>8. InboxInv'
  <2>1. /\ Len(<<>>) = 0
        /\ \A d \in Clients : sent[d] >= 0
    BY BoundsAssumption DEF TypeInv, TypeOK
  <2> QED  BY <1>1, <1>2, <2>1 DEF InboxInv
<1>9. JobInv'
  <2>1. \A u \in Threads \ {Receiver} : ThreadHas(u)'
    BY <1>1, <1>2, <1>3, ReadOthers
  <2>2. ThreadHas(Receiver)'
    <3>1. thread[Receiver].pc = "read"
      BY <1>1 DEF Reads
    <3>2. thread[Receiver].job.player # Null => Valid(thread[Receiver].job)
      BY <3>1, ReadingFrom
    <3>3. thread[Receiver].job.player # Null =>
              Valid(thread[Receiver].job)'
      BY <1>3, <1>4, <3>2 DEF Valid
    <3> QED  BY <1>1, <1>2, <1>3, <3>3 DEF ThreadHas, c
  <2>3. (\A i \in 1..Len(incomingPackets) : Valid(incomingPackets[i]))'
    BY <1>1, <1>4 DEF JobInv
  <2>4. (\A i \in 1..Len(outgoingPackets) : Valid(outgoingPackets[i]))'
    BY <1>1, <1>4 DEF JobInv
  <2> QED  BY <2>1, <2>2, <2>3, <2>4 DEF JobInv
<1>10. OneAtATime'
  <2>1. ReceiversClient'
    BY <1>1, <1>2, <1>3 DEF ReceiversClient, Waits
  <2>2. \A d \in Clients : inbox'[d] # <<>> \/ gone'[d] \/ sent'[d] = 0 =>
            Waits(d) \/ sent[d] = 0
    BY <1>1, <1>2 DEF Waits
  <2> QED  BY <1>1, <1>3, <2>1, <2>2, ReceiverOneAtATime
<1>11. EventInv'
  <2>1. \A i \in 1..Len(events) : events[i].fd \in Fds =>
            LET d == fdClient[events[i].fd]
            IN  d # Null /\ (inbox'[d] # <<>> \/ gone'[d])
    BY <1>1, <1>2, <1>5 DEF EventInv, Waits, c
  <2> QED  BY <1>1, <1>2, <1>3, <2>1 DEF EventInv, Waits
<1>12. BlankInv'
  <2>1. ASSUME NEW gd \in Fds, LET d == fdClient[gd]
                               IN  d = Null \/ Len(inbox'[d]) = sent[d]
        PROVE  Blank(gd)
    <3>1. gd # fd
      <4>1. Len(<<>>) = 0
        OBVIOUS
      <4> QED  BY <1>2, <2>1, <4>1 DEF c
    <3> QED  BY <1>2, <1>5, <2>1, <3>1 DEF BlankInv
  <2>2. (\A gd \in Fds : LET d == fdClient[gd]
                       IN  d = Null \/ Len(inbox[d]) = sent[d] => Blank(gd))'
    BY <1>1, <1>4, <2>1
  <2>3. ASSUME NEW u \in Threads, thread'[u].pc = "close",
               NEW gd, gd = thread'[u].job.fd
        PROVE  Blank(gd)'
    <3>1. thread'[u] = thread[u]
      BY <1>3, <2>3 DEF Others
    <3>2. gd \in Fds /\ Blank(gd)
      BY <2>3, <3>1 DEF JobInv, ThreadHas, BlankInv
    <3> QED  BY <1>4, <3>2
  <2>4. (\A t \in Threads : thread[t].pc = "close" => Blank(thread[t].job.fd))'
    BY <2>3 DEF Blank
  <2>5. thread'[Receiver].job.player = Null => Blank(fd)'
    BY <1>3, <1>4
  <2>6. (LET gd == thread[Receiver].job.fd
         IN  thread[Receiver].job.player = Null =>
              /\ thread[Receiver].pc = "remove" => Blank(gd)
              /\ thread[Receiver].pc = "read" =>
                     playerLst[gd] = Null /\ tempPlayerLst[gd] = Null)'
    BY <1>2, <1>3, <2>5 DEF Blank
  <2> QED  BY <1>3, <2>2, <2>4, <2>6 DEF BlankInv
<1>13. UnknownInv'
  <2>1. \A gd \in Fds : playerLst[gd] # Null =>
            player'[playerLst[gd]] = player[playerLst[gd]]
    BY <1>4 DEF ListInv, TypeInv, TypeOK
  <2>2. \A i \in 1..Len(incomingPackets) :
            player'[incomingPackets[i].player]
            = player[incomingPackets[i].player]
    BY <1>4, ValidTypes DEF JobInv
  <2>3. \A w \in Workers : /\ thread'[w] = thread[w]
                           /\ thread[w].pc = "route" =>
                                 player'[thread[w].job.player]
                                 = player[thread[w].job.player]
    BY <1>3, <1>4, WorkersPlayer, Roles DEF Others
  <2>4. <<>> # <<"unknown">>
    OBVIOUS
  <2>5. \A gd \in Fds : fdClient[gd] # Null
                /\ inbox'[fdClient[gd]] = <<"unknown">> =>
            inbox[fdClient[gd]] = <<"unknown">>
    BY <1>2, <1>5, <2>4 DEF c
  <2> QED  BY <1>1, <2>1, <2>2, <2>3, <2>5 DEF UnknownInv
<1> QED
  BY <1>2, <1>6, <1>7, <1>8, <1>9, <1>10, <1>11, <1>12, <1>13 DEF Kept

(* The packet is read, and queued for the workers.                         *)
LEMMA PacketReadKeeps ==
    ASSUME IInv, PacketRead
    PROVE  Kept'
<1> USE DEF IInv, clientVars, listVars, queueVars
<1>1. PICK fd \in Fds, p \in Players, m \in Messages \ {"truncated"} :
          /\ Reads(fd, m) /\ PlayerOf(fd, p)
          /\ incomingPackets' =
                 Append(incomingPackets, [player |-> p, fd |-> fd,
                            client |-> fdClient[fd], content |-> m])
          /\ AfterEvent(Receiver)
          /\ UNCHANGED <<link, backlog, edge, fdClient, clientVars, playerLst,
                         tempPlayerLock, outgoingPackets, received>>
  BY DEF PacketRead
<1> DEFINE c == fdClient[fd]
           job == [player |-> p, fd |-> fd, client |-> c, content |-> m]
           n == Len(incomingPackets)
<1>2. /\ thread[Receiver].job.fd = fd /\ thread[Receiver].job.client = c
      /\ c \in Clients /\ c # Null /\ events # <<>> /\ Head(events).fd = fd
      /\ ~Requested(c) /\ ~Served(c) /\ ~Answered(c)
      /\ inbox[c] = <<m>> /\ inbox'[c] = <<>> /\ sent[c] # 0
      /\ ~gone[c] /\ \A d \in Clients \ {c} : inbox'[d] = inbox[d]
      /\ fault' = fault /\ BirthInv'
      /\ MakesPlayer(fd, p) \/ FindsPlayer(fd, p)
  BY <1>1, ReadsKeep
<1>3. /\ Others(Receiver) /\ thread'[Receiver].job = NoJob
      /\ thread'[Receiver].pc \in {"idle", "event"}
      /\ events' = Tail(events)
  BY <1>1, <1>2, AfterEventEffect, Roles DEF Others
<1>4. /\ player'[p].mem = "live" /\ player'[p].fd = fd
      /\ \A q \in Players : player[q].mem = "live" => player'[q] = player[q]
      /\ \A any : Valid(any) => Valid(any)'
      /\ \A gd \in Fds : Blank(gd) => Blank(gd)'
  BY <1>1, <1>2, ReadPlayers
<1>5. /\ job \in Jobs /\ job.player = p /\ job.fd = fd /\ job.client = c
      /\ job.content = m
  BY <1>2 DEF Jobs
<1> HIDE DEF c, job
<1>6. /\ n \in Nat /\ Len(incomingPackets') = n + 1
      /\ \A i \in 1..n : incomingPackets'[i] = incomingPackets[i]
      /\ incomingPackets'[n + 1] = job
      /\ \A i \in 1..(n + 1) : i \in 1..n \/ i = n + 1
  <2>1. incomingPackets' = Append(incomingPackets, job)
    BY <1>1 DEF job, c
  <2> QED  BY <1>5, <2>1, Appended, TypesOfData DEF DataTypes
<1> HIDE DEF n
<1>7. \A gd \in Fds : fdClient[gd] # Null /\ gd # fd =>
          fdClient[gd] \in Clients \ {c}
  BY <1>2 DEF SocketInv, TypeInv, TypeOK, c
<1>8. /\ \A w \in Workers : thread'[w] = thread[w]
      /\ thread'[Sender] = thread[Sender]
  BY <1>3, Roles DEF Others
<1>9. ListInv' /\ PlanInv' /\ DoomInv' /\ NoFault'
  BY <1>1, <1>2, <1>3, ReadFrame DEF NoFault
<1>10. SocketInv'
  BY <1>1 DEF SocketInv
<1>11. InboxInv'
  <2>1. /\ Len(<<>>) = 0
        /\ \A d \in Clients : sent[d] >= 0
    BY BoundsAssumption DEF TypeInv, TypeOK
  <2> QED  BY <1>1, <1>2, <2>1 DEF InboxInv
<1>12. JobInv'
  <2>1. \A u \in Threads \ {Receiver} : ThreadHas(u)'
    BY <1>1, <1>2, <1>3, ReadOthers
  <2>2. ThreadHas(Receiver)'
    BY <1>3 DEF ThreadHas
  <2>3. ASSUME NEW x, x = job PROVE Valid(x)'
    <3>1. x.client = c /\ x.fd = fd /\ x.player = p
      BY <1>5, <2>3
    <3>2. fdClient'[fd] = c
      BY <1>1 DEF c
    <3> QED  BY <1>2, <1>4, <3>1, <3>2 DEF Valid
  <2>4. ASSUME NEW i \in 1..Len(incomingPackets') PROVE Valid(incomingPackets[i])'
    <3>1. CASE i \in 1..n
      <4>1. Valid(incomingPackets[i]) /\ incomingPackets'[i] = incomingPackets[i]
        BY <1>6, <3>1 DEF JobInv, n
      <4> QED  BY <1>4, <4>1 DEF Valid
    <3>2. CASE i = n + 1
      <4>1. \A x : x = job => Valid(x)'
        BY <2>3
      <4> QED  BY <1>6, <3>2, <4>1 DEF Valid
    <3> QED  BY <1>6, <3>1, <3>2
  <2>5. (\A i \in 1..Len(outgoingPackets) : Valid(outgoingPackets[i]))'
    BY <1>1, <1>4 DEF JobInv
  <2>6. (\A i \in 1..Len(incomingPackets) : Valid(incomingPackets[i]))'
    BY <2>4
  <2> QED  BY <2>1, <2>2, <2>5, <2>6 DEF JobInv
<1>13. OneAtATime'
  <2>1. /\ \A d : Requested(d)' <=> Requested(d) \/ d = c
        /\ \A d : Served(d)' <=> Served(d)
        /\ \A d : Answered(d)' <=> Answered(d)
    <3>1. \A d : Requested(d)' <=> Requested(d) \/ d = c
      <4>1. ASSUME NEW d
            PROVE  (\E i \in 1..(n + 1) : incomingPackets'[i].client = d)
                   <=> (\E i \in 1..n : incomingPackets[i].client = d) \/ d = c
        BY <1>5, <1>6
      <4> QED  BY <1>6, <4>1 DEF Requested, Has, n
    <3>2. \A d : Served(d)' <=> Served(d)
      BY <1>8 DEF Served
    <3>3. \A d : Answered(d)' <=> Answered(d)
      BY <1>1, <1>8 DEF Answered, Has
    <3> QED  BY <3>1, <3>2, <3>3
  <2>2. \A d \in Clients : inbox'[d] # <<>> \/ gone'[d] \/ sent'[d] = 0 =>
            d # c /\ (Waits(d) \/ sent[d] = 0)
    BY <1>1, <1>2 DEF Waits
  <2>3. (\A d \in Clients :
            /\ Waits(d) \/ sent[d] = 0 =>
                   ~Requested(d) /\ ~Served(d) /\ ~Answered(d)
            /\ Requested(d) => ~Served(d) /\ ~Answered(d))'
    BY <1>2, <2>1, <2>2 DEF OneAtATime, Waits
  <2>4. (\A i, j \in 1..Len(incomingPackets) :
            incomingPackets[i].client = incomingPackets[j].client => i = j)'
    <3>1. \A i \in 1..n : incomingPackets[i].client # c
      BY <1>2 DEF Requested, Has, n
    <3>2. \A i, j \in 1..n :
              incomingPackets[i].client = incomingPackets[j].client => i = j
      BY DEF OneAtATime, n
    <3> QED  BY <1>5, <1>6, <3>1, <3>2
  <2>5. (\A v, w \in Workers :
            thread[v].job.client = thread[w].job.client =>
                v = w \/ thread[v].job.client = Null)'
    BY <1>8 DEF OneAtATime
  <2>6. (\A w \in Workers : Unanswered(w) => ~Answered(thread[w].job.client))'
    BY <1>1, <1>8 DEF OneAtATime, Unanswered, Answered, Has
  <2>7. (thread[Sender].pc \in Disconnecting =>
            LET d == thread[Sender].job.client
            IN  ~Has(outgoingPackets, d) /\ ~Served(d))'
    BY <1>1, <1>8 DEF OneAtATime, Has, Served
  <2>8. (/\ thread[Receiver].job.client # Null =>
                Waits(thread[Receiver].job.client)
         /\ thread[Receiver].pc \in Disconnecting =>
                gone[thread[Receiver].job.client])'
    BY <1>3 DEF NoJob, Disconnecting
  <2> QED  BY <2>3, <2>4, <2>5, <2>6, <2>7, <2>8 DEF OneAtATime
<1>14. EventInv'
  BY <1>1, <1>2, <1>3, <1>7, EventsKept
<1>15. BlankInv'
  <2>1. ASSUME NEW gd \in Fds, LET d == fdClient[gd]
                               IN  d = Null \/ Len(inbox'[d]) = sent[d]
        PROVE  Blank(gd)
    <3>1. gd # fd
      <4>1. Len(<<>>) = 0
        OBVIOUS
      <4> QED  BY <1>2, <2>1, <4>1 DEF c
    <3> QED  BY <1>2, <1>7, <2>1, <3>1 DEF BlankInv
  <2>2. (\A gd \in Fds : LET d == fdClient[gd]
                       IN  d = Null \/ Len(inbox[d]) = sent[d] => Blank(gd))'
    BY <1>1, <1>4, <2>1
  <2>3. ASSUME NEW u \in Threads, thread'[u].pc = "close",
               NEW gd, gd = thread'[u].job.fd
        PROVE  Blank(gd)'
    <3>1. thread'[u] = thread[u]
      BY <1>3, <2>3 DEF Others
    <3>2. gd \in Fds /\ Blank(gd)
      BY <2>3, <3>1 DEF JobInv, ThreadHas, BlankInv
    <3> QED  BY <1>4, <3>2
  <2>4. (\A t \in Threads : thread[t].pc = "close" => Blank(thread[t].job.fd))'
    BY <2>3 DEF Blank
  <2> QED  BY <1>3, <2>2, <2>4 DEF BlankInv
<1>16. UnknownInv'
  <2>1. \A gd \in Fds : playerLst[gd] # Null =>
            player'[playerLst[gd]] = player[playerLst[gd]]
    BY <1>4 DEF ListInv, TypeInv, TypeOK
  <2>2. \A i \in 1..n : player'[incomingPackets[i].player]
                        = player[incomingPackets[i].player]
    BY <1>4, ValidTypes DEF JobInv, n
  <2>3. \A w \in Workers : thread[w].pc = "route" =>
            player'[thread[w].job.player] = player[thread[w].job.player]
    BY <1>4, WorkersPlayer
  <2>4. <<>> # <<"unknown">>
    OBVIOUS
  <2>5. \A gd \in Fds : fdClient[gd] # Null
                /\ inbox'[fdClient[gd]] = <<"unknown">> =>
            inbox[fdClient[gd]] = <<"unknown">>
    BY <1>2, <1>7, <2>4 DEF c
  <2>6. m = "unknown" => player'[p].state # "Configuration"
    <3>1. CASE MakesPlayer(fd, p)
      BY <3>1 DEF MakesPlayer, TypeInv, TypeOK
    <3>2. CASE FindsPlayer(fd, p) /\ playerLst[fd] = p
      <4>1. m = "unknown" => inbox[c] = <<"unknown">>
        BY <1>2
      <4> QED
        BY <1>2, <3>2, <4>1, NullIsNothing DEF FindsPlayer, UnknownInv, c
    <3>3. CASE FindsPlayer(fd, p) /\ tempPlayerLst[fd] = p
      BY <3>3, NullIsNothing DEF FindsPlayer, ListInv
    <3> QED  BY <1>2, <3>1, <3>2, <3>3 DEF FindsPlayer
  <2>7. ASSUME NEW i \in 1..(n + 1), incomingPackets'[i].content = "unknown"
        PROVE  player'[incomingPackets'[i].player].state # "Configuration"
    <3>1. CASE i \in 1..n
      BY <1>6, <2>2, <2>7, <3>1 DEF UnknownInv, n
    <3>2. CASE i = n + 1
      BY <1>5, <1>6, <2>6, <2>7, <3>2
    <3> QED  BY <1>6, <3>1, <3>2
  <2>8. (\A i \in 1..Len(incomingPackets) :
            incomingPackets[i].content = "unknown" =>
                player[incomingPackets[i].player].state # "Configuration")'
    BY <1>6, <2>7
  <2> QED  BY <1>1, <1>8, <2>1, <2>3, <2>5, <2>8, ZenonT(30) DEF UnknownInv
<1> QED
  BY <1>2, <1>9, <1>10, <1>11, <1>12, <1>13, <1>14, <1>15, <1>16 DEF Kept

-----------------------------------------------------------------------------
(* The steps of the sender                                                 *)

LEMMA SenderFrame ==
    ASSUME IInv, Others(Sender), thread'[Sender].pc # "close",
           UNCHANGED <<socketVars, clientVars, player, listVars,
                       incomingPackets, events, fault>>
    PROVE  /\ SocketInv' /\ InboxInv' /\ ListInv' /\ PlanInv' /\ EventInv'
           /\ BlankInv' /\ UnknownInv' /\ BirthInv' /\ NoFault'
<1> USE DEF IInv, socketVars, clientVars, listVars
<1>1. /\ \A w \in Workers : thread'[w] = thread[w]
      /\ thread'[Receiver] = thread[Receiver]
  BY Roles DEF Others
<1>2. SocketInv' /\ InboxInv'
  BY DEF SocketInv, InboxInv
<1>3. ListInv'
  <2>1. tempPlayerLock # Null =>
            thread'[tempPlayerLock] = thread[tempPlayerLock]
    BY <1>1 DEF TypeInv, TypeOK
  <2>2. \A w \in Workers : AboutToErase(w) => AboutToErase(w)'
    BY <1>1 DEF AboutToErase
  <2> QED  BY <1>1, <2>1, <2>2 DEF ListInv, Moving
<1>4. PlanInv'
  BY <1>1 DEF PlanInv
<1>5. EventInv'
  BY <1>1 DEF EventInv, Waits
<1>6. BlankInv'
  <2>1. \A gd : Blank(gd)' <=> Blank(gd)
    BY DEF Blank
  <2>2. (\A fd \in Fds : LET c == fdClient[fd]
                       IN  c = Null \/ Len(inbox[c]) = sent[c] => Blank(fd))'
    BY <2>1 DEF BlankInv
  <2>3. (\A t \in Threads : thread[t].pc = "close" => Blank(thread[t].job.fd))'
    <3>1. \A t \in Threads : thread'[t].pc = "close" => thread'[t] = thread[t]
      BY DEF Others
    <3> QED  BY <3>1 DEF BlankInv, Blank
  <2>4. (LET gd == thread[Receiver].job.fd
         IN  thread[Receiver].job.player = Null =>
              /\ thread[Receiver].pc = "remove" => Blank(gd)
              /\ thread[Receiver].pc = "read" =>
                     playerLst[gd] = Null /\ tempPlayerLst[gd] = Null)'
    BY <1>1 DEF BlankInv, Blank
  <2>5. (thread[Receiver].pc = "lookup" => playerLst[Head(events).fd] = Null)'
    BY <1>1 DEF BlankInv
  <2> QED  BY <2>2, <2>3, <2>4, <2>5 DEF BlankInv
<1>7. UnknownInv'
  BY <1>1 DEF UnknownInv
<1>8. BirthInv' /\ NoFault'
  BY BirthKept DEF NoFault
<1> QED  BY <1>2, <1>3, <1>4, <1>5, <1>6, <1>7, <1>8

LEMMA SenderOneAtATime ==
    ASSUME IInv, Others(Sender), UNCHANGED <<inbox, clientVars, incomingPackets>>,
           \A d \in Clients : Answered(d)' => Answered(d),
           thread'[Sender].pc \in Disconnecting =>
               LET c == thread'[Sender].job.client
               IN  ~Has(outgoingPackets', c) /\ ~Served(c)
    PROVE  OneAtATime'
<1> USE DEF IInv, clientVars
<1>1. /\ \A w \in Workers : thread'[w] = thread[w]
      /\ thread'[Receiver] = thread[Receiver]
  BY Roles DEF Others
<1>2. /\ \A d : Requested(d)' <=> Requested(d)
      /\ \A d : Served(d)' <=> Served(d)
      /\ \A d : Waits(d)' <=> Waits(d)
  BY <1>1 DEF Requested, Served, Has, Waits
<1>3. (\A c \in Clients :
          /\ Waits(c) \/ sent[c] = 0 =>
                 ~Requested(c) /\ ~Served(c) /\ ~Answered(c)
          /\ Requested(c) => ~Served(c) /\ ~Answered(c))'
  BY <1>2 DEF OneAtATime
<1>4. (\A w \in Workers : Unanswered(w) => ~Answered(thread[w].job.client))'
  <2>1. ASSUME NEW w \in Workers, Unanswered(w),
               NEW d, d = thread[w].job.client
        PROVE  ~Answered(d)'
    <3>1. thread[w].pc \notin {"idle", "event", "lookup"}
      BY <2>1 DEF Unanswered, Disconnecting
    <3>2. d \in Clients
      BY <2>1, <3>1, Roles DEF JobInv, ThreadHas
    <3> QED  BY <2>1, <3>2 DEF OneAtATime
  <2>2. \A w \in Workers : Unanswered(w)' <=> Unanswered(w)
    BY <1>1 DEF Unanswered
  <2> QED  BY <1>1, <2>1, <2>2 DEF Answered, Has
<1>5. (/\ \A i, j \in 1..Len(incomingPackets) :
             incomingPackets[i].client = incomingPackets[j].client => i = j
       /\ \A v, w \in Workers :
             thread[v].job.client = thread[w].job.client =>
                 v = w \/ thread[v].job.client = Null)'
  BY <1>1 DEF OneAtATime
<1>6. (/\ thread[Receiver].job.client # Null =>
              Waits(thread[Receiver].job.client)
       /\ thread[Receiver].pc \in Disconnecting =>
              gone[thread[Receiver].job.client])'
  BY <1>1 DEF OneAtATime, Waits
<1>7. (thread[Sender].pc \in Disconnecting =>
          LET c == thread[Sender].job.client
          IN  ~Has(outgoingPackets, c) /\ ~Served(c))'
  BY <1>1 DEF Has, Served
<1> QED  BY <1>3, <1>4, <1>5, <1>6, <1>7 DEF OneAtATime

LEMMA SenderPopsKeeps ==
    ASSUME IInv, SenderPops
    PROVE  Kept'
<1> USE DEF IInv, socketVars, clientVars, listVars, queueVars
<1> DEFINE job == Head(outgoingPackets)
           rest == Tail(outgoingPackets)
           c == job.client
<1>1. /\ job \in Jobs /\ job = outgoingPackets[1]
      /\ Len(outgoingPackets) \in Nat \ {0}
      /\ Len(rest) = Len(outgoingPackets) - 1
      /\ \A i \in 1..Len(rest) : rest[i] = outgoingPackets[i + 1]
  BY HeadAndTail, TypesOfData DEF SenderPops, DataTypes
<1>2. /\ thread' = [thread EXCEPT ![Sender] = [Idle EXCEPT !.pc = "send",
                                                          !.job = job]]
      /\ outgoingPackets' = rest /\ thread[Sender].pc = "idle"
      /\ UNCHANGED <<socketVars, clientVars, player, listVars, events,
                     received, fault, incomingPackets>>
  BY DEF SenderPops, QueueStep
<1> HIDE DEF job, rest
<1>3. /\ Others(Sender) /\ thread'[Sender].pc = "send"
      /\ thread'[Sender].job = job
  BY <1>1, <1>2, TakenEffect, Roles DEF Positions
<1>4. thread[Sender].job = NoJob
  BY <1>2, Roles DEF JobInv, ThreadHas
<1>5. /\ SocketInv' /\ InboxInv' /\ ListInv' /\ PlanInv' /\ EventInv'
      /\ BlankInv' /\ UnknownInv' /\ BirthInv' /\ NoFault'
  BY <1>2, <1>3, SenderFrame
<1>6. /\ Valid(job) /\ c \in Clients /\ c # Null /\ job.player \in Players
      /\ \A i \in 1..Len(rest) : Valid(rest[i])
  <2>1. Valid(job) /\ \A i \in 1..Len(rest) : Valid(rest[i])
    BY <1>1 DEF JobInv
  <2> QED  BY <2>1, ValidTypes
<1>7. \A w \in Workers : thread'[w] = thread[w]
  BY <1>3, Roles DEF Others
<1> HIDE DEF c
<1>8. JobInv'
  <2>1. ASSUME NEW any, Valid(any) PROVE Valid(any)'
    BY <1>2, <2>1 DEF Valid
  <2>2. ThreadHas(Sender)'
    <3>1. ASSUME NEW any, any = job PROVE Valid(any)'
      BY <1>6, <2>1, <3>1
    <3>2. thread'[Sender].job.player # Null
      BY <1>3, <1>6, NullIsNothing
    <3> QED  BY <1>3, <3>1, <3>2 DEF ThreadHas, Valid
  <2>3. \A u \in Threads \ {Sender} : ThreadHas(u)'
    BY <1>2, <1>3, ThreadHasKept DEF Others
  <2>4. (\A i \in 1..Len(incomingPackets) : Valid(incomingPackets[i]))'
    BY <1>2, <2>1 DEF JobInv
  <2>5. ASSUME NEW i \in 1..Len(outgoingPackets') PROVE Valid(outgoingPackets[i])'
    <3>1. Valid(rest[i]) /\ outgoingPackets'[i] = rest[i]
      BY <1>2, <1>6, <2>5
    <3> QED  BY <2>1, <3>1 DEF Valid
  <2>6. (\A i \in 1..Len(outgoingPackets) : Valid(outgoingPackets[i]))'
    BY <2>5
  <2> QED  BY <2>2, <2>3, <2>4, <2>6 DEF JobInv
<1>9. OneAtATime'
  <2>1. ASSUME NEW d PROVE Has(rest, d) \/ d = c => Has(outgoingPackets, d)
    <3>1. CASE d = c
      BY <1>1, <3>1 DEF Has, c
    <3>2. ASSUME NEW i \in 1..Len(rest), rest[i].client = d
          PROVE  Has(outgoingPackets, d)
      <4>1. i + 1 \in 1..Len(outgoingPackets)
        BY <1>1
      <4> QED  BY <1>1, <3>2, <4>1 DEF Has
    <3> QED  BY <3>1, <3>2 DEF Has
  <2>2. \A d \in Clients : Answered(d)' => Answered(d)
    BY <1>2, <1>3, <2>1 DEF Answered, Has, c
  <2>3. thread'[Sender].pc \notin Disconnecting
    BY <1>3 DEF Disconnecting
  <2> QED  BY <1>2, <1>3, <2>2, <2>3, SenderOneAtATime
<1>10. DoomInv'
  <2>1. \A q : Doomed(q)' <=> Doomed(q)
    BY <1>2 DEF Doomed
  <2>2. \A d : Served(d)' <=> Served(d)
    BY <1>7 DEF Served
  <2>3. ASSUME NEW q \in Players, Doomed(q)
        PROVE  \/ \E w \in Workers : thread'[w].job.player = q
               \/ thread'[Sender].job.player = q
               \/ \E i \in 1..Len(rest) : rest[i].player = q
    <3>1. CASE \E w \in Workers : thread[w].job.player = q
      BY <1>7, <3>1
    <3>2. thread[Sender].job.player # q
      BY <1>4, NullIsNothing DEF NoJob
    <3>3. ASSUME NEW i \in 1..Len(outgoingPackets),
                 outgoingPackets[i].player = q, i # 1
          PROVE  \E k \in 1..Len(rest) : rest[k].player = q
      <4>1. i - 1 \in 1..Len(rest) /\ (i - 1) + 1 = i
        BY <1>1, <3>3
      <4>2. rest[i - 1] = outgoingPackets[i]
        BY <1>1, <4>1
      <4> QED  BY <3>3, <4>1, <4>2
    <3>4. CASE outgoingPackets[1].player = q
      BY <1>1, <1>3, <3>4
    <3> QED  BY <2>3, <3>1, <3>2, <3>3, <3>4 DEF DoomInv
  <2>4. ASSUME NEW i \in 1..Len(rest), Doomed(rest[i].player)
        PROVE  LET d == rest[i].client
               IN  /\ ~Served(d) /\ c # d
                   /\ \A j \in 1..Len(rest) : rest[j].client = d => j = i
    <3>1. /\ i + 1 \in 1..Len(outgoingPackets) /\ i + 1 # 1
          /\ 1 \in 1..Len(outgoingPackets)
          /\ outgoingPackets[i + 1] = rest[i]
      BY <1>1
    <3>2. LET d == rest[i].client
          IN  /\ ~Served(d)
              /\ \A j \in 1..Len(outgoingPackets) :
                    outgoingPackets[j].client = d => j = i + 1
      BY <2>4, <3>1 DEF DoomInv
    <3>3. c # rest[i].client
      BY <1>1, <3>1, <3>2 DEF c
    <3>4. ASSUME NEW j \in 1..Len(rest), rest[j].client = rest[i].client
          PROVE  j = i
      <4>1. j + 1 \in 1..Len(outgoingPackets) /\ outgoingPackets[j + 1] = rest[j]
        BY <1>1
      <4>2. j + 1 = i + 1
        BY <3>2, <3>4, <4>1
      <4> QED  BY <1>1, <4>2
    <3> QED  BY <3>2, <3>3, <3>4
  <2>5. ASSUME Doomed(job.player) PROVE ~Served(c) /\ ~Has(rest, c)
    <3>1. /\ ~Served(c)
          /\ \A j \in 1..Len(outgoingPackets) :
                outgoingPackets[j].client = c => j = 1
      BY <1>1, <2>5 DEF DoomInv, c
    <3>2. ASSUME NEW j \in 1..Len(rest), rest[j].client = c PROVE FALSE
      <4>1. /\ j + 1 \in 1..Len(outgoingPackets) /\ j + 1 # 1
            /\ outgoingPackets[j + 1] = rest[j]
        BY <1>1
      <4> QED  BY <3>1, <3>2, <4>1
    <3> QED  BY <3>1, <3>2 DEF Has
  <2>6. (\A q \in Players : Doomed(q) =>
            \/ \E w \in Workers : thread[w].job.player = q
            \/ thread[Sender].job.player = q
            \/ \E i \in 1..Len(outgoingPackets) :
                  outgoingPackets[i].player = q)'
    BY <1>2, <2>1, <2>3
  <2>7. (\A i \in 1..Len(outgoingPackets) : Doomed(outgoingPackets[i].player) =>
            LET d == outgoingPackets[i].client
            IN  /\ ~Served(d) /\ thread[Sender].job.client # d
                /\ \A j \in 1..Len(outgoingPackets) :
                      outgoingPackets[j].client = d => j = i)'
    BY <1>2, <1>3, <1>7, <2>4 DEF Served, Doomed, c
  <2>8. (thread[Sender].pc \in {"send", "check"} =>
            (Doomed(thread[Sender].job.player) =>
                LET d == thread[Sender].job.client
                IN  ~Served(d) /\ ~Has(outgoingPackets, d)))'
    BY <1>2, <1>3, <1>7, <2>5 DEF Served, Doomed, Has, c
  <2> QED  BY <2>6, <2>7, <2>8 DEF DoomInv
<1> QED  BY <1>5, <1>8, <1>9, <1>10 DEF Kept

(* The sender keeps its packet, and goes on to the next position.          *)
LEMMA SenderMovesKeep ==
    ASSUME IInv, Others(Sender), thread'[Sender].job = thread[Sender].job,
           UNCHANGED <<socketVars, clientVars, player, listVars, queueVars,
                       events, fault>>,
           \/ thread[Sender].pc = "send" /\ thread'[Sender].pc = "check"
           \/ /\ thread[Sender].pc = "check" /\ thread'[Sender].pc = "remove"
              /\ Doomed(thread[Sender].job.player)
    PROVE  Kept'
<1> USE DEF IInv, socketVars, clientVars, listVars, queueVars
<1> DEFINE c == thread[Sender].job.client
<1>1. \A w \in Workers : thread'[w] = thread[w]
  BY Roles DEF Others
<1>2. /\ SocketInv' /\ InboxInv' /\ ListInv' /\ PlanInv' /\ EventInv'
      /\ BlankInv' /\ UnknownInv' /\ BirthInv' /\ NoFault'
  BY SenderFrame
<1>3. JobInv'
  <2>1. Valid(thread[Sender].job) /\ thread[Sender].job.player # Null
    BY Roles DEF JobInv, ThreadHas
  <2>2. ThreadHas(Sender)'
    BY <2>1 DEF ThreadHas, Valid
  <2> QED  BY <2>2, JobsKept, Roles
<1>4. OneAtATime'
  <2>1. \A d \in Clients : Answered(d)' => Answered(d)
    BY DEF Answered, Has
  <2>2. thread'[Sender].pc \in Disconnecting =>
            ~Has(outgoingPackets, c) /\ ~Served(c)
    BY DEF Disconnecting, DoomInv
  <2> QED  BY <2>1, <2>2, SenderOneAtATime DEF Has
<1>5. DoomInv'
  <2>1. (\A q \in Players : Doomed(q) =>
            \/ \E w \in Workers : thread[w].job.player = q
            \/ thread[Sender].job.player = q
            \/ \E i \in 1..Len(outgoingPackets) :
                  outgoingPackets[i].player = q)'
    BY <1>1 DEF DoomInv, Doomed
  <2>2. (\A i \in 1..Len(outgoingPackets) : Doomed(outgoingPackets[i].player) =>
            LET d == outgoingPackets[i].client
            IN  /\ ~Served(d) /\ thread[Sender].job.client # d
                /\ \A j \in 1..Len(outgoingPackets) :
                      outgoingPackets[j].client = d => j = i)'
    BY <1>1 DEF DoomInv, Served, Doomed
  <2>3. (thread[Sender].pc \in {"send", "check"} =>
            (Doomed(thread[Sender].job.player) =>
                LET d == thread[Sender].job.client
                IN  ~Served(d) /\ ~Has(outgoingPackets, d)))'
    BY <1>1 DEF DoomInv, Served, Doomed, Has
  <2> QED  BY <2>1, <2>2, <2>3 DEF DoomInv
<1> QED  BY <1>2, <1>3, <1>4, <1>5 DEF Kept

LEMMA SendKeeps ==
    ASSUME IInv, Send
    PROVE  Kept'
<1>1. /\ thread[Sender].pc = "send" /\ Becomes(Sender, "check")
      /\ UNCHANGED <<socketVars, clientVars, player, listVars, queueVars,
                     events, fault>>
  BY DEF Send
<1>2. /\ Others(Sender) /\ thread'[Sender].pc = "check"
      /\ thread'[Sender].job = thread[Sender].job
  BY <1>1, BecomesEffect, Roles DEF Positions, Others, IInv
<1> QED  BY <1>1, <1>2, SenderMovesKeep

(* A player left in state None is the sender's to disconnect.              *)
LEMMA CheckStateKeeps ==
    ASSUME IInv, CheckState
    PROVE  Kept'
<1> USE DEF IInv, socketVars, clientVars, listVars, queueVars
<1> DEFINE p == thread[Sender].job.player
<1>1. /\ thread[Sender].pc = "check" /\ Uses(p)
      /\ UNCHANGED <<socketVars, clientVars, player, listVars, queueVars,
                     events, received>>
  BY DEF CheckState, StaysLocal
<1>2. /\ Valid(thread[Sender].job) /\ Live(p) /\ p \in Players
      /\ player[p].mem = "live"
  <2>1. ThreadHas(Sender)
    BY Roles DEF JobInv
  <2>2. Valid(thread[Sender].job)
    BY <1>1, <2>1, Roles DEF ThreadHas
  <2> QED  BY <2>2, ValidTypes
<1>3. UNCHANGED fault
  BY <1>1, <1>2 DEF Uses
<1> HIDE DEF p
<1>4. CASE player[p].state = "None"
  <2>1. Becomes(Sender, "remove")
    BY <1>4 DEF CheckState, p
  <2>2. /\ Others(Sender) /\ thread'[Sender].pc = "remove"
        /\ thread'[Sender].job = thread[Sender].job
    BY <2>1, BecomesEffect, Roles DEF Positions, Others
  <2>3. Doomed(p)
    BY <1>2, <1>4 DEF Doomed
  <2> QED  BY <1>1, <1>3, <2>2, <2>3, SenderMovesKeep DEF p
<1>5. CASE player[p].state # "None"
  <2>1. thread' = [thread EXCEPT ![Sender] = Idle]
    BY <1>5 DEF CheckState, p
  <2>2. Others(Sender) /\ thread'[Sender] = Idle
    BY <2>1, IdleEffect, Roles
  <2>3. /\ thread'[Sender].pc = "idle" /\ thread'[Sender].job = NoJob
        /\ NoJob.client = Null /\ NoJob.player = Null
    BY <2>2 DEF Idle, NoJob
  <2>4. \A w \in Workers : thread'[w] = thread[w]
    BY <2>2, Roles DEF Others
  <2>5. /\ SocketInv' /\ InboxInv' /\ ListInv' /\ PlanInv' /\ EventInv'
        /\ BlankInv' /\ UnknownInv' /\ BirthInv' /\ NoFault'
    BY <1>1, <1>3, <2>2, <2>3, SenderFrame
  <2>6. JobInv'
    <3>1. ThreadHas(Sender)'
      BY <2>3 DEF ThreadHas
    <3> QED  BY <1>1, <2>2, <3>1, JobsKept, Roles
  <2>7. OneAtATime'
    <3>1. \A d \in Clients : Answered(d)' => Answered(d)
      BY <1>1, <2>3, NullIsNothing DEF Answered, Has
    <3>2. thread'[Sender].pc \notin Disconnecting
      BY <2>3 DEF Disconnecting
    <3> QED  BY <1>1, <2>2, <3>1, <3>2, SenderOneAtATime
  <2>8. DoomInv'
    <3>1. ~Doomed(p)
      BY <1>5 DEF Doomed
    <3>2. (\A q \in Players : Doomed(q) =>
              \/ \E w \in Workers : thread[w].job.player = q
              \/ thread[Sender].job.player = q
              \/ \E i \in 1..Len(outgoingPackets) :
                    outgoingPackets[i].player = q)'
      <4>1. \A q \in Players : Doomed(q) =>
                \/ \E w \in Workers : thread'[w].job.player = q
                \/ \E i \in 1..Len(outgoingPackets) :
                      outgoingPackets[i].player = q
        BY <2>4, <3>1 DEF DoomInv, p
      <4> QED  BY <1>1, <4>1 DEF Doomed
    <3>3. (\A i \in 1..Len(outgoingPackets) :
              Doomed(outgoingPackets[i].player) =>
                LET d == outgoingPackets[i].client
                IN  /\ ~Served(d) /\ thread[Sender].job.client # d
                    /\ \A j \in 1..Len(outgoingPackets) :
                          outgoingPackets[j].client = d => j = i)'
      <4>1. \A i \in 1..Len(outgoingPackets) :
                outgoingPackets[i].client # Null
        BY ValidTypes DEF JobInv
      <4> QED  BY <1>1, <2>3, <2>4, <4>1 DEF DoomInv, Served, Doomed
    <3>4. (thread[Sender].pc \in {"send", "check"} =>
              (Doomed(thread[Sender].job.player) =>
                  LET d == thread[Sender].job.client
                  IN  ~Served(d) /\ ~Has(outgoingPackets, d)))'
      BY <2>3
    <3> QED  BY <3>2, <3>3, <3>4 DEF DoomInv
  <2> QED  BY <2>5, <2>6, <2>7, <2>8 DEF Kept
<1> QED  BY <1>4, <1>5

-----------------------------------------------------------------------------
(* The invariant and what follows from it                                  *)

LEMMA InvariantInit == Init => IInv
<1> SUFFICES ASSUME Init PROVE IInv
  OBVIOUS
<1>1. TypeInv
  BY TypeInit
<1>2. /\ \A t \in Threads : thread[t] = Idle
      /\ \A fd \in Fds : /\ fdClient[fd] = Null /\ playerLst[fd] = Null
                         /\ tempPlayerLst[fd] = Null
      /\ \A c \in Clients : /\ inbox[c] = <<>> /\ sent[c] = 0
                            /\ ~gone[c]
      /\ \A p \in Players : player[p].mem = "unborn"
      /\ tempPlayerLock = Null /\ backlog = <<>> /\ incomingPackets = <<>>
      /\ outgoingPackets = <<>> /\ events = <<>> /\ fault = "none"
  BY DEF Init
<1>3. /\ Idle.pc = "idle" /\ Idle.job = NoJob /\ NoJob.client = Null
      /\ NoJob.player = Null /\ 1..Len(<<>>) = {} /\ Len(<<>>) = 0
  BY DEF Idle, NoJob
<1>4. /\ \A w \in Workers : thread[w].pc = "idle" /\ thread[w].job = NoJob
      /\ thread[Receiver].pc = "idle" /\ thread[Receiver].job = NoJob
      /\ thread[Sender].pc = "idle" /\ thread[Sender].job = NoJob
  BY <1>2, <1>3, Roles
<1>5. SocketInv /\ InboxInv /\ EventInv
  BY <1>2, <1>3, <1>4 DEF SocketInv, InboxInv, EventInv, Disconnecting
<1>6. JobInv
  BY <1>2, <1>3 DEF JobInv, ThreadHas
<1>7. OneAtATime
  <2>1. \A c \in Clients : ~Requested(c) /\ ~Served(c) /\ ~Answered(c)
    BY <1>2, <1>3, <1>4, NullIsNothing
    DEF Requested, Served, Answered, Has
  <2> QED
    BY <1>2, <1>3, <1>4, <2>1 DEF OneAtATime, Unanswered, Disconnecting
<1>8. ListInv /\ PlanInv /\ DoomInv
  BY <1>2, <1>3, <1>4 DEF ListInv, PlanInv, DoomInv, Doomed
<1>9. BlankInv /\ UnknownInv
  BY <1>2, <1>3, <1>4 DEF BlankInv, Blank, UnknownInv
<1>10. BirthInv /\ NoFault
  <2>1. {p \in Players : player[p].mem # "unborn"} = 1..0 /\ 0 \in 0..MaxPlayer
    BY <1>2, BoundsAssumption
  <2> QED  BY <1>2, <2>1 DEF BirthInv, NoFault
<1> QED
  BY <1>1, <1>5, <1>6, <1>7, <1>8, <1>9, <1>10 DEF IInv

LEMMA InvariantFrame ==
    ASSUME IInv, UNCHANGED vars
    PROVE  Kept'
<1> USE DEF IInv, vars, socketVars, clientVars, listVars, queueVars
<1>1. Others(Receiver)
  BY DEF Others
<1>2. ListInv' /\ PlanInv' /\ DoomInv' /\ BirthInv' /\ NoFault'
  BY <1>1, ReceiverFrame
<1>3. SocketInv' /\ InboxInv' /\ EventInv' /\ UnknownInv'
  BY DEF SocketInv, InboxInv, EventInv, Waits, UnknownInv
<1>4. JobInv'
  BY DEF JobInv, ThreadHas, Valid
<1>5. OneAtATime'
  BY DEF OneAtATime, Waits, Requested, Served, Answered, Has, Unanswered
<1>6. BlankInv'
  BY DEF BlankInv, Blank
<1> QED  BY <1>2, <1>3, <1>4, <1>5, <1>6 DEF Kept

LEMMA DisconnectKeeps ==
    ASSUME IInv, NEW t \in Threads, Disconnect(t)
    PROVE  Kept'
BY RemoveBeginsKeeps, RemoveEndsKeeps, CloseSocketKeeps DEF Disconnect

LEMMA ClientKeeps ==
    ASSUME IInv, NEW c \in Clients, ClientStep(c), Liberties = {}
    PROVE  Kept'
BY ConnectKeeps, HangUpKeeps, SendMessageKeeps DEF ClientStep

LEMMA ReceiverKeeps ==
    ASSUME IInv, ReceiverStep, Liberties = {}
    PROVE  Kept'
BY EpollWaitKeeps, AcceptKeeps, LookupKeeps, PacketReadKeeps,
   BodyReadFailsKeeps, HeaderReadFailsKeeps, DisconnectKeeps, Roles
DEF ReceiverStep

LEMMA WorkerKeeps ==
    ASSUME IInv, NEW w \in Workers, WorkerStep(w)
    PROVE  Kept'
BY WorkerPopsKeeps, RouteKeeps, SetPlayerStateKeeps, EraseTempKeeps,
   InsertMainKeeps, QueueReplyKeeps, ReturnsSendKeeps, ReturnsKeeps,
   DisconnectKeeps, Roles
DEF WorkerStep

LEMMA SenderKeeps ==
    ASSUME IInv, SenderStep
    PROVE  Kept'
BY SenderPopsKeeps, SendKeeps, CheckStateKeeps, DisconnectKeeps, Roles
DEF SenderStep

LEMMA InvariantStep ==
    ASSUME IInv, [Next]_vars, Liberties = {}
    PROVE  IInv'
<1>1. TypeInv'
  BY TypeStep DEF IInv
<1>2. Kept'
  <2>1. CASE UNCHANGED vars
    BY <2>1, InvariantFrame
  <2>2. CASE Next
    BY <2>2, ClientKeeps, ReceiverKeeps, WorkerKeeps, SenderKeeps DEF Next
  <2> QED  BY <2>1, <2>2
<1> QED  BY <1>1, <1>2 DEF IInv, Kept

(* Without liberties every state is one of ConnectionsInvariant: who waits,*)
(* who serves and who answers a client exclude each other, and what is     *)
(* left of a handler fits the state of its player.                         *)
THEOREM InvariantHolds ==
    ASSUME Liberties = {}
    PROVE  Spec => []IInv
<1>1. Init => IInv
  BY InvariantInit
<1>2. IInv /\ [Next]_vars => IInv'
  BY InvariantStep
<1> QED  BY <1>1, <1>2, PTL DEF Spec

-----------------------------------------------------------------------------
(* The safety properties of Connections                                    *)

(* No player is used or deleted after it has been deleted, although the    *)
(* receiver, the workers and the sender share raw pointers to it.          *)
THEOREM NoPlayerIsUsedAfterDelete ==
    ASSUME Liberties = {}
    PROVE  Spec => []NoFault
<1>1. IInv => NoFault
  BY DEF IInv
<1> QED  BY <1>1, InvariantHolds, PTL

(* A reply goes to the client that asked, although its packet keeps only   *)
(* the number of a descriptor.                                             *)
LEMMA RepliesAreValid == IInv => RepliesReachTheirClient
<1> SUFFICES ASSUME IInv PROVE RepliesReachTheirClient
  OBVIOUS
<1>1. \A i \in 1..Len(outgoingPackets) :
          fdClient[outgoingPackets[i].fd] = outgoingPackets[i].client
  BY DEF IInv, JobInv, Valid
<1>2. DOMAIN outgoingPackets = 1..Len(outgoingPackets)
  BY TypesOfData, LenProperties DEF IInv, DataTypes
<1>3. \A job \in ToSet(outgoingPackets) : fdClient[job.fd] = job.client
  BY <1>1, <1>2 DEF ToSet
<1>4. thread[Sender].pc = "send" =>
          fdClient[thread[Sender].job.fd] = thread[Sender].job.client
  BY Roles DEF IInv, JobInv, ThreadHas
<1> QED  BY <1>3, <1>4 DEF RepliesReachTheirClient

THEOREM RepliesAreForTheirClient ==
    ASSUME Liberties = {}
    PROVE  Spec => []RepliesReachTheirClient
BY RepliesAreValid, InvariantHolds, PTL

(* The lists hold the live players, each under its descriptor, and no      *)
(* other.                                                                  *)
LEMMA ListsAreRight == IInv => ListsHoldTheLivePlayers
<1> SUFFICES ASSUME IInv PROVE ListsHoldTheLivePlayers
  OBVIOUS
<1>1. ASSUME NEW fd \in Fds
      PROVE  /\ \A p \in {tempPlayerLst[fd], playerLst[fd]} \ {Null} :
                   Live(p) /\ player[p].fd = fd
             /\ tempPlayerLst[fd] = Null \/ playerLst[fd] = Null
  BY DEF IInv, ListInv, Live
<1>2. ASSUME NEW p \in Players, Live(p)
      PROVE  \/ tempPlayerLst[player[p].fd] = p
             \/ playerLst[player[p].fd] = p
             \/ /\ tempPlayerLock # Null
                /\ thread[tempPlayerLock].job.player = p
  BY <1>2 DEF IInv, ListInv, Live
<1> QED  BY <1>1, <1>2 DEF ListsHoldTheLivePlayers

THEOREM ListsAlwaysHoldTheLivePlayers ==
    ASSUME Liberties = {}
    PROVE  Spec => []ListsHoldTheLivePlayers
BY ListsAreRight, InvariantHolds, PTL

(* Those who are counted as online have begun to log in.                   *)
LEMMA ListsAndStates == IInv => OnlineMeansLoggedIn
<1> SUFFICES ASSUME IInv PROVE OnlineMeansLoggedIn
  OBVIOUS
<1>1. ASSUME NEW fd \in Fds
      PROVE  /\ playerLst[fd] # Null =>
                   player[playerLst[fd]].state \notin {"Handshake", "Status"}
             /\ tempPlayerLst[fd] # Null =>
                   player[tempPlayerLst[fd]].state
                       \notin {"Configuration", "Play"}
  BY DEF IInv, ListInv
<1> QED  BY <1>1 DEF OnlineMeansLoggedIn

THEOREM OnlinePlayersHaveLoggedIn ==
    ASSUME Liberties = {}
    PROVE  Spec => []OnlineMeansLoggedIn
BY ListsAndStates, InvariantHolds, PTL

(* The first packet of a connection is a handshake, on whatever descriptor.*)
THEOREM ConnectionsStartInHandshake ==
    ASSUME Liberties = {}
    PROVE  Spec => []NewConnectionStartsInHandshake
<1>1. IInv => NewConnectionStartsInHandshake
  BY DEF IInv, BlankInv, Blank, NewConnectionStartsInHandshake
<1> QED  BY <1>1, InvariantHolds, PTL

-----------------------------------------------------------------------------
(* A player in state None is in one place.                                 *)

\* The threads and the packets of a queue that have p.
Holders(p) == {t \in Threads : thread[t].job.player = p}
Places(queue, p) == {i \in DOMAIN queue : queue[i].player = p}

(* Whoever has the player has a packet of the client of its descriptor.    *)
LEMMA HoldersClient ==
    ASSUME IInv, NEW p \in Players, Doomed(p)
    PROVE  LET c == fdClient[player[p].fd]
           IN  /\ \A t \in Threads : thread[t].job.player = p =>
                     /\ thread[t].job.client = c /\ Valid(thread[t].job)
                     /\ thread[t].pc
                            \notin {"idle", "event", "lookup", "close"}
               /\ \A i \in 1..Len(incomingPackets) :
                     incomingPackets[i].player = p =>
                         incomingPackets[i].client = c
               /\ \A i \in 1..Len(outgoingPackets) :
                     outgoingPackets[i].player = p =>
                         outgoingPackets[i].client = c /\ c # Null
<1> USE DEF IInv
<1>1. player[p].mem = "live" /\ p # Null
  BY NullIsNothing DEF Doomed
<1>2. ASSUME NEW t \in Threads, thread[t].job.player = p
      PROVE  /\ thread[t].pc \notin {"idle", "event", "lookup", "close"}
             /\ Valid(thread[t].job)
             /\ thread[t].job.client = fdClient[player[p].fd]
  <2>1. /\ thread[t].pc \notin {"idle", "event", "lookup", "close"}
        /\ Valid(thread[t].job)
    BY <1>1, <1>2 DEF JobInv, ThreadHas, NoJob
  <2> QED  BY <1>2, <2>1 DEF Valid
<1>3. \A i \in 1..Len(incomingPackets) : incomingPackets[i].player = p =>
          incomingPackets[i].client = fdClient[player[p].fd]
  BY DEF JobInv, Valid
<1>4. \A i \in 1..Len(outgoingPackets) : outgoingPackets[i].player = p =>
          /\ outgoingPackets[i].client = fdClient[player[p].fd]
          /\ outgoingPackets[i].client # Null
  BY ValidTypes DEF JobInv, Valid
<1> QED  BY <1>2, <1>3, <1>4

(* A worker whose player is in state None will queue no reply any more     *)
(* but the one it returns, and no earlier one is on its way.               *)
LEMMA DoomedIsUnanswered ==
    ASSUME IInv, NEW w \in Workers, Doomed(thread[w].job.player),
           thread[w].job.player \in Players
    PROVE  Unanswered(w)
<1> USE DEF IInv
<1>1. /\ player[thread[w].job.player].state = "None"
      /\ thread[w].pc \notin {"idle", "event", "lookup", "close"}
  BY HoldersClient, Roles DEF Doomed
<1>2. thread[w].pc \in {"route", "run"} \cup Disconnecting
  BY <1>1 DEF TypeInv, Stations
<1>3. CASE thread[w].pc = "run"
  <2> DEFINE todo == thread[w].todo
             result == thread[w].result
  <2>1. ~Promoting("None", todo, result)
    BY DEF Promoting
  <2>2. ~ChangingState("None", todo, result)
    BY DEF ChangingState, Moves
  <2>3. tempPlayerLock # w
    BY <1>1, NullIsNothing DEF ListInv, Moving
  <2>4. Replying("None", todo, result)
    BY <1>1, <1>3, <2>1, <2>2, <2>3, PlanOf
  <2>5. result # "ok"
    BY <2>4 DEF Replying
  <2> QED  BY <1>3, <2>5 DEF Unanswered
<1>4. CASE thread[w].pc \in {"route"} \cup Disconnecting
  BY <1>4 DEF Unanswered
<1> QED  BY <1>2, <1>3, <1>4

LEMMA DoomedIsInOnePlace ==
    ASSUME IInv, NEW p \in Players, Doomed(p)
    PROVE  /\ Places(incomingPackets, p) = {}
           /\ \/ /\ \E t \in Threads : Holders(p) = {t}
                 /\ Places(outgoingPackets, p) = {}
              \/ /\ Holders(p) = {}
                 /\ \E i : Places(outgoingPackets, p) = {i}
<1> USE DEF IInv
<1> DEFINE c == fdClient[player[p].fd]
<1>1. /\ \A t \in Threads : thread[t].job.player = p =>
            /\ thread[t].job.client = c /\ Valid(thread[t].job)
            /\ thread[t].pc \notin {"idle", "event", "lookup", "close"}
      /\ \A i \in 1..Len(incomingPackets) : incomingPackets[i].player = p =>
            incomingPackets[i].client = c
      /\ \A i \in 1..Len(outgoingPackets) : outgoingPackets[i].player = p =>
            outgoingPackets[i].client = c /\ c # Null
  BY HoldersClient
<1>2. /\ DOMAIN incomingPackets = 1..Len(incomingPackets)
      /\ DOMAIN outgoingPackets = 1..Len(outgoingPackets)
  BY TypesOfData, LenProperties DEF DataTypes
<1>3. c \in Clients /\ c # Null
  <2>1. player[p].fd \in Fds
    BY DEF ListInv, Doomed
  <2>2. c # Null
    BY <1>1, Roles, ValidTypes DEF DoomInv
  <2> QED  BY <2>1, <2>2 DEF TypeInv, TypeOK
<1> HIDE DEF c
<1>4. Served(c) \/ Answered(c)
  BY <1>1, Roles DEF DoomInv, Served, Answered, Has
<1>5. ~Requested(c) /\ thread[Receiver].job.client # c
  BY <1>3, <1>4 DEF OneAtATime
<1>6. Places(incomingPackets, p) = {}
  BY <1>1, <1>2, <1>5 DEF Places, Requested, Has
<1>7. ASSUME NEW w \in Workers, thread[w].job.player = p
      PROVE  Holders(p) = {w} /\ Places(outgoingPackets, p) = {}
  <2>1. w \in Threads /\ thread[w].job.client = c /\ Unanswered(w)
    BY <1>1, <1>7, DoomedIsUnanswered, Roles
  <2>2. ~Answered(c)
    BY <2>1 DEF OneAtATime
  <2>3. \A v \in Workers : thread[v].job.client = c => v = w
    BY <1>3, <2>1 DEF OneAtATime
  <2>4. \A t \in Threads : thread[t].job.player = p => t = w
    BY <1>1, <1>5, <2>2, <2>3, Roles DEF Answered
  <2>5. Places(outgoingPackets, p) = {}
    BY <1>1, <1>2, <2>2 DEF Places, Answered, Has
  <2> QED  BY <1>7, <2>1, <2>4, <2>5 DEF Holders
<1>8. ASSUME thread[Sender].job.player = p
      PROVE  Holders(p) = {Sender} /\ Places(outgoingPackets, p) = {}
  <2>1. Sender \in Threads /\ thread[Sender].job.client = c
    BY <1>1, <1>8, Roles
  <2>2. ~Served(c) /\ ~Has(outgoingPackets, c)
    <3>1. thread[Sender].pc \in {"send", "check"} \cup Disconnecting
      BY <1>1, <1>8, <2>1 DEF TypeInv, Stations
    <3>2. CASE thread[Sender].pc \in {"send", "check"}
      BY <1>8, <2>1, <3>2 DEF DoomInv
    <3>3. CASE thread[Sender].pc \in Disconnecting
      BY <2>1, <3>3 DEF OneAtATime
    <3> QED  BY <3>1, <3>2, <3>3
  <2>3. \A t \in Threads : thread[t].job.player = p => t = Sender
    BY <1>1, <1>5, <2>2, Roles DEF Served
  <2>4. Places(outgoingPackets, p) = {}
    BY <1>1, <1>2, <2>2 DEF Places, Has
  <2> QED  BY <1>8, <2>1, <2>3, <2>4 DEF Holders
<1>9. ASSUME NEW i \in 1..Len(outgoingPackets), outgoingPackets[i].player = p
      PROVE  Holders(p) = {} /\ Places(outgoingPackets, p) = {i}
  <2>1. outgoingPackets[i].client = c
    BY <1>1, <1>9
  <2>2. /\ ~Served(c) /\ thread[Sender].job.client # c
        /\ \A j \in 1..Len(outgoingPackets) :
              outgoingPackets[j].client = c => j = i
    BY <1>9, <2>1 DEF DoomInv
  <2>3. \A t \in Threads : thread[t].job.player # p
    BY <1>1, <1>5, <2>2, Roles DEF Served
  <2>4. \A j \in 1..Len(outgoingPackets) :
            outgoingPackets[j].player = p <=> j = i
    BY <1>1, <1>9, <2>2
  <2> QED  BY <1>2, <1>9, <2>3, <2>4 DEF Holders, Places
<1> QED  BY <1>6, <1>7, <1>8, <1>9, Roles DEF DoomInv

(* Whoever removes a player that state None has doomed is the only one who *)
(* has it: its client has nothing else on the way.                         *)
LEMMA DoomedHasOneRemover == IInv => DoomedPlayersHaveOneRemover
<1> SUFFICES ASSUME IInv, NEW p \in Players, Live(p), player[p].state = "None"
             PROVE  Cardinality(Holders(p))
                    + Cardinality(Places(outgoingPackets, p))
                    + Cardinality(Places(incomingPackets, p)) = 1
  BY DEF DoomedPlayersHaveOneRemover, Holders, Places
<1>1. Doomed(p)
  BY DEF Doomed, Live
<1>2. Cardinality({}) = 0 /\ \A x : Cardinality({x}) = 1
  BY FS_EmptySet, FS_Singleton
<1>3. Cardinality(Places(incomingPackets, p)) = 0
  BY <1>1, <1>2, DoomedIsInOnePlace
<1>4. \/ /\ Cardinality(Holders(p)) = 1
         /\ Cardinality(Places(outgoingPackets, p)) = 0
      \/ /\ Cardinality(Holders(p)) = 0
         /\ Cardinality(Places(outgoingPackets, p)) = 1
  BY <1>1, <1>2, DoomedIsInOnePlace
<1> QED  BY <1>3, <1>4

THEOREM DoomedPlayersAreRemovedOnce ==
    ASSUME Liberties = {}
    PROVE  Spec => []DoomedPlayersHaveOneRemover
BY DoomedHasOneRemover, InvariantHolds, PTL

-----------------------------------------------------------------------------
(* Connections implements Sessions                                         *)

\* PlayerSessions, of players as they were or will be.
SessionsOf(objects) ==
    [fd \in Fds |-> {[player |-> p, state |-> objects[p].state] :
        p \in {q \in Players : objects[q].mem = "live" /\ objects[q].fd = fd}}]

LEMMA SessionsOfPlayers ==
    /\ PlayerSessions = SessionsOf(player)
    /\ PlayerSessions' = SessionsOf(player')
<1>1. \A q \in Players : (Live(q) <=> player[q].mem = "live")
                         /\ (Live(q)' <=> player'[q].mem = "live")
  BY NullIsNothing DEF Live
<1> QED  BY <1>1 DEF PlayerSessions, SessionsOf

LEMMA Stutters ==
    ASSUME UNCHANGED <<player, fdClient>>
    PROVE  UNCHANGED Service!vars
BY SessionsOfPlayers DEF Service!vars

\* The sessions of gd, when p is its only player.
Only(objects, p, gd) ==
    /\ objects[p].mem = "live" => objects[p].fd = gd
    /\ \A q \in Players \ {p} :
          ~(objects[q].mem = "live" /\ objects[q].fd = gd)

SessionOf(objects, p) ==
    IF objects[p].mem = "live"
    THEN {[player |-> p, state |-> objects[p].state]} ELSE {}

(* What the sessions of a descriptor become when its only player changes.  *)
LEMMA OneSession ==
    ASSUME NEW objects, NEW p \in Players, NEW gd \in Fds,
           Only(objects, p, gd)
    PROVE  SessionsOf(objects)[gd] = SessionOf(objects, p)
<1> DEFINE S == {q \in Players : objects[q].mem = "live" /\ objects[q].fd = gd}
<1>1. S = IF objects[p].mem = "live" THEN {p} ELSE {}
  BY DEF Only
<1>2. SessionsOf(objects)[gd] =
          {[player |-> q, state |-> objects[q].state] : q \in S}
  BY DEF SessionsOf
<1> HIDE DEF S
<1> QED  BY <1>1, <1>2 DEF SessionOf

LEMMA OneSessionChanges ==
    ASSUME NEW objects, NEW later, NEW p \in Players, NEW gd \in Fds,
           \A q \in Players \ {p} : later[q] = objects[q],
           Only(objects, p, gd), Only(later, p, gd)
    PROVE  SessionsOf(later) =
               [SessionsOf(objects) EXCEPT ![gd] = SessionOf(later, p)]
<1>1. SessionsOf(later)[gd] = SessionOf(later, p)
  BY OneSession
<1>2. ASSUME NEW fd \in Fds \ {gd}
      PROVE  SessionsOf(later)[fd] = SessionsOf(objects)[fd]
  <2> DEFINE S(f) == {q \in Players : f[q].mem = "live" /\ f[q].fd = fd}
  <2>1. S(later) = S(objects) /\ p \notin S(objects)
    BY DEF Only
  <2>2. \A q \in S(objects) : later[q] = objects[q]
    BY <2>1
  <2>3. /\ SessionsOf(later)[fd] =
              {[player |-> q, state |-> later[q].state] : q \in S(later)}
        /\ SessionsOf(objects)[fd] =
              {[player |-> q, state |-> objects[q].state] : q \in S(objects)}
    BY DEF SessionsOf
  <2> HIDE DEF S
  <2> QED  BY <2>1, <2>2, <2>3
<1> QED  BY <1>1, <1>2 DEF SessionsOf

(* A descriptor without a session may have a player that has just been     *)
(* made, when no worker moves its player.                                  *)
LEMMA BlankIsFresh ==
    ASSUME IInv, NEW fd \in Fds, Blank(fd),
           \A w \in Workers : thread[w].pc = "run" => thread[w].job.fd # fd
    PROVE  Service!IsFresh(fd)
<1> USE DEF IInv
<1>1. ASSUME NEW q \in Players, player[q].mem = "live", player[q].fd = fd
      PROVE  player[q].state = "Handshake"
  <2>1. q # Null
    BY NullIsNothing
  <2>2. CASE tempPlayerLst[fd] = q \/ playerLst[fd] = q
    BY <2>1, <2>2 DEF Blank
  <2>3. CASE tempPlayerLock # Null /\ thread[tempPlayerLock].job.player = q
    <3>1. tempPlayerLock \in Workers /\ thread[tempPlayerLock].pc = "run"
      BY <2>3 DEF ListInv, Moving, TypeInv, TypeOK
    <3>2. thread[tempPlayerLock].job.fd = player[q].fd
      BY <2>3, <3>1, WorkersPlayer
    <3> QED  BY <1>1, <3>1, <3>2
  <2> QED  BY <1>1, <2>2, <2>3 DEF ListInv
<1>2. \A session \in SessionsOf(player)[fd] : session.state = "Handshake"
  BY <1>1 DEF SessionsOf
<1> QED  BY <1>2, SessionsOfPlayers DEF Service!IsFresh

LEMMA AcceptIsArrive ==
    ASSUME IInv, Accept
    PROVE  Service!Next
<1> USE DEF IInv
<1> DEFINE c == Head(backlog)
           new == Min(FreeFds)
<1>1. /\ backlog # <<>> /\ FreeFds # {}
      /\ fdClient' = [fdClient EXCEPT ![new] = c] /\ UNCHANGED player
  BY DEF Accept, AcceptEvent
<1>2. new \in Fds /\ fdClient[new] = Null
  <2>1. FreeFds \in SUBSET Nat
    BY NullIsNothing DEF FreeFds
  <2>2. new \in FreeFds
    BY <1>1, <2>1, MinIsIn
  <2> QED  BY <2>2 DEF FreeFds
<1>3. c \in Clients /\ \A fd \in Fds : fdClient[fd] # c
  <2>1. /\ c = backlog[1] /\ c \in Clients /\ Len(backlog) \in Nat \ {0}
    BY <1>1, HeadAndTail, TypesOfData DEF DataTypes
  <2>2. \A fd \in Fds : fdClient[fd] = Null \/ link[fdClient[fd]] = "open"
    BY DEF SocketInv
  <2>3. link[c] = "backlog"
    BY <2>1 DEF SocketInv
  <2> QED  BY <2>1, <2>2, <2>3, NullIsNothing
<1>4. Blank(new)
  BY <1>2 DEF BlankInv
<1>5. \A w \in Workers : thread[w].pc = "run" => thread[w].job.fd # new
  BY <1>2, WorkersPlayer, ValidTypes
<1> HIDE DEF c, new
<1>6. Service!IsFresh(new)
  BY <1>2, <1>4, <1>5, BlankIsFresh
<1>7. Service!Arrive(new, c)
  BY <1>1, <1>2, <1>3, <1>6, SessionsOfPlayers DEF Service!Arrive
<1> QED  BY <1>2, <1>3, <1>7 DEF Service!Next

LEMMA CloseIsLeave ==
    ASSUME IInv, NEW t \in Threads, CloseSocket(t)
    PROVE  Service!Next
<1> USE DEF IInv
<1> DEFINE fd == thread[t].job.fd
           c == thread[t].job.client
<1>1. thread[t].pc = "close" /\ Close(fd) /\ UNCHANGED player
  BY DEF CloseSocket
<1>2. c \in Clients /\ c # Null /\ fd \in Fds /\ fdClient[fd] = c
  BY <1>1, NullIsNothing DEF JobInv, ThreadHas
<1>3. fdClient' = [fdClient EXCEPT ![fd] = Null]
  BY <1>1, <1>2 DEF Close
<1>4. Blank(fd)
  BY <1>1 DEF BlankInv
<1>5. \A w \in Workers : thread[w].pc = "run" => thread[w].job.fd # fd
  <2>1. \A u \in Threads \ {t} : thread[u].job.client # c
    BY <1>1, Alone DEF Disconnecting
  <2> QED  BY <1>1, <1>2, <2>1, WorkersPlayer, Roles
<1> HIDE DEF fd, c
<1>6. Service!IsFresh(fd)
  BY <1>2, <1>4, <1>5, BlankIsFresh
<1>7. Service!Leave(fd)
  BY <1>1, <1>2, <1>3, <1>6, SessionsOfPlayers DEF Service!Leave
<1> QED  BY <1>2, <1>7 DEF Service!Next

LEMMA RemoveIsEnd ==
    ASSUME IInv, NEW t \in Threads, RemoveEnds(t)
    PROVE  Service!Next
<1> USE DEF IInv
<1> DEFINE p == thread[t].job.player
           fd == player[p].fd
<1>1. /\ thread[t].pc = "unlink" /\ UNCHANGED fdClient
      /\ player' = [player EXCEPT ![p].mem = "deleted"]
  BY DEF RemoveEnds, socketVars
<1>2. Valid(thread[t].job)
  BY <1>1 DEF JobInv, ThreadHas
<1>3. /\ p \in Players /\ player[p].mem = "live" /\ fd \in Fds
      /\ fdClient[fd] # Null
  BY <1>2, ValidTypes
<1>4. \A q \in Players \ {p} : ~(player[q].mem = "live" /\ player[q].fd = fd)
  BY <1>3, OnePlayer
<1>5. player'[p].mem = "deleted" /\ \A q \in Players \ {p} : player'[q] = player[q]
  BY <1>1, <1>3 DEF TypeInv, TypeOK
<1>6. Only(player, p, fd) /\ Only(player', p, fd)
  BY <1>3, <1>4, <1>5 DEF Only
<1>7. SessionOf(player, p) # {} /\ SessionOf(player', p) = {}
  BY <1>3, <1>5 DEF SessionOf
<1> HIDE DEF p, fd
<1>8. /\ SessionsOf(player)[fd] # {}
      /\ SessionsOf(player') = [SessionsOf(player) EXCEPT ![fd] = {}]
  BY <1>3, <1>5, <1>6, <1>7, OneSession, OneSessionChanges
<1>9. Service!End(fd)
  BY <1>1, <1>3, <1>8, SessionsOfPlayers DEF Service!End
<1> QED  BY <1>3, <1>9 DEF Service!Next

LEMMA ReadIsBegin ==
    ASSUME IInv, PacketRead \/ BodyReadFails
    PROVE  Service!Next \/ UNCHANGED Service!vars
<1> USE DEF IInv
<1>1. PICK fd \in Fds, p \in Players, m \in Messages :
          /\ Reads(fd, m) /\ PlayerOf(fd, p) /\ UNCHANGED <<playerLst, fdClient>>
  <2>1. "truncated" \in Messages
    BY DEF Messages
  <2> QED  BY <2>1 DEF PacketRead, BodyReadFails
<1>2. /\ fdClient[fd] # Null /\ ~Served(fdClient[fd])
      /\ MakesPlayer(fd, p) \/ FindsPlayer(fd, p)
  BY <1>1, ReadsKeep
<1>3. CASE FindsPlayer(fd, p)
  BY <1>1, <1>3, Stutters DEF FindsPlayer
<1>4. CASE MakesPlayer(fd, p)
  <2>1. /\ player[p].mem = "unborn"
        /\ tempPlayerLst[fd] = Null /\ playerLst[fd] = Null
        /\ tempPlayerLock = Null
        /\ player' = [player EXCEPT ![p] = [mem |-> "live",
                                        state |-> "Handshake", fd |-> fd]]
    BY <1>4 DEF MakesPlayer
  <2>2. /\ player'[p].mem = "live" /\ player'[p].fd = fd
        /\ player'[p].state = "Handshake"
        /\ \A q \in Players \ {p} : player'[q] = player[q]
    BY <2>1 DEF TypeInv, TypeOK
  <2>3. \A q \in Players : ~(player[q].mem = "live" /\ player[q].fd = fd)
    BY <2>1, NullIsNothing DEF ListInv
  <2>4. Only(player, p, fd) /\ Only(player', p, fd)
    BY <2>1, <2>2, <2>3 DEF Only
  <2>5. /\ SessionOf(player, p) = {}
        /\ SessionOf(player', p) = {[player |-> p, state |-> "Handshake"]}
    BY <2>1, <2>2 DEF SessionOf
  <2>6. /\ SessionsOf(player)[fd] = {}
        /\ SessionsOf(player') = [SessionsOf(player) EXCEPT ![fd] =
                                     {[player |-> p, state |-> "Handshake"]}]
    BY <2>2, <2>4, <2>5, OneSession, OneSessionChanges
  <2>7. \A gd \in Fds : \A session \in SessionsOf(player)[gd] :
            session.player # p
    BY <2>1 DEF SessionsOf
  <2>8. Service!Begin(fd, p)
    BY <1>1, <1>2, <2>6, <2>7, SessionsOfPlayers
    DEF Service!Begin, Service!Session
  <2> QED  BY <2>8 DEF Service!Next
<1> QED  BY <1>2, <1>3, <1>4

LEMMA SetStateIsMove ==
    ASSUME IInv, NEW w \in Workers, SetPlayerState(w)
    PROVE  Service!Next \/ UNCHANGED Service!vars
<1> USE DEF IInv
<1> DEFINE p == thread[w].job.player
           fd == thread[w].job.fd
           old == player[p].state
           new == Head(thread[w].todo).state
<1>1. /\ Does(w, "setState") /\ player' = [player EXCEPT ![p].state = new]
      /\ thread[w].pc = "run" /\ thread[w].todo # <<>>
      /\ Head(thread[w].todo).do = "setState" /\ UNCHANGED fdClient
  BY DEF SetPlayerState, Does, socketVars
<1>2. /\ p \in Players /\ fd \in Fds /\ fdClient[fd] # Null
      /\ player[p].mem = "live" /\ player[p].fd = fd
  BY <1>1, WorkersPlayer, ValidTypes
<1>3. <<old, new>> \in Moves \cup {<<"Handshake", "Login">>}
  BY <1>1, PlanOfStep DEF ChangingState
<1>4. /\ player'[p].mem = "live" /\ player'[p].fd = fd
      /\ player'[p].state = new
      /\ \A q \in Players \ {p} : player'[q] = player[q]
  BY <1>1, <1>2 DEF TypeInv, TypeOK
<1>5. \A q \in Players \ {p} : ~(player[q].mem = "live" /\ player[q].fd = fd)
  BY <1>2, OnePlayer
<1>6. /\ Only(player, p, fd) /\ Only(player', p, fd)
      /\ SessionOf(player, p) = {[player |-> p, state |-> old]}
      /\ SessionOf(player', p) = {[player |-> p, state |-> new]}
  BY <1>2, <1>4, <1>5 DEF Only, SessionOf
<1> HIDE DEF p, fd, old, new
<1>7. /\ SessionsOf(player)[fd] = {[player |-> p, state |-> old]}
      /\ SessionsOf(player') = [SessionsOf(player) EXCEPT ![fd] =
                                   {[player |-> p, state |-> new]}]
  BY <1>2, <1>4, <1>6, OneSession, OneSessionChanges
<1>8. CASE old = new
  <2>1. SessionsOf(player') = SessionsOf(player)
    BY <1>7, <1>8 DEF SessionsOf
  <2> QED  BY <1>1, <2>1, SessionsOfPlayers DEF Service!vars
<1>9. CASE old # new
  <2>1. <<old, new>> \in Service!Order
    BY <1>3, <1>9 DEF Moves, Service!Order
  <2>2. Service!Move(fd, p, old, new)
    BY <1>1, <1>2, <1>7, SessionsOfPlayers
    DEF Service!Move, Service!Session
  <2>3. \E step \in Service!Order : Service!Move(fd, p, step[1], step[2])
    BY <2>1, <2>2
  <2> QED  BY <1>2, <2>3 DEF Service!Next
<1> QED  BY <1>8, <1>9

LEMMA SessionStep ==
    ASSUME IInv, [Next]_vars
    PROVE  [Service!Next]_(Service!vars)
<1> USE DEF socketVars, clientVars, listVars, queueVars
<1>1. ASSUME NEW c \in Clients, ClientStep(c)
      PROVE  UNCHANGED <<player, fdClient>>
  BY <1>1 DEF ClientStep, Connect, HangUp, SendMessage
<1>2. ASSUME NEW t \in Threads, Disconnect(t)
      PROVE  Service!Next \/ UNCHANGED <<player, fdClient>>
  BY <1>2, RemoveIsEnd, CloseIsLeave DEF Disconnect, RemoveBegins, StaysLocal
<1>3. CASE ReceiverStep
  <2>1. CASE EpollWait \/ AcceptFails \/ AcceptedButNotWatched \/ LookupMain
             \/ LookupTemp \/ HeaderReadFails
    <3>1. UNCHANGED <<player, fdClient>>
      BY <2>1 DEF EpollWait, AcceptFails, AcceptedButNotWatched, AcceptEvent,
                  LookupMain, LookupTemp, HeaderReadFails, StaysLocal
    <3> QED  BY <3>1, Stutters
  <2> QED  BY <1>2, <1>3, <2>1, AcceptIsArrive, ReadIsBegin, Stutters, Roles
           DEF ReceiverStep
<1>4. ASSUME NEW w \in Workers, WorkerStep(w)
      PROVE  Service!Next \/ UNCHANGED Service!vars
  <2>1. CASE WorkerPops(w) \/ Route(w) \/ ReturnsSend(w)
             \/ ReturnsDisconnect(w) \/ ReturnsOk(w)
    BY <2>1, Stutters
    DEF WorkerPops, Route, ReturnsSend, ReturnsDisconnect, ReturnsOk,
        QueueStep, StaysLocal
  <2>2. CASE EraseTemp(w) \/ InsertMain(w) \/ QueueReply(w)
    BY <2>2, Stutters DEF EraseTemp, InsertMain, QueueReply, Does
  <2> QED  BY <1>2, <1>4, <2>1, <2>2, SetStateIsMove, Stutters, Roles
           DEF WorkerStep
<1>5. CASE SenderStep
  <2>1. CASE SenderPops \/ Send \/ CheckState
    BY <2>1, Stutters DEF SenderPops, Send, CheckState, QueueStep, StaysLocal
  <2> QED  BY <1>2, <1>5, <2>1, Stutters, Roles DEF SenderStep
<1>6. CASE UNCHANGED vars
  BY <1>6, Stutters DEF vars
<1> QED  BY <1>1, <1>3, <1>4, <1>5, <1>6, Stutters DEF Next

LEMMA SessionInit == Init => Service!Init
<1> SUFFICES ASSUME Init PROVE Service!Init
  OBVIOUS
<1>1. /\ fdClient = [fd \in Fds |-> Null]
      /\ \A p \in Players : player[p].mem # "live"
  BY DEF Init
<1>2. SessionsOf(player) = [fd \in Fds |-> {}]
  BY <1>1 DEF SessionsOf
<1> QED  BY <1>1, <1>2, SessionsOfPlayers DEF Service!Init

(* Every descriptor has one session at a time, which goes through the      *)
(* states of the protocol while its client is connected: the receiver, the *)
(* workers and the sender together do what Sessions promises.              *)
THEOREM PlayersHaveSessions ==
    ASSUME Liberties = {}
    PROVE  Spec => ImplementsSessions
<1>1. Init => Service!Init
  BY SessionInit
<1>2. IInv /\ [Next]_vars => [Service!Next]_(Service!vars)
  BY SessionStep
<1>3. Spec => []IInv
  BY InvariantHolds
<1> QED  BY <1>1, <1>2, <1>3, PTL DEF Spec, ImplementsSessions, Service!Spec
=============================================================================
