-------------------------- MODULE ConnectionsSteps --------------------------
(***************************************************************************)
(* Type correctness of Connections, for any number of clients, workers,    *)
(* descriptors and players and whatever the clients do, and the facts      *)
(* about single steps that the proofs need.                                *)
(*                                                                         *)
(* Then: the steps of the workers and of disconnecting keep the invariant  *)
(* of ConnectionsInvariant, as long as the clients and the memory take no  *)
(* liberties.  One lemma for each action: first what the action does, then *)
(* one step for every part of the invariant that it can disturb.  The      *)
(* other steps are in ConnectionsProofs.                                   *)
(***************************************************************************)
EXTENDS ConnectionsInvariant, SequenceTheorems, FiniteSetTheorems,
        WellFoundedInduction, TLAPS

Positions == {"idle", "event", "lookup", "read", "route", "run", "send",
              "check", "remove", "unlink", "close"}
EventRecords == [fd : Fds \cup {ListenFd}, hup : BOOLEAN]
PlayerRecords == [mem : {"unborn", "live", "deleted"}, state : PlayerStates,
                  fd : Fds \cup {ListenFd}]

LEMMA Roles ==
    /\ Receiver \in Threads /\ Sender \in Threads /\ Workers \subseteq Threads
    /\ Receiver # Sender
    /\ \A w \in Workers : w \in Threads /\ w # Receiver /\ w # Sender
    /\ \A t \in Threads : t = Receiver \/ t = Sender \/ t \in Workers
BY ThreadsAssumption DEF Threads

(* The null pointer is no object.                                          *)
LEMMA NullIsNothing ==
    /\ Null \notin Players /\ Null \notin Fds /\ Null \notin Clients
    /\ Null \notin Workers /\ ListenFd \notin Fds
    /\ Players \subseteq Nat \ {0} /\ Fds \subseteq Nat \ {0}
BY NullAssumption, BoundsAssumption DEF Players, Fds, ListenFd

-----------------------------------------------------------------------------
(* Sets of numbers, and sequences.                                         *)

(* The lowest free descriptor is a free descriptor.                        *)
LEMMA MinIsIn ==
    ASSUME NEW S \in SUBSET Nat, S # {}
    PROVE  Min(S) \in S
<1> DEFINE T == {0..n : n \in S}
<1>1. T \subseteq FiniteSubsetsOf(Nat) /\ T # {}
  <2>1. \A n \in S : 0..n \in SUBSET Nat /\ IsFiniteSet(0..n)
    BY FS_Interval
  <2> QED  BY <2>1 DEF FiniteSubsetsOf
<1> HIDE DEF T
<1>2. PICK x \in T : \A y \in T : <<y, x>> \notin StrictSubsetOrdering(Nat)
  BY <1>1, FS_StrictSubsetOrderingWellFounded, WFMin
<1>3. PICK m \in S : x = 0..m
  BY DEF T
<1>4. ASSUME NEW n \in S, n < m PROVE FALSE
  <2>1. 0..n \in T /\ 0..n \subseteq 0..m /\ 0..n # 0..m
    <3>1. m \in 0..m /\ m \notin 0..n
      BY <1>4
    <3> QED  BY <1>4, <3>1 DEF T
  <2>2. 0..n \in SUBSET Nat /\ 0..m \in SUBSET Nat
    OBVIOUS
  <2> QED  BY <1>2, <1>3, <2>1, <2>2 DEF StrictSubsetOrdering
<1>5. \A y \in S : m <= y
  BY <1>4
<1> QED  BY <1>3, <1>5 DEF Min

LEMMA Appended ==
    ASSUME NEW S, NEW q \in Seq(S), NEW x \in S
    PROVE  /\ Append(q, x) \in Seq(S) /\ Append(q, x) # <<>>
           /\ Len(q) \in Nat /\ Len(Append(q, x)) = Len(q) + 1
           /\ \A i \in 1..Len(q) : Append(q, x)[i] = q[i]
           /\ Append(q, x)[Len(q) + 1] = x
BY AppendProperties, LenProperties

LEMMA HeadAndTail ==
    ASSUME NEW S, NEW q \in Seq(S), q # <<>>
    PROVE  /\ Head(q) = q[1] /\ Head(q) \in S /\ Tail(q) \in Seq(S)
           /\ Len(q) \in Nat \ {0} /\ Len(Tail(q)) = Len(q) - 1
           /\ \A i \in 1..Len(Tail(q)) : Tail(q)[i] = q[i + 1]
           /\ Tail(q) = <<>> <=> Len(q) = 1
<1>1. /\ Tail(q) \in Seq(S) /\ Head(q) = q[1] /\ Head(q) \in S
      /\ Len(Tail(q)) = Len(q) - 1
      /\ \A i \in 1..Len(Tail(q)) : Tail(q)[i] = q[i + 1]
  BY HeadTailProperties
<1>2. \A s \in Seq(S) : s = <<>> <=> Len(s) = 0
  BY EmptySeq
<1>3. Len(q) \in Nat /\ Len(q) # 0
  BY <1>2, LenProperties
<1>4. Tail(q) = <<>> <=> Len(Tail(q)) = 0
  BY <1>1, <1>2
<1> QED  BY <1>1, <1>3, <1>4

-----------------------------------------------------------------------------
(* One thread moves, and the others stay where they are.                   *)

LEMMA NoJobType == NoJob \in Jobs
BY DEF NoJob, Jobs, Messages, Handshakes, ListenFd

LEMMA IdleType == Idle \in ThreadRecords
<1>1. <<>> \in Seq(Steps)
  OBVIOUS
<1> QED  BY <1>1, NoJobType DEF Idle, ThreadRecords

LEMMA ThreadTypes ==
    ASSUME TypeInv, NEW t \in Threads
    PROVE  /\ thread[t] \in ThreadRecords /\ thread[t].job \in Jobs
           /\ thread[t].todo \in Seq(Steps)
BY DEF TypeInv, ThreadRecords

LEMMA BecomesEffect ==
    ASSUME TypeInv, NEW t \in Threads, NEW pc \in Positions, Becomes(t, pc)
    PROVE  /\ thread' \in [Threads -> ThreadRecords]
           /\ thread'[t].pc = pc
           /\ thread'[t].job = thread[t].job
           /\ thread'[t].todo = thread[t].todo
           /\ thread'[t].result = thread[t].result
           /\ \A u \in Threads \ {t} : thread'[u] = thread[u]
BY DEF TypeInv, Becomes, ThreadRecords, Positions

LEMMA AfterEventEffect ==
    ASSUME TypeInv, NEW t \in Threads, events # <<>> \/ t # Receiver,
           AfterEvent(t)
    PROVE  /\ thread' \in [Threads -> ThreadRecords]
           /\ thread'[t].job = NoJob
           /\ \A u \in Threads \ {t} : thread'[u] = thread[u]
           /\ events' \in Seq(EventRecords)
           /\ t # Receiver => thread'[t] = Idle /\ events' = events
           /\ t = Receiver => /\ events' = Tail(events)
                              /\ thread'[t].pc \in {"idle", "event"}
                              /\ thread'[t].pc = "idle" <=> events' = <<>>
<1>1. thread \in [Threads -> ThreadRecords] /\ events \in Seq(EventRecords)
  BY DEF TypeInv, TypeOK, EventRecords
<1>2. CASE t # Receiver
  BY <1>1, <1>2, IdleType DEF AfterEvent, Idle
<1>3. CASE t = Receiver
  <2> DEFINE r == [Idle EXCEPT !.pc = IF Len(events) = 1
                                      THEN "idle" ELSE "event"]
  <2>1. thread' = [thread EXCEPT ![t] = r] /\ events' = Tail(events)
    BY <1>3 DEF AfterEvent
  <2>2. /\ r \in ThreadRecords /\ r.job = NoJob
        /\ r.pc \in {"idle", "event"}
        /\ r.pc = "idle" <=> Len(events) = 1
    BY IdleType DEF Idle, ThreadRecords
  <2> HIDE DEF r
  <2>3. /\ Tail(events) \in Seq(EventRecords)
        /\ Tail(events) = <<>> <=> Len(events) = 1
    BY <1>1, <1>3, HeadAndTail
  <2>4. /\ thread'[t] = r /\ \A u \in Threads \ {t} : thread'[u] = thread[u]
        /\ thread' \in [Threads -> ThreadRecords]
    BY <1>1, <2>1, <2>2
  <2> QED  BY <1>3, <2>1, <2>2, <2>3, <2>4
<1> QED  BY <1>2, <1>3

-----------------------------------------------------------------------------
(* Types                                                                   *)

LEMMA TypeInit == Init => TypeInv
<1> SUFFICES ASSUME Init PROVE TypeInv
  OBVIOUS
<1>1. TypeOK
  <2>1. /\ link \in [Clients -> {"new", "backlog", "open", "closed"}]
        /\ gone \in [Clients -> BOOLEAN]
        /\ sent \in [Clients -> 0..MaxSent]
    BY BoundsAssumption DEF Init
  <2>2. inbox \in [Clients -> Seq(Messages)] /\ backlog \in Seq(Clients)
    BY DEF Init
  <2>3. player \in [Players -> [mem : {"unborn", "live", "deleted"},
                                state : PlayerStates,
                                fd : Fds \cup {ListenFd}]]
    BY DEF Init, PlayerStates
  <2>4. /\ edge \in BOOLEAN
        /\ fdClient \in [Fds -> Clients \cup {Null}]
        /\ tempPlayerLst \in [Fds -> Players \cup {Null}]
        /\ playerLst \in [Fds -> Players \cup {Null}]
        /\ tempPlayerLock \in Workers \cup {Null}
    BY DEF Init
  <2>5. /\ incomingPackets \in Seq(Jobs)
        /\ outgoingPackets \in Seq(Jobs)
        /\ events \in Seq([fd : Fds \cup {ListenFd}, hup : BOOLEAN])
    BY DEF Init
  <2>6. \A t \in Threads : thread[t] = Idle
    BY DEF Init
  <2>7. received \in [Clients -> SUBSET Replies]
    BY DEF Init
  <2> QED
    BY <2>1, <2>2, <2>3, <2>4, <2>5, <2>6, <2>7, NoJobType
    DEF Init, TypeOK, Idle
<1>2. thread \in [Threads -> ThreadRecords]
  BY IdleType DEF Init
<1>3. Stations
  BY Roles DEF Init, Stations, Idle
<1>4. RepliesGoOut
  BY Roles DEF Init, RepliesGoOut, Idle
<1> QED  BY <1>1, <1>2, <1>3, <1>4 DEF TypeInv

LEMMA TypeFrame ==
    ASSUME TypeInv, UNCHANGED vars
    PROVE  TypeInv'
BY DEF TypeInv, TypeOK, Stations, RepliesGoOut, vars, socketVars, clientVars,
       listVars, queueVars

LEMMA TypeClient ==
    ASSUME TypeInv, NEW c \in Clients, ClientStep(c)
    PROVE  TypeInv'
<1> USE DEF TypeInv, clientVars, listVars, queueVars, socketVars
<1>1. UNCHANGED <<fdClient, player, listVars, queueVars, events, thread,
                  received, fault>>
  BY DEF ClientStep, Connect, HangUp, SendMessage
<1>2. /\ link' \in [Clients -> {"new", "backlog", "open", "closed"}]
      /\ gone' \in [Clients -> BOOLEAN]
      /\ sent' \in [Clients -> 0..MaxSent]
      /\ inbox' \in [Clients -> Seq(Messages)]
      /\ backlog' \in Seq(Clients)
      /\ edge' \in BOOLEAN
  <2>1. CASE Connect(c)
    BY <2>1 DEF Connect, TypeOK
  <2>2. CASE HangUp(c)
    BY <2>2 DEF HangUp, TypeOK
  <2>3. CASE \E m \in Sendable : SendMessage(c, m)
    <3> PICK m \in Sendable : SendMessage(c, m)
      BY <2>3
    <3>1. m \in Messages
      BY SendableAssumption
    <3>2. Append(inbox[c], m) \in Seq(Messages)
      BY <3>1 DEF TypeOK
    <3>3. sent[c] + 1 \in 0..MaxSent
      BY BoundsAssumption DEF SendMessage, TypeOK
    <3> QED  BY <3>2, <3>3 DEF SendMessage, TypeOK
  <2> QED  BY <2>1, <2>2, <2>3 DEF ClientStep
<1>3. TypeOK'
  BY <1>1, <1>2 DEF TypeOK
<1>4. Stations' /\ RepliesGoOut'
  BY <1>1 DEF Stations, RepliesGoOut
<1> QED  BY <1>1, <1>3, <1>4

(* The types of everything but the threads.                                *)
DataTypes ==
    /\ link \in [Clients -> {"new", "backlog", "open", "closed"}]
    /\ gone \in [Clients -> BOOLEAN]
    /\ sent \in [Clients -> 0..MaxSent]
    /\ inbox \in [Clients -> Seq(Messages)]
    /\ backlog \in Seq(Clients)
    /\ edge \in BOOLEAN
    /\ fdClient \in [Fds -> Clients \cup {Null}]
    /\ player \in [Players -> PlayerRecords]
    /\ tempPlayerLst \in [Fds -> Players \cup {Null}]
    /\ playerLst \in [Fds -> Players \cup {Null}]
    /\ tempPlayerLock \in Workers \cup {Null}
    /\ incomingPackets \in Seq(Jobs)
    /\ outgoingPackets \in Seq(Jobs)
    /\ events \in Seq(EventRecords)
    /\ received \in [Clients -> SUBSET Replies]
    /\ fault \in {"none", "useAfterFree", "doubleDelete"}

LEMMA TypesOfData == TypeInv => DataTypes
BY DEF TypeInv, TypeOK, DataTypes, PlayerRecords, EventRecords

-----------------------------------------------------------------------------
(* The plans of the handlers                                               *)

LEMMA QueuePlan ==
    ASSUME NEW replies \in Seq(Replies)
    PROVE  /\ Queue(replies) \in Seq(Steps) /\ OnlyQueues(Queue(replies))
           /\ Len(Queue(replies)) = Len(replies)
<1>1. DOMAIN replies = 1..Len(replies) /\ Len(replies) \in Nat
  BY LenProperties
<1>2. Queue(replies) \in [1..Len(replies) -> Steps]
  BY <1>1 DEF Queue, Steps
<1>3. Queue(replies) \in Seq(Steps) /\ Len(Queue(replies)) = Len(replies)
  BY <1>1, <1>2
<1>4. \A i \in 1..Len(replies) : Queue(replies)[i].do = "queue"
  BY <1>1 DEF Queue
<1> QED  BY <1>3, <1>4 DEF OnlyQueues

LEMMA SetStateThen ==
    ASSUME NEW s \in PlayerStates, NEW q \in Seq(Steps)
    PROVE  /\ SetState(s) \o q \in Seq(Steps)
           /\ SetState(s) \o q # <<>>
           /\ Head(SetState(s) \o q) = [do |-> "setState", state |-> s]
           /\ Tail(SetState(s) \o q) = q
<1>1. [do |-> "setState", state |-> s] \in Steps
  BY DEF Steps
<1>2. SetState(s) \in Seq(Steps) /\ Len(SetState(s)) = 1
  BY <1>1 DEF SetState
<1> DEFINE u == SetState(s) \o q
<1>3. /\ u \in Seq(Steps) /\ Len(u) = Len(q) + 1 /\ u[1] = SetState(s)[1]
      /\ \A i \in 1..Len(q) : u[i + 1] = q[i]
      /\ Len(q) \in Nat
  <2>1. Len(q) \in Nat
    BY LenProperties
  <2>2. /\ u \in Seq(Steps) /\ Len(u) = 1 + Len(q)
        /\ \A i \in 1..(1 + Len(q)) :
              u[i] = IF i <= 1 THEN SetState(s)[i] ELSE q[i - 1]
    <3>1. /\ u \in Seq(Steps) /\ Len(u) = Len(SetState(s)) + Len(q)
          /\ \A i \in 1..(Len(SetState(s)) + Len(q)) :
                u[i] = IF i <= Len(SetState(s)) THEN SetState(s)[i]
                       ELSE q[i - Len(SetState(s))]
      BY <1>2, ConcatProperties
    <3> HIDE DEF u
    <3> QED  BY <1>2, <3>1
  <2> HIDE DEF u
  <2> QED  BY <2>1, <2>2
<1> HIDE DEF u
<1>4. u # <<>>
  BY <1>3, EmptySeq
<1>5. Tail(u) = q
  BY <1>3, <1>4, HeadAndTail, SeqEqual
<1> QED  BY <1>3, <1>4, <1>5, HeadAndTail DEF u, SetState

LEMMA PromotePlan == Promote \in Seq(Steps)
<1>1. [do |-> "erase"] \in Steps /\ [do |-> "insert"] \in Steps
  BY DEF Steps
<1> QED  BY <1>1 DEF Promote

(* Every row of the table leaves a plan of one of three forms, except for  *)
(* the unknown packet of state Configuration.                              *)
RowResults == Replies \cup {"ok", "disconnect"}

Planned(row) ==
    LET steps == row.outcome.steps
        result == row.outcome.result
    IN  /\ steps \in Seq(Steps) /\ result \in RowResults
        /\ \/ Replying(row.state, steps, result)
           \/ ChangingState(row.state, steps, result)
           \/ row.state = "Handshake" /\ Promoting(row.state, steps, result)
           \/ /\ row.state = "Configuration" /\ row.on = {"unknown"}

LEMMA RowFields ==
    ASSUME NEW state, NEW on, NEW steps, NEW result
    PROVE  LET row == Row(state, on, Outcome(steps, result))
           IN  /\ row.state = state /\ row.on = on
               /\ row.outcome.steps = steps /\ row.outcome.result = result
BY DEF Row, Outcome

LEMMA NothingPlan ==
    ASSUME NEW state, NEW on, NEW result \in RowResults,
           state = "None" => result = "disconnect"
    PROVE  Planned(Row(state, on, Outcome(<<>>, result)))
<1>1. <<>> \in Seq(Steps) /\ OnlyQueues(<<>>)
  BY DEF OnlyQueues
<1>2. Replying(state, <<>>, result)
  BY <1>1 DEF Replying
<1>3. LET row == Row(state, on, Outcome(<<>>, result))
      IN  /\ row.state = state /\ row.on = on
          /\ row.outcome.steps = <<>> /\ row.outcome.result = result
  BY RowFields
<1> QED  BY <1>1, <1>2, <1>3 DEF Planned

LEMMA QueuesPlan ==
    ASSUME NEW state, NEW on, NEW replies \in Seq(Replies), state # "None"
    PROVE  Planned(Row(state, on, Outcome(Queue(replies), "ok")))
BY QueuePlan DEF Planned, Row, Outcome, Replying, RowResults

LEMMA SetStatePlan ==
    ASSUME NEW state, NEW on, NEW s \in PlayerStates, <<state, s>> \in Moves,
           NEW result \in RowResults,
           s = "None" => result \in {"disconnect", "pong"}
    PROVE  Planned(Row(state, on, Outcome(SetState(s), result)))
<1>1. SetState(s) = SetState(s) \o <<>> /\ <<>> \in Seq(Steps)
  BY DEF SetState
<1>2. /\ SetState(s) \in Seq(Steps) /\ SetState(s) # <<>>
      /\ Head(SetState(s)) = [do |-> "setState", state |-> s]
      /\ Tail(SetState(s)) = <<>>
  BY <1>1, SetStateThen
<1>3. Replying(s, <<>>, result)
  BY DEF Replying, OnlyQueues
<1>4. ChangingState(state, SetState(s), result)
  <2>1. Head(SetState(s)).do = "setState" /\ Head(SetState(s)).state = s
    BY <1>2
  <2> QED  BY <1>2, <1>3, <2>1 DEF ChangingState
<1> QED  BY <1>2, <1>4, RowFields DEF Planned

LEMMA SetStateAndQueuePlan ==
    ASSUME NEW state, NEW on, NEW s \in PlayerStates \ {"None"},
           <<state, s>> \in Moves, NEW replies \in Seq(Replies)
    PROVE  Planned(Row(state, on,
                       Outcome(SetState(s) \o Queue(replies), "ok")))
<1>1. Queue(replies) \in Seq(Steps) /\ OnlyQueues(Queue(replies))
  BY QueuePlan
<1>2. LET q == Queue(replies)
          u == SetState(s) \o q
      IN  /\ u \in Seq(Steps) /\ u # <<>> /\ Tail(u) = q
          /\ Head(u) = [do |-> "setState", state |-> s]
  BY <1>1, SetStateThen
<1>3. Replying(s, Queue(replies), "ok")
  BY <1>1 DEF Replying
<1> DEFINE u == SetState(s) \o Queue(replies)
<1>4. ChangingState(state, u, "ok")
  <2>1. Head(u).do = "setState" /\ Head(u).state = s
    BY <1>2
  <2>2. u # <<>> /\ Tail(u) = Queue(replies)
    BY <1>2
  <2> HIDE DEF u
  <2> QED  BY <1>3, <2>1, <2>2 DEF ChangingState
<1>5. u \in Seq(Steps)
  BY <1>2
<1> HIDE DEF u
<1>6. Planned(Row(state, on, Outcome(u, "ok")))
  BY <1>4, <1>5, RowFields DEF Planned, RowResults
<1> QED  BY <1>6 DEF u

LEMMA RowsArePlanned == \A row \in Table : Planned(row)
<1> USE DEF RowResults, Replies
<1>1. \A row \in HandshakeRows : Planned(row)
  <2>1. \A on : Planned(Row("Handshake", on, handleHandshakePacket("toStatus")))
    BY SetStatePlan DEF handleHandshakePacket, Moves, PlayerStates
  <2>2. \A on : Planned(Row("Handshake", on, handleHandshakePacket("toLogin")))
    <3>1. SetState("Login") \o Promote \in Seq(Steps)
      BY PromotePlan, SetStateThen DEF PlayerStates
    <3> QED
      BY <3>1 DEF handleHandshakePacket, Planned, Row, Outcome, Promoting
  <2>3. \A on : Planned(Row("Handshake", on, handleHandshakePacket("toOther")))
    BY SetStatePlan DEF handleHandshakePacket, Moves, PlayerStates
  <2>4. \A on : Planned(Row("Handshake", on, Nothing))
    BY NothingPlan DEF Nothing
  <2>5. \A on : Planned(Row("Handshake", on, unknownPacket))
    BY SetStatePlan DEF unknownPacket, Moves, PlayerStates
  <2> QED  BY <2>1, <2>2, <2>3, <2>4, <2>5 DEF HandshakeRows
<1>2. \A row \in StatusRows : Planned(row)
  <2>1. \A on : Planned(Row("Status", on, handleStatusPacket))
    BY SetStatePlan DEF handleStatusPacket, Moves, PlayerStates
  <2>2. \A on : Planned(Row("Status", on, handlePingPacket))
    BY SetStatePlan DEF handlePingPacket, Moves, PlayerStates
  <2>3. \A on : Planned(Row("Status", on, unknownPacket))
    BY SetStatePlan DEF unknownPacket, Moves, PlayerStates
  <2> QED  BY <2>1, <2>2, <2>3 DEF StatusRows
<1>3. \A row \in LoginRows : Planned(row)
  <2>1. \A on : Planned(Row("Login", on, handleLoginStartPacket))
    BY NothingPlan DEF handleLoginStartPacket
  <2>2. \A on : Planned(Row("Login", on, Nothing))
    BY NothingPlan DEF Nothing
  <2>3. <<"knownPacks">> \in Seq(Replies)
    OBVIOUS
  <2>4. \A on : Planned(Row("Login", on,
            Outcome(handleLoginAcknowledged \o Queue(<<"knownPacks">>), "ok")))
    BY <2>3, SetStateAndQueuePlan
    DEF handleLoginAcknowledged, Moves, PlayerStates
  <2>5. \A on : Planned(Row("Login", on, Outcome(<<>>, "disconnect")))
    BY NothingPlan
  <2>6. \A on : Planned(Row("Login", on, unknownPacket))
    BY SetStatePlan DEF unknownPacket, Moves, PlayerStates
  <2> QED  BY <2>1, <2>2, <2>4, <2>5, <2>6 DEF LoginRows
<1>4. \A row \in ConfigurationRows : Planned(row)
  <2>1. \A on : Planned(Row("Configuration", on, Nothing))
    BY NothingPlan DEF Nothing
  <2>2. <<"play", "changeDifficulty", "playerAbilities", "setHeldItem",
          "positionAndLook">> \in Seq(Replies)
    OBVIOUS
  <2>3. \A on : Planned(Row("Configuration", on,
            Outcome(handleAcknowledgeFinishConfiguration
                    \o Queue(<<"play", "changeDifficulty", "playerAbilities",
                               "setHeldItem", "positionAndLook">>), "ok")))
    BY <2>2, SetStateAndQueuePlan
    DEF handleAcknowledgeFinishConfiguration, Moves, PlayerStates
  <2>4. <<"registryData", "updateTags", "finishConfiguration">>
        \in Seq(Replies)
    OBVIOUS
  <2>5. \A on : Planned(Row("Configuration", on,
                    Outcome(sendCompleteConfigurationSequence, "ok")))
    BY <2>4, QueuesPlan DEF sendCompleteConfigurationSequence
  <2>6. Planned(Row("Configuration", {"unknown"},
            Outcome(sendDisconnectPacket \o SetState("None"), "disconnect")))
    <3>1. <<"disconnect">> \in Seq(Replies)
      OBVIOUS
    <3>2. sendDisconnectPacket \in Seq(Steps)
      BY <3>1, QueuePlan DEF sendDisconnectPacket
    <3>3. SetState("None") \in Seq(Steps)
      BY DEF SetState, Steps, PlayerStates
    <3>4. sendDisconnectPacket \o SetState("None") \in Seq(Steps)
      BY <3>2, <3>3, ConcatProperties
    <3> QED  BY <3>4 DEF Planned, Row, Outcome
  <2> QED  BY <2>1, <2>3, <2>5, <2>6 DEF ConfigurationRows
<1>5. \A row \in PlayRows : Planned(row)
  <2>1. <<"gameEvent">> \in Seq(Replies)
    OBVIOUS
  <2>2. \A on : Planned(Row("Play", on, Outcome(Queue(<<"gameEvent">>), "ok")))
    BY <2>1, QueuesPlan
  <2>3. \A on : Planned(Row("Play", on, Nothing))
    BY NothingPlan DEF Nothing
  <2> QED  BY <2>2, <2>3 DEF PlayRows
<1>6. Planned(Row("None", Messages, Outcome(<<>>, "disconnect")))
  BY NothingPlan
<1> QED  BY <1>1, <1>2, <1>3, <1>4, <1>5, <1>6 DEF Table

-----------------------------------------------------------------------------
(* Where a step leaves the threads.                                        *)

OwnStations(t) ==
    IF t = Receiver THEN {"idle", "event", "lookup", "read"} \cup Disconnecting
    ELSE IF t = Sender THEN {"idle", "send", "check"} \cup Disconnecting
         ELSE {"idle", "route", "run"} \cup Disconnecting

Others(t) == \A u \in Threads \ {t} : thread'[u] = thread[u]

(* A step of one thread keeps the types if it keeps those of what it       *)
(* changes.                                                                *)
LEMMA TypeMove ==
    ASSUME TypeInv, NEW t \in Threads, thread' \in [Threads -> ThreadRecords],
           Others(t), thread'[t].pc \in OwnStations(t), DataTypes',
           t # Receiver => UNCHANGED events,
           t = Receiver =>
               /\ thread'[t].pc = "idle" <=> events' = <<>>
               /\ thread'[t].pc = "lookup" => Head(events').fd \in Fds,
           RepliesGoOut'
    PROVE  TypeInv'
<1>1. Stations'
  BY Roles DEF TypeInv, Stations, OwnStations, Others
<1>2. \A u \in Threads :
          /\ thread'[u].pc
             \in {"idle", "event", "lookup", "read", "route",
                  "run", "send", "check", "remove", "unlink", "close"}
          /\ thread'[u].job \in Jobs
          /\ thread'[u].result \in Replies \cup {"ok", "disconnect"}
  BY DEF ThreadRecords
<1>3. TypeOK'
  BY <1>2 DEF DataTypes, TypeOK, PlayerRecords, EventRecords
<1> QED  BY <1>1, <1>3 DEF TypeInv

LEMMA RepliesKept ==
    ASSUME TypeInv, NEW t \in Threads, UNCHANGED outgoingPackets,
           Others(t), t = Sender => thread'[t].pc # "send"
    PROVE  RepliesGoOut'
BY Roles DEF TypeInv, RepliesGoOut, Others

LEMMA UsesType ==
    ASSUME TypeInv, NEW p, Uses(p) \/ UNCHANGED fault
    PROVE  fault' \in {"none", "useAfterFree", "doubleDelete"}
BY DEF TypeInv, TypeOK, Uses

LEMMA TypeDisconnect ==
    ASSUME TypeInv, NEW t \in Threads, Disconnect(t)
    PROVE  TypeInv'
<1> USE DEF Disconnecting, OwnStations, socketVars, clientVars, listVars,
            queueVars
<1>0. /\ DataTypes
      /\ \A pc \in Disconnecting : pc \in OwnStations(t)
      /\ thread[t].pc \in Disconnecting /\ t = Receiver => events # <<>>
  BY TypesOfData DEF TypeInv, Stations
<1>1. CASE RemoveBegins(t)
  <2>1. PICK pc \in {"close", "unlink"} : Becomes(t, pc)
    BY <1>1 DEF RemoveBegins
  <2>2. /\ thread' \in [Threads -> ThreadRecords] /\ thread'[t].pc = pc
        /\ Others(t)
    BY <2>1, BecomesEffect DEF Positions, Others
  <2>3. StaysLocal /\ thread[t].pc = "remove"
    BY <1>1 DEF RemoveBegins
  <2>4. fault' \in {"none", "useAfterFree", "doubleDelete"}
    BY <1>1, UsesType DEF RemoveBegins
  <2>5. DataTypes'
    BY <1>0, <2>3, <2>4 DEF StaysLocal, DataTypes
  <2>6. RepliesGoOut'
    BY <2>2, <2>3, RepliesKept DEF StaysLocal
  <2> QED  BY <1>0, <2>2, <2>3, <2>5, <2>6, TypeMove DEF StaysLocal
<1>2. CASE RemoveEnds(t)
  <2>1. Becomes(t, "close") /\ thread[t].pc = "unlink"
    BY <1>2 DEF RemoveEnds
  <2>2. /\ thread' \in [Threads -> ThreadRecords] /\ thread'[t].pc = "close"
        /\ Others(t)
    BY <2>1, BecomesEffect DEF Positions, Others
  <2>3. UNCHANGED <<socketVars, clientVars, tempPlayerLock, queueVars,
                    events, received>>
    BY <1>2 DEF RemoveEnds
  <2>4. /\ fault' \in {"none", "useAfterFree", "doubleDelete"}
        /\ player' \in [Players -> PlayerRecords]
        /\ tempPlayerLst' \in [Fds -> Players \cup {Null}]
        /\ playerLst' \in [Fds -> Players \cup {Null}]
    BY <1>0, <1>2, ZenonT(30) DEF RemoveEnds, DataTypes, PlayerRecords
  <2>5. DataTypes'
    BY <1>0, <2>3, <2>4 DEF DataTypes
  <2>6. RepliesGoOut'
    BY <2>2, <2>3, RepliesKept
  <2> QED  BY <1>0, <2>1, <2>2, <2>3, <2>5, <2>6, TypeMove
<1>3. CASE CloseSocket(t)
  <2>1. AfterEvent(t) /\ thread[t].pc = "close" /\ Close(thread[t].job.fd)
    BY <1>3 DEF CloseSocket
  <2>2. /\ thread' \in [Threads -> ThreadRecords] /\ Others(t)
        /\ events' \in Seq(EventRecords)
        /\ t # Receiver => thread'[t] = Idle /\ events' = events
        /\ t = Receiver => /\ thread'[t].pc \in {"idle", "event"}
                           /\ thread'[t].pc = "idle" <=> events' = <<>>
    BY <1>0, <2>1, AfterEventEffect DEF Others
  <2>3. UNCHANGED <<backlog, edge, clientVars, player, listVars, queueVars,
                    received, fault>>
    BY <1>3 DEF CloseSocket
  <2>4. /\ link' \in [Clients -> {"new", "backlog", "open", "closed"}]
        /\ inbox' \in [Clients -> Seq(Messages)]
        /\ fdClient' \in [Fds -> Clients \cup {Null}]
    <3>1. <<>> \in Seq(Messages)
      OBVIOUS
    <3> QED  BY <1>0, <2>1, <3>1 DEF Close, DataTypes
  <2>5. DataTypes'
    BY <1>0, <2>2, <2>3, <2>4 DEF DataTypes
  <2>6. thread'[t].pc \in OwnStations(t) /\ thread'[t].pc \in {"idle", "event"}
    BY <2>2, Roles DEF Idle
  <2>7. RepliesGoOut'
    BY <2>2, <2>3, <2>6, RepliesKept
  <2> QED  BY <2>2, <2>5, <2>6, <2>7, TypeMove
<1> QED  BY <1>1, <1>2, <1>3 DEF Disconnect

LEMMA TypeEpollWait ==
    ASSUME TypeInv, EpollWait
    PROVE  TypeInv'
<1> USE DEF clientVars, listVars, queueVars
<1> DEFINE S == ReadyFds \cup IF edge THEN {ListenFd} ELSE {}
<1>1. PICK order \in SetToSeqs(S),
           hups \in SUBSET {fd \in ReadyFds : gone[fdClient[fd]]} :
           events' = [i \in DOMAIN order |-> [fd |-> order[i],
                                              hup |-> order[i] \in hups]]
  BY DEF EpollWait
<1>2. /\ order \in [1..Cardinality(S) -> S]
      /\ S # {} /\ IsFiniteSet(S) /\ S \subseteq Fds \cup {ListenFd}
  <2>1. IsFiniteSet(Fds)
    BY FS_Interval, BoundsAssumption DEF Fds
  <2>2. S \subseteq Fds \cup {ListenFd} /\ S # {}
    BY DEF ReadyFds, EpollWait
  <2>3. IsFiniteSet(Fds \cup {ListenFd})
    BY <2>1, FS_AddElement
  <2>4. IsFiniteSet(S)
    BY <2>2, <2>3, FS_Subset
  <2> QED  BY <2>2, <2>4 DEF SetToSeqs
<1>3. Cardinality(S) \in Nat /\ Cardinality(S) # 0
  BY <1>2, FS_CardinalityType, FS_EmptySet
<1>4. DOMAIN order = 1..Cardinality(S)
  BY <1>2
<1> HIDE DEF S
<1>5. events' \in [1..Cardinality(S) -> EventRecords]
  BY <1>1, <1>2, <1>4 DEF EventRecords
<1>6. events' \in Seq(EventRecords) /\ events' # <<>>
  BY <1>3, <1>5
<1>7. Becomes(Receiver, "event")
  BY DEF EpollWait
<1>8. /\ thread' \in [Threads -> ThreadRecords] /\ Others(Receiver)
      /\ thread'[Receiver].pc = "event"
  BY <1>7, BecomesEffect, Roles DEF Positions, Others
<1>9. DataTypes'
  BY <1>6, TypesOfData DEF EpollWait, DataTypes
<1>10. RepliesGoOut'
  BY <1>8, RepliesKept, Roles DEF EpollWait
<1> QED
  BY <1>6, <1>8, <1>9, <1>10, TypeMove, Roles DEF OwnStations

LEMMA TypeAccept ==
    ASSUME TypeInv, Accept \/ AcceptFails \/ AcceptedButNotWatched
    PROVE  TypeInv'
<1> USE DEF clientVars, listVars, queueVars
<1>1. AcceptEvent
  BY DEF Accept, AcceptFails, AcceptedButNotWatched
<1>2. events # <<>>
  BY <1>1 DEF AcceptEvent, TypeInv, Stations
<1>3. /\ thread' \in [Threads -> ThreadRecords] /\ Others(Receiver)
      /\ events' \in Seq(EventRecords)
      /\ thread'[Receiver].pc \in {"idle", "event"}
      /\ thread'[Receiver].pc = "idle" <=> events' = <<>>
  BY <1>1, <1>2, AfterEventEffect, Roles DEF AcceptEvent, Others
<1>4. /\ link' \in [Clients -> {"new", "backlog", "open", "closed"}]
      /\ inbox' \in [Clients -> Seq(Messages)]
      /\ backlog' \in Seq(Clients)
      /\ fdClient' \in [Fds -> Clients \cup {Null}]
  <2>1. DataTypes
    BY TypesOfData
  <2>2. CASE AcceptFails
    BY <2>1, <2>2 DEF AcceptFails, DataTypes
  <2>3. CASE backlog # <<>> /\ ~AcceptFails
    <3>1. Head(backlog) \in Clients /\ Tail(backlog) \in Seq(Clients)
      BY <2>1, <2>3, HeadAndTail DEF DataTypes
    <3>2. <<>> \in Seq(Messages)
      OBVIOUS
    <3> QED
      BY <2>1, <2>3, <3>1, <3>2 DEF Accept, AcceptedButNotWatched, DataTypes
  <2> QED  BY <2>2, <2>3 DEF Accept, AcceptedButNotWatched
<1>5. DataTypes'
  BY <1>1, <1>3, <1>4, TypesOfData DEF AcceptEvent, DataTypes
<1>6. RepliesGoOut'
  BY <1>1, <1>3, RepliesKept, Roles DEF AcceptEvent
<1> QED
  BY <1>3, <1>5, <1>6, TypeMove, Roles DEF OwnStations

(* What the receiver finds out about a socket.                             *)
LEMMA LookedUpEffect ==
    ASSUME TypeInv, NEW fd \in Fds, NEW p \in Players \cup {Null},
           LookedUp(fd, p)
    PROVE  /\ thread' \in [Threads -> ThreadRecords] /\ Others(Receiver)
           /\ thread'[Receiver].pc = IF Head(events).hup THEN "remove"
                                                         ELSE "read"
           /\ thread'[Receiver].job.player = p
           /\ thread'[Receiver].job.fd = fd
           /\ thread'[Receiver].job.client = fdClient[fd]
<1> DEFINE pc == IF Head(events).hup THEN "remove" ELSE "read"
           job == [NoJob EXCEPT !.player = p, !.fd = fd,
                                !.client = fdClient[fd]]
<1>1. /\ job \in Jobs /\ job.player = p /\ job.fd = fd
      /\ job.client = fdClient[fd]
  BY NoJobType DEF NoJob, Jobs, TypeInv, TypeOK
<1>2. pc \in Positions
  BY DEF Positions
<1>3. thread' = [thread EXCEPT ![Receiver].pc = pc, ![Receiver].job = job]
  BY DEF LookedUp
<1> HIDE DEF job, pc
<1>4. /\ thread' \in [Threads -> ThreadRecords] /\ Others(Receiver)
      /\ thread'[Receiver].pc = pc /\ thread'[Receiver].job = job
  BY <1>1, <1>2, <1>3, Roles DEF TypeInv, ThreadRecords, Positions, Others
<1> QED  BY <1>1, <1>4 DEF pc

LEMMA TypeLookup ==
    ASSUME TypeInv, LookupMain \/ LookupTemp
    PROVE  TypeInv'
<1> USE DEF Disconnecting
<1>1. /\ StaysLocal /\ UNCHANGED fault /\ DataTypes /\ DataTypes'
      /\ events # <<>>
  <2>1. StaysLocal /\ UNCHANGED fault /\ thread[Receiver].pc # "idle"
    BY DEF LookupMain, LookupTemp
  <2> QED
    BY <2>1, TypesOfData DEF StaysLocal, DataTypes, socketVars, clientVars,
                             listVars, queueVars, TypeInv, Stations
<1>2. Head(events).fd \in Fds
  <2>1. CASE LookupMain
    <3>1. Head(events) \in EventRecords
      BY <1>1, HeadAndTail DEF DataTypes
    <3> QED  BY <2>1, <3>1 DEF LookupMain, EventRecords
  <2>2. CASE LookupTemp
    BY <2>2 DEF LookupTemp, TypeInv, Stations
  <2> QED  BY <2>1, <2>2
<1>3. \/ Becomes(Receiver, "lookup")
      \/ \E p \in Players \cup {Null} : LookedUp(Head(events).fd, p)
  BY <1>1, <1>2 DEF LookupMain, LookupTemp, Found, DataTypes
<1>4. /\ thread' \in [Threads -> ThreadRecords] /\ Others(Receiver)
      /\ thread'[Receiver].pc \in {"lookup", "read", "remove"}
  BY <1>2, <1>3, BecomesEffect, LookedUpEffect, Roles DEF Positions, Others
<1>5. RepliesGoOut'
  BY <1>1, <1>4, RepliesKept, Roles DEF StaysLocal, queueVars
<1> QED
  BY <1>1, <1>2, <1>4, <1>5, TypeMove, Roles DEF OwnStations, StaysLocal

(* What the receiver finds in a socket, and the player of it.              *)
LEMMA ReadEffect ==
    ASSUME TypeInv, NEW fd \in Fds, NEW p \in Players, NEW m \in Messages,
           Reads(fd, m), PlayerOf(fd, p), UNCHANGED playerLst
    PROVE  /\ fdClient[fd] \in Clients
           /\ inbox' \in [Clients -> Seq(Messages)]
           /\ player' \in [Players -> PlayerRecords]
           /\ tempPlayerLst' \in [Fds -> Players \cup {Null}]
           /\ fault' \in {"none", "useAfterFree", "doubleDelete"}
<1>1. DataTypes
  BY TypesOfData
<1>2. fdClient[fd] \in Clients /\ inbox' \in [Clients -> Seq(Messages)]
  <2>1. fdClient[fd] \in Clients
    BY <1>1 DEF Reads, DataTypes
  <2>2. Tail(inbox[fdClient[fd]]) \in Seq(Messages)
    BY <1>1, <2>1, HeadAndTail DEF Reads, DataTypes
  <2> QED  BY <1>1, <2>1, <2>2 DEF Reads, DataTypes
<1>3. [mem |-> "live", state |-> "Handshake", fd |-> fd] \in PlayerRecords
  BY DEF PlayerRecords, PlayerStates
<1>4. /\ player' \in [Players -> PlayerRecords]
      /\ tempPlayerLst' \in [Fds -> Players \cup {Null}]
  BY <1>1, <1>3 DEF PlayerOf, DataTypes
<1>5. fault' \in {"none", "useAfterFree", "doubleDelete"}
  BY UsesType DEF PlayerOf
<1> QED  BY <1>2, <1>4, <1>5

LEMMA TypePacketRead ==
    ASSUME TypeInv, PacketRead
    PROVE  TypeInv'
<1> USE DEF clientVars
<1>1. PICK fd \in Fds, p \in Players, m \in Messages \ {"truncated"} :
        /\ Reads(fd, m)
        /\ PlayerOf(fd, p)
        /\ incomingPackets' =
               Append(incomingPackets, [player |-> p, fd |-> fd,
                          client |-> fdClient[fd], content |-> m])
        /\ AfterEvent(Receiver)
        /\ UNCHANGED <<link, backlog, edge, fdClient, clientVars, playerLst,
                       tempPlayerLock, outgoingPackets, received>>
  BY DEF PacketRead
<1>2. DataTypes /\ events # <<>>
  BY <1>1, TypesOfData DEF Reads, TypeInv, Stations
<1>3. /\ fdClient[fd] \in Clients
      /\ inbox' \in [Clients -> Seq(Messages)]
      /\ player' \in [Players -> PlayerRecords]
      /\ tempPlayerLst' \in [Fds -> Players \cup {Null}]
      /\ fault' \in {"none", "useAfterFree", "doubleDelete"}
  BY <1>1, ReadEffect
<1>4. incomingPackets' \in Seq(Jobs)
  <2>1. [player |-> p, fd |-> fd, client |-> fdClient[fd], content |-> m]
        \in Jobs
    BY <1>3 DEF Jobs
  <2> QED  BY <1>1, <1>2, <2>1, Appended DEF DataTypes
<1>5. /\ thread' \in [Threads -> ThreadRecords] /\ Others(Receiver)
      /\ events' \in Seq(EventRecords)
      /\ thread'[Receiver].pc \in {"idle", "event"}
      /\ thread'[Receiver].pc = "idle" <=> events' = <<>>
  BY <1>1, <1>2, AfterEventEffect, Roles DEF Others
<1>6. DataTypes'
  BY <1>1, <1>2, <1>3, <1>4, <1>5 DEF DataTypes
<1>7. RepliesGoOut'
  BY <1>1, <1>5, RepliesKept, Roles
<1> QED
  BY <1>5, <1>6, <1>7, TypeMove, Roles DEF OwnStations

LEMMA TypeReadFails ==
    ASSUME TypeInv, BodyReadFails \/ HeaderReadFails
    PROVE  TypeInv'
<1> USE DEF socketVars, clientVars, listVars, queueVars
<1>1. /\ thread[Receiver].pc = "read" /\ Becomes(Receiver, "remove")
      /\ UNCHANGED <<queueVars, events, received>>
  BY DEF BodyReadFails, HeaderReadFails, StaysLocal, Reads
<1>2. DataTypes /\ events # <<>>
  BY <1>1, TypesOfData DEF TypeInv, Stations
<1>3. DataTypes'
  <2>1. CASE BodyReadFails
    <3>1. PICK fd \in Fds, p \in Players :
            /\ Reads(fd, "truncated")
            /\ PlayerOf(fd, p)
            /\ UNCHANGED <<link, backlog, edge, fdClient, clientVars, playerLst,
                           tempPlayerLock, queueVars, events, received>>
      BY <2>1 DEF BodyReadFails
    <3>2. "truncated" \in Messages
      BY DEF Messages
    <3>3. /\ inbox' \in [Clients -> Seq(Messages)]
          /\ player' \in [Players -> PlayerRecords]
          /\ tempPlayerLst' \in [Fds -> Players \cup {Null}]
          /\ fault' \in {"none", "useAfterFree", "doubleDelete"}
      BY <3>1, <3>2, ReadEffect
    <3> QED  BY <1>2, <3>1, <3>3 DEF DataTypes
  <2>2. CASE HeaderReadFails
    <3>1. fault' \in {"none", "useAfterFree", "doubleDelete"}
      BY <2>2, UsesType DEF HeaderReadFails
    <3> QED  BY <1>2, <2>2, <3>1 DEF HeaderReadFails, StaysLocal, DataTypes
  <2> QED  BY <2>1, <2>2
<1>4. /\ thread' \in [Threads -> ThreadRecords] /\ Others(Receiver)
      /\ thread'[Receiver].pc = "remove"
  BY <1>1, BecomesEffect, Roles DEF Positions, Others
<1>5. RepliesGoOut'
  BY <1>1, <1>4, RepliesKept, Roles
<1> QED
  BY <1>1, <1>2, <1>3, <1>4, <1>5, TypeMove, Roles
  DEF OwnStations, Disconnecting

LEMMA TypeReceiver ==
    ASSUME TypeInv, ReceiverStep
    PROVE  TypeInv'
BY TypeEpollWait, TypeAccept, TypeLookup, TypePacketRead, TypeReadFails,
   TypeDisconnect, Roles DEF ReceiverStep

(* A packet is taken from a queue.                                         *)
LEMMA TakenEffect ==
    ASSUME TypeInv, NEW t \in Threads, NEW pc \in Positions, NEW job \in Jobs,
           thread' = [thread EXCEPT ![t] = [Idle EXCEPT !.pc = pc, !.job = job]]
    PROVE  /\ thread' \in [Threads -> ThreadRecords] /\ Others(t)
           /\ thread'[t].pc = pc /\ thread'[t].job = job
<1> DEFINE r == [Idle EXCEPT !.pc = pc, !.job = job]
<1>1. r \in ThreadRecords /\ r.pc = pc /\ r.job = job
  BY IdleType DEF Idle, ThreadRecords, Positions
<1>2. thread' = [thread EXCEPT ![t] = r]
  OBVIOUS
<1> HIDE DEF r
<1> QED  BY <1>1, <1>2 DEF TypeInv, Others

LEMMA IdleEffect ==
    ASSUME TypeInv, NEW t \in Threads, thread' = [thread EXCEPT ![t] = Idle]
    PROVE  /\ thread' \in [Threads -> ThreadRecords] /\ Others(t)
           /\ thread'[t] = Idle
BY IdleType DEF TypeInv, Others

LEMMA RouteEffect ==
    ASSUME TypeInv, NEW w \in Workers, NEW row \in Table,
           thread' = [thread EXCEPT ![w].pc = "run",
                                    ![w].todo = row.outcome.steps,
                                    ![w].result = row.outcome.result]
    PROVE  /\ thread' \in [Threads -> ThreadRecords] /\ Others(w)
           /\ thread'[w].pc = "run" /\ thread'[w].job = thread[w].job
           /\ thread'[w].todo = row.outcome.steps
           /\ thread'[w].result = row.outcome.result
<1> DEFINE steps == row.outcome.steps
           result == row.outcome.result
<1>1. steps \in Seq(Steps) /\ result \in RowResults
  BY RowsArePlanned DEF Planned
<1>2. thread' = [thread EXCEPT ![w].pc = "run", ![w].todo = steps,
                               ![w].result = result]
  OBVIOUS
<1> HIDE DEF steps, result
<1>3. w \in Threads /\ thread \in [Threads -> ThreadRecords]
  BY Roles DEF TypeInv
<1>4. /\ thread' \in [Threads -> ThreadRecords] /\ Others(w)
      /\ thread'[w].pc = "run" /\ thread'[w].job = thread[w].job
      /\ thread'[w].todo = steps /\ thread'[w].result = result
  <2> DEFINE r == [thread[w] EXCEPT !.pc = "run", !.todo = steps,
                                    !.result = result]
  <2>1. /\ r \in ThreadRecords /\ r.pc = "run" /\ r.job = thread[w].job
        /\ r.todo = steps /\ r.result = result
    BY <1>1, <1>3 DEF ThreadRecords, RowResults
  <2>2. thread' = [thread EXCEPT ![w] = r]
    BY <1>2, <1>3 DEF ThreadRecords
  <2> HIDE DEF r
  <2> QED  BY <1>3, <2>1, <2>2 DEF Others
<1> QED  BY <1>4 DEF steps, result

LEMMA DoesEffect ==
    ASSUME TypeInv, NEW w \in Workers, NEW what, Does(w, what)
    PROVE  /\ thread' \in [Threads -> ThreadRecords] /\ Others(w)
           /\ thread'[w].pc = "run" /\ thread'[w].job = thread[w].job
           /\ thread'[w].todo = Tail(thread[w].todo)
           /\ thread'[w].result = thread[w].result
           /\ Head(thread[w].todo) \in Steps /\ thread[w].job \in Jobs
           /\ UNCHANGED <<socketVars, clientVars, incomingPackets, events,
                          received>>
<1>1. w \in Threads /\ thread \in [Threads -> ThreadRecords]
  BY Roles DEF TypeInv
<1>2. thread[w].todo \in Seq(Steps) /\ thread[w].todo # <<>>
  BY <1>1 DEF ThreadRecords, Does
<1>3. Tail(thread[w].todo) \in Seq(Steps) /\ Head(thread[w].todo) \in Steps
  BY <1>2, HeadAndTail
<1> QED  BY <1>1, <1>3 DEF ThreadRecords, Others, Does

LEMMA TypeWorkerSteps ==
    ASSUME TypeInv, NEW w \in Workers,
           \/ SetPlayerState(w) \/ EraseTemp(w) \/ InsertMain(w)
           \/ QueueReply(w)
    PROVE  TypeInv'
<1> DEFINE p == thread[w].job.player
<1> USE DEF socketVars, clientVars, listVars
<1>1. PICK what : Does(w, what)
  BY DEF SetPlayerState, EraseTemp, InsertMain, QueueReply
<1>2. /\ thread' \in [Threads -> ThreadRecords] /\ Others(w)
      /\ thread'[w].pc = "run"
      /\ Head(thread[w].todo) \in Steps /\ thread[w].job \in Jobs
      /\ UNCHANGED <<socketVars, clientVars, incomingPackets, events, received>>
  BY <1>1, DoesEffect
<1>3. p \in Players \cup {Null}
  BY <1>2 DEF Jobs
<1>4. DataTypes /\ w \in Threads /\ w # Receiver /\ w # Sender
  BY TypesOfData, Roles
<1> HIDE DEF p
<1>5. DataTypes' /\ RepliesGoOut'
  <2>1. CASE SetPlayerState(w)
    <3>1. Head(thread[w].todo).state \in PlayerStates
      BY <1>2, <2>1 DEF SetPlayerState, Does, Steps
    <3>2. /\ fault' \in {"none", "useAfterFree", "doubleDelete"}
          /\ player' \in [Players -> PlayerRecords]
      BY <1>4, <2>1, <3>1, UsesType
      DEF SetPlayerState, DataTypes, PlayerRecords, p
    <3>3. UNCHANGED <<listVars, outgoingPackets>>
      BY <2>1 DEF SetPlayerState
    <3> QED  BY <1>2, <1>4, <3>2, <3>3, RepliesKept DEF DataTypes
  <2>2. CASE EraseTemp(w)
    <3>1. /\ fault' \in {"none", "useAfterFree", "doubleDelete"}
          /\ tempPlayerLst' \in [Fds -> Players \cup {Null}]
          /\ tempPlayerLock' = w
          /\ UNCHANGED <<player, playerLst, outgoingPackets>>
      BY <1>4, <2>2, UsesType DEF EraseTemp, DataTypes
    <3> QED  BY <1>2, <1>4, <3>1, RepliesKept DEF DataTypes
  <2>3. CASE InsertMain(w)
    <3>1. /\ playerLst' \in [Fds -> Players \cup {Null}]
          /\ tempPlayerLock' = Null
          /\ UNCHANGED <<player, tempPlayerLst, outgoingPackets, fault>>
      BY <1>3, <1>4, <2>3 DEF InsertMain, DataTypes, p
    <3> QED  BY <1>2, <1>4, <3>1, RepliesKept DEF DataTypes
  <2>4. CASE QueueReply(w)
    <3> DEFINE reply == Head(thread[w].todo).reply
               job == [thread[w].job EXCEPT !.content = reply]
    <3>1. reply \in Replies
      BY <1>2, <2>4 DEF QueueReply, Does, Steps
    <3>2. job \in Jobs /\ job.content \in Replies
      BY <1>2, <3>1 DEF Jobs
    <3>3. /\ outgoingPackets' = Append(outgoingPackets, job)
          /\ UNCHANGED <<player, listVars>>
          /\ fault' \in {"none", "useAfterFree", "doubleDelete"}
      BY <2>4, UsesType DEF QueueReply
    <3> HIDE DEF job
    <3>4. /\ outgoingPackets' \in Seq(Jobs)
          /\ Len(outgoingPackets') = Len(outgoingPackets) + 1
          /\ Len(outgoingPackets) \in Nat
          /\ \A i \in 1..Len(outgoingPackets) :
                outgoingPackets'[i] = outgoingPackets[i]
          /\ outgoingPackets'[Len(outgoingPackets) + 1] = job
      BY <1>4, <3>2, <3>3, Appended DEF DataTypes
    <3>5. RepliesGoOut'
      BY <1>2, <1>4, <3>2, <3>4, Roles DEF TypeInv, RepliesGoOut, Others
    <3> QED  BY <1>2, <1>4, <3>3, <3>4, <3>5 DEF DataTypes
  <2> QED  BY <2>1, <2>2, <2>3, <2>4
<1> QED  BY <1>2, <1>4, <1>5, TypeMove DEF OwnStations

LEMMA TypeWorker ==
    ASSUME TypeInv, NEW w \in Workers, WorkerStep(w)
    PROVE  TypeInv'
<1> USE DEF socketVars, clientVars, listVars, queueVars, OwnStations
<1>1. DataTypes /\ w \in Threads /\ w # Receiver /\ w # Sender
  BY TypesOfData, Roles
<1>2. CASE WorkerPops(w)
  <2>1. /\ Head(incomingPackets) \in Jobs
        /\ Tail(incomingPackets) \in Seq(Jobs)
    BY <1>1, <1>2, HeadAndTail DEF WorkerPops, DataTypes
  <2>2. /\ thread' \in [Threads -> ThreadRecords] /\ Others(w)
        /\ thread'[w].pc = "route"
    BY <1>1, <1>2, <2>1, TakenEffect DEF WorkerPops, Positions
  <2>3. DataTypes' /\ UNCHANGED <<events, outgoingPackets>>
    BY <1>1, <1>2, <2>1 DEF WorkerPops, QueueStep, DataTypes
  <2> QED  BY <1>1, <2>2, <2>3, RepliesKept, TypeMove
<1>3. CASE Route(w)
  <2>1. PICK row \in Table :
          thread' = [thread EXCEPT ![w].pc = "run",
                                   ![w].todo = row.outcome.steps,
                                   ![w].result = row.outcome.result]
    BY <1>3 DEF Route
  <2>2. /\ thread' \in [Threads -> ThreadRecords] /\ Others(w)
        /\ thread'[w].pc = "run"
    BY <2>1, RouteEffect
  <2>3. fault' \in {"none", "useAfterFree", "doubleDelete"}
    BY <1>3, UsesType DEF Route
  <2>4. DataTypes' /\ UNCHANGED <<events, outgoingPackets>>
    BY <1>1, <1>3, <2>3 DEF Route, StaysLocal, DataTypes
  <2> QED  BY <1>1, <2>2, <2>4, RepliesKept, TypeMove
<1>4. CASE ReturnsSend(w)
  <2> DEFINE job == [thread[w].job EXCEPT !.content = thread[w].result]
  <2>1. job \in Jobs /\ job.content \in Replies
    BY <1>1, <1>4, ThreadTypes DEF ReturnsSend, Jobs
  <2>2. outgoingPackets' = Append(outgoingPackets, job)
    BY <1>4 DEF ReturnsSend
  <2> HIDE DEF job
  <2>3. /\ outgoingPackets' \in Seq(Jobs)
        /\ Len(outgoingPackets') = Len(outgoingPackets) + 1
        /\ Len(outgoingPackets) \in Nat
        /\ \A i \in 1..Len(outgoingPackets) :
              outgoingPackets'[i] = outgoingPackets[i]
        /\ outgoingPackets'[Len(outgoingPackets) + 1] = job
    BY <1>1, <2>1, <2>2, Appended DEF DataTypes
  <2>4. /\ thread' \in [Threads -> ThreadRecords] /\ Others(w)
        /\ thread'[w].pc = "idle"
    BY <1>1, <1>4, IdleEffect DEF ReturnsSend, Idle
  <2>5. RepliesGoOut'
    BY <1>1, <2>1, <2>3, <2>4, Roles DEF TypeInv, RepliesGoOut, Others
  <2>6. DataTypes' /\ UNCHANGED events
    BY <1>1, <1>4, <2>3 DEF ReturnsSend, QueueStep, DataTypes
  <2> QED  BY <1>1, <2>4, <2>5, <2>6, TypeMove
<1>5. CASE ReturnsDisconnect(w) \/ ReturnsOk(w)
  <2>1. /\ thread' \in [Threads -> ThreadRecords] /\ Others(w)
        /\ thread'[w].pc \in {"idle", "remove"}
    BY <1>1, <1>5, IdleEffect, BecomesEffect
    DEF ReturnsDisconnect, ReturnsOk, Positions, Others, Idle
  <2>2. StaysLocal /\ UNCHANGED fault
    BY <1>5 DEF ReturnsDisconnect, ReturnsOk
  <2>3. DataTypes' /\ UNCHANGED <<events, outgoingPackets>>
    BY <1>1, <2>2 DEF StaysLocal, DataTypes
  <2> QED  BY <1>1, <2>1, <2>3, RepliesKept, TypeMove DEF Disconnecting
<1>6. CASE \/ SetPlayerState(w) \/ EraseTemp(w) \/ InsertMain(w)
           \/ QueueReply(w)
  BY <1>6, TypeWorkerSteps
<1>7. CASE Disconnect(w)
  BY <1>1, <1>7, TypeDisconnect
<1> QED  BY <1>2, <1>3, <1>4, <1>5, <1>6, <1>7 DEF WorkerStep

LEMMA TypeSender ==
    ASSUME TypeInv, SenderStep
    PROVE  TypeInv'
<1> USE DEF socketVars, clientVars, listVars, queueVars, OwnStations
<1>1. DataTypes /\ Sender \in Threads /\ Receiver # Sender
  BY TypesOfData, Roles
<1>2. CASE SenderPops
  <2> DEFINE job == Head(outgoingPackets)
             rest == Tail(outgoingPackets)
  <2>1. /\ job \in Jobs /\ rest \in Seq(Jobs) /\ job = outgoingPackets[1]
        /\ Len(outgoingPackets) \in Nat \ {0}
        /\ Len(rest) = Len(outgoingPackets) - 1
        /\ \A i \in 1..Len(rest) : rest[i] = outgoingPackets[i + 1]
    BY <1>1, <1>2, HeadAndTail DEF SenderPops, DataTypes
  <2>2. /\ outgoingPackets' = rest
        /\ thread' = [thread EXCEPT
                         ![Sender] = [Idle EXCEPT !.pc = "send", !.job = job]]
        /\ QueueStep /\ UNCHANGED incomingPackets
    BY <1>2 DEF SenderPops
  <2> HIDE DEF job, rest
  <2>3. /\ thread' \in [Threads -> ThreadRecords] /\ Others(Sender)
        /\ thread'[Sender].pc = "send" /\ thread'[Sender].job = job
    BY <1>1, <2>1, <2>2, TakenEffect DEF Positions
  <2>4. DataTypes' /\ UNCHANGED events
    BY <1>1, <2>1, <2>2 DEF QueueStep, DataTypes
  <2>5. RepliesGoOut'
    BY <2>1, <2>2, <2>3 DEF TypeInv, RepliesGoOut
  <2> QED  BY <1>1, <2>3, <2>4, <2>5, TypeMove
<1>3. CASE Send
  <2>1. /\ thread' \in [Threads -> ThreadRecords] /\ Others(Sender)
        /\ thread'[Sender].pc = "check"
    BY <1>1, <1>3, BecomesEffect DEF Send, Positions, Others
  <2>2. received' \in [Clients -> SUBSET Replies]
    <3>1. thread[Sender].job.content \in Replies
      BY <1>3 DEF Send, TypeInv, RepliesGoOut
    <3> QED  BY <1>1, <1>3, <3>1 DEF Send, DataTypes
  <2>3. DataTypes' /\ UNCHANGED <<events, outgoingPackets>>
    BY <1>1, <1>3, <2>2 DEF Send, DataTypes
  <2> QED  BY <1>1, <2>1, <2>3, RepliesKept, TypeMove
<1>4. CASE CheckState
  <2>1. /\ thread' \in [Threads -> ThreadRecords] /\ Others(Sender)
        /\ thread'[Sender].pc \in {"idle", "remove"}
    BY <1>1, <1>4, IdleEffect, BecomesEffect
    DEF CheckState, Positions, Others, Idle
  <2>2. fault' \in {"none", "useAfterFree", "doubleDelete"}
    BY <1>4, UsesType DEF CheckState
  <2>3. DataTypes' /\ UNCHANGED <<events, outgoingPackets>>
    BY <1>1, <1>4, <2>2 DEF CheckState, StaysLocal, DataTypes
  <2> QED  BY <1>1, <2>1, <2>3, RepliesKept, TypeMove DEF Disconnecting
<1>5. CASE Disconnect(Sender)
  BY <1>1, <1>5, TypeDisconnect
<1> QED  BY <1>2, <1>3, <1>4, <1>5 DEF SenderStep

LEMMA TypeStep == TypeInv /\ [Next]_vars => TypeInv'
<1> SUFFICES ASSUME TypeInv, [Next]_vars PROVE TypeInv'
  OBVIOUS
<1>1. CASE Next
  BY <1>1, TypeClient, TypeReceiver, TypeWorker, TypeSender DEF Next
<1>2. CASE UNCHANGED vars
  BY <1>2, TypeFrame
<1> QED  BY <1>1, <1>2

(* Every variable keeps its type, every thread is at a place of its own    *)
(* loop, and only replies are sent: for any number of clients and workers, *)
(* whatever the clients do and whatever the handlers leave to be done.     *)
THEOREM TypesAreKept == Spec => []TypeInv
<1> QED  BY TypeInit, TypeStep, PTL DEF Spec

(* The type invariant that the runs check.                                 *)
THEOREM TypeCorrect == Spec => []TypeOK
<1>1. TypeInv => TypeOK
  BY DEF TypeInv
<1> QED  BY <1>1, TypesAreKept, PTL

-----------------------------------------------------------------------------
(* The invariant.                                                          *)

(* What a lemma about a step has to show.                                  *)
Kept == /\ SocketInv /\ InboxInv /\ JobInv /\ OneAtATime
        /\ ListInv /\ PlanInv /\ DoomInv /\ EventInv /\ BlankInv
        /\ UnknownInv /\ BirthInv /\ NoFault

-----------------------------------------------------------------------------
(* Packets, players and clients                                            *)

LEMMA ValidTypes ==
    ASSUME TypeInv, NEW job, Valid(job)
    PROVE  /\ job.client \in Clients /\ job.client # Null
           /\ job.player \in Players /\ job.player # Null
           /\ job.fd \in Fds /\ Live(job.player)
           /\ fdClient[job.fd] = job.client
           /\ player[job.player].mem = "live"
           /\ player[job.player].fd = job.fd
BY NullIsNothing DEF Valid, Live

(* No two live players have the same descriptor.                           *)
LEMMA OnePlayer ==
    ASSUME TypeInv, ListInv, NEW p \in Players, NEW q \in Players,
           player[p].mem = "live", player[q].mem = "live",
           player[p].fd = player[q].fd
    PROVE  p = q
<1>1. p # Null /\ q # Null
  BY NullIsNothing
<1>2. player[p].fd \in Fds
  BY DEF ListInv
<1> QED  BY <1>1, <1>2 DEF ListInv, Moving

(* Packets of different clients have different players and descriptors.    *)
LEMMA OtherJob ==
    ASSUME NEW a, NEW b, Valid(a), Valid(b), a.client # b.client
    PROVE  a.player # b.player /\ a.fd # b.fd
BY DEF Valid

(* The same for what the threads hold.                                     *)
LEMMA OtherThread ==
    ASSUME TypeInv, JobInv, NEW u \in Threads, NEW job, Valid(job),
           thread[u].job.client # job.client
    PROVE  thread[u].job.player # job.player /\ thread[u].job.fd # job.fd
<1>1. ThreadHas(u)
  BY DEF JobInv
<1>2. CASE thread[u].job = NoJob
  BY <1>2, NullIsNothing, ValidTypes DEF NoJob
<1>3. CASE thread[u].job # NoJob
  BY <1>1, <1>3, NullIsNothing, ValidTypes DEF ThreadHas, Valid
<1> QED  BY <1>2, <1>3

(* A packet on its way stays valid when no player dies or moves to another *)
(* descriptor, and no descriptor changes hands.                            *)
LEMMA ValidKept ==
    ASSUME TypeInv, NEW job, Valid(job), UNCHANGED fdClient,
           \A q \in Players : /\ player'[q].mem = player[q].mem
                              /\ player'[q].fd = player[q].fd
    PROVE  Valid(job)'
BY DEF Valid

LEMMA ThreadHasKept ==
    ASSUME TypeInv, JobInv, NEW u \in Threads, thread'[u] = thread[u],
           UNCHANGED fdClient,
           \A q \in Players : /\ player'[q].mem = player[q].mem
                              /\ player'[q].fd = player[q].fd
    PROVE  ThreadHas(u)'
<1>1. ThreadHas(u) /\ thread[u].job.player \in Players \cup {Null}
  BY ThreadTypes DEF JobInv, Jobs
<1> QED  BY <1>1 DEF ThreadHas, Valid

(* Where a thread that is busy with a packet is, nobody else has another   *)
(* packet or reply of its client, except for the replies of a worker.      *)
LEMMA WorkerBusy ==
    ASSUME TypeInv, JobInv, OneAtATime, EventInv, InboxInv, NEW w \in Workers,
           thread[w].pc # "idle"
    PROVE  LET c == thread[w].job.client
           IN  /\ c \in Clients /\ c # Null
               /\ ~Waits(c) /\ sent[c] # 0 /\ Len(inbox[c]) = 0
               /\ ~gone[c] /\ inbox[c] = <<>> /\ ~Requested(c)
               /\ \A i \in 1..Len(incomingPackets) :
                     incomingPackets[i].client # c
               /\ \A v \in Workers \ {w} : thread[v].job.client # c
               /\ thread[Receiver].job.client # c
               /\ thread[Sender].pc \in Disconnecting =>
                     thread[Sender].job.client # c
               /\ Unanswered(w) =>
                     /\ thread[Sender].job.client # c
                     /\ \A i \in 1..Len(outgoingPackets) :
                           outgoingPackets[i].client # c
<1> DEFINE c == thread[w].job.client
<1>0. /\ w \in Threads /\ w # Receiver /\ w # Sender
      /\ thread[w].pc \in {"idle", "route", "run"} \cup Disconnecting
  BY Roles DEF TypeInv, Stations
<1>1. c \in Clients /\ c # Null
  BY <1>0, NullIsNothing DEF JobInv, ThreadHas, Disconnecting
<1>2. Served(c)
  BY DEF Served
<1>3. ~Waits(c) /\ sent[c] # 0 /\ ~Requested(c)
  BY <1>1, <1>2 DEF OneAtATime
<1>4. inbox[c] = <<>> /\ ~gone[c] /\ Len(inbox[c]) = 0
  BY <1>3 DEF Waits
<1>5. \A i \in 1..Len(incomingPackets) : incomingPackets[i].client # c
  BY <1>3 DEF Requested, Has
<1>6. \A v \in Workers \ {w} : thread[v].job.client # c
  BY <1>1 DEF OneAtATime
<1>7. thread[Receiver].job.client # c
  BY <1>1, <1>3 DEF OneAtATime
<1>8. thread[Sender].pc \in Disconnecting => thread[Sender].job.client # c
  BY <1>2 DEF OneAtATime
<1>9. Unanswered(w) =>
          /\ thread[Sender].job.client # c
          /\ \A i \in 1..Len(outgoingPackets) : outgoingPackets[i].client # c
  BY DEF OneAtATime, Answered, Has
<1> HIDE DEF c
<1> QED
  BY <1>1, <1>3, <1>4, <1>5, <1>6, <1>7, <1>8, <1>9 DEF c

(* A player that a worker is busy with is nobody else's.                   *)
LEMMA WorkersPlayer ==
    ASSUME TypeInv, JobInv, OneAtATime, EventInv, InboxInv, ListInv,
           NEW w \in Workers, thread[w].pc \in {"route", "run"}
    PROVE  LET p == thread[w].job.player
               fd == thread[w].job.fd
               c == thread[w].job.client
           IN  /\ Valid(thread[w].job)
               /\ p \in Players /\ p # Null /\ Live(p) /\ fd \in Fds
               /\ player[p].mem = "live" /\ player[p].fd = fd
               /\ fdClient[fd] = c
               /\ \A v \in Workers \ {w} : /\ thread[v].job.player # p
                                           /\ thread[v].job.fd # fd
               /\ thread[Receiver].job.player # p
               /\ thread[Receiver].job.fd # fd
               /\ \A i \in 1..Len(incomingPackets) :
                     incomingPackets[i].player # p
               /\ Unanswered(w) =>
                     /\ thread[Sender].job.player # p
                     /\ thread[Sender].job.fd # fd
                     /\ \A i \in 1..Len(outgoingPackets) :
                           outgoingPackets[i].player # p
               /\ \/ tempPlayerLst[fd] = p \/ playerLst[fd] = p
                  \/ tempPlayerLock = w
<1> DEFINE p == thread[w].job.player
           fd == thread[w].job.fd
           c == thread[w].job.client
<1>0. w \in Threads /\ Receiver \in Threads /\ Sender \in Threads
      /\ Workers \subseteq Threads
  BY Roles
<1>1. Valid(thread[w].job)
  <2>1. ThreadHas(w) /\ w # Receiver
    BY <1>0, Roles DEF JobInv
  <2> QED  BY <2>1 DEF ThreadHas
<1>2. /\ p \in Players /\ p # Null /\ Live(p) /\ fd \in Fds
      /\ player[p].mem = "live" /\ player[p].fd = fd /\ fdClient[fd] = c
  BY <1>1, ValidTypes
<1>3. /\ \A v \in Workers \ {w} : thread[v].job.client # c
      /\ thread[Receiver].job.client # c
      /\ \A i \in 1..Len(incomingPackets) : incomingPackets[i].client # c
      /\ Unanswered(w) =>
            /\ thread[Sender].job.client # c
            /\ \A i \in 1..Len(outgoingPackets) :
                  outgoingPackets[i].client # c
  BY WorkerBusy
<1>4. /\ \A v \in Workers \ {w} : /\ thread[v].job.player # p
                                  /\ thread[v].job.fd # fd
      /\ thread[Receiver].job.player # p /\ thread[Receiver].job.fd # fd
      /\ Unanswered(w) => /\ thread[Sender].job.player # p
                          /\ thread[Sender].job.fd # fd
  BY <1>0, <1>1, <1>3, OtherThread
<1>5. /\ \A i \in 1..Len(incomingPackets) : incomingPackets[i].player # p
      /\ Unanswered(w) => \A i \in 1..Len(outgoingPackets) :
                              outgoingPackets[i].player # p
  BY <1>1, <1>3, OtherJob DEF JobInv
<1>6. tempPlayerLst[fd] = p \/ playerLst[fd] = p \/ tempPlayerLock = w
  <2>1. \/ tempPlayerLst[fd] = p \/ playerLst[fd] = p
        \/ tempPlayerLock # Null /\ thread[tempPlayerLock].job.player = p
    BY <1>2 DEF ListInv
  <2>2. tempPlayerLock \in Workers \cup {Null}
    BY DEF TypeInv, TypeOK
  <2> QED  BY <1>4, <2>1, <2>2
<1> HIDE DEF p, fd, c
<1> QED  BY <1>1, <1>2, <1>4, <1>5, <1>6 DEF p, fd, c

-----------------------------------------------------------------------------
(* What a step leaves alone                                                *)

LEMMA WorkerFrame ==
    ASSUME IInv, NEW w \in Workers, Others(w),
           UNCHANGED <<socketVars, clientVars, events>>
    PROVE  SocketInv' /\ InboxInv' /\ EventInv' /\ thread'[Receiver] = thread[Receiver]
           /\ thread'[Sender] = thread[Sender]
<1> USE DEF socketVars, clientVars
<1>1. /\ thread'[Receiver] = thread[Receiver]
      /\ thread'[Sender] = thread[Sender]
  BY Roles DEF Others
<1>2. SocketInv'
  BY DEF IInv, SocketInv
<1>3. InboxInv'
  BY DEF IInv, InboxInv
<1>4. EventInv'
  BY <1>1 DEF IInv, EventInv, Waits
<1> QED  BY <1>1, <1>2, <1>3, <1>4

LEMMA JobsKept ==
    ASSUME TypeInv, JobInv, NEW t \in Threads, Others(t), ThreadHas(t)',
           UNCHANGED <<fdClient, queueVars>>,
           \A q \in Players : /\ player'[q].mem = player[q].mem
                              /\ player'[q].fd = player[q].fd
    PROVE  JobInv'
<1>1. \A u \in Threads \ {t} : ThreadHas(u)'
  BY ThreadHasKept DEF Others
<1>2. /\ \A i \in 1..Len(incomingPackets) : Valid(incomingPackets[i])'
      /\ \A i \in 1..Len(outgoingPackets) : Valid(outgoingPackets[i])'
  BY ValidKept DEF JobInv, queueVars
<1> QED  BY <1>1, <1>2 DEF JobInv, queueVars

LEMMA BirthKept ==
    ASSUME BirthInv,
           \A q \in Players : player'[q].mem = "unborn" <=> player[q].mem = "unborn"
    PROVE  BirthInv'
<1>1. {q \in Players : player'[q].mem # "unborn"}
      = {q \in Players : player[q].mem # "unborn"}
  OBVIOUS
<1> QED  BY <1>1 DEF BirthInv

-----------------------------------------------------------------------------
(* The steps of a worker                                                   *)

LEMMA WorkerPopsKeeps ==
    ASSUME IInv, NEW w \in Workers, WorkerPops(w)
    PROVE  Kept'
<1> USE DEF IInv, socketVars, clientVars, listVars, queueVars
<1> DEFINE job == Head(incomingPackets)
           rest == Tail(incomingPackets)
           c == job.client
<1>1. /\ job \in Jobs /\ job = incomingPackets[1]
      /\ Len(incomingPackets) \in Nat \ {0}
      /\ Len(rest) = Len(incomingPackets) - 1
      /\ \A i \in 1..Len(rest) : rest[i] = incomingPackets[i + 1]
  BY HeadAndTail, TypesOfData DEF WorkerPops, DataTypes
<1>2. /\ thread' = [thread EXCEPT ![w] = [Idle EXCEPT !.pc = "route",
                                                     !.job = job]]
      /\ incomingPackets' = rest /\ thread[w].pc = "idle"
      /\ UNCHANGED <<socketVars, clientVars, player, listVars, events,
                     received, fault, outgoingPackets>>
  BY DEF WorkerPops, QueueStep
<1>3. w \in Threads /\ w # Receiver /\ w # Sender
  BY Roles
<1> HIDE DEF job, rest
<1>4. /\ Others(w) /\ thread'[w].pc = "route" /\ thread'[w].job = job
  BY <1>1, <1>2, <1>3, TakenEffect DEF Positions
<1>5. /\ SocketInv' /\ InboxInv' /\ EventInv'
      /\ thread'[Receiver] = thread[Receiver]
      /\ thread'[Sender] = thread[Sender]
  BY <1>2, <1>4, WorkerFrame
<1>6. Valid(job) /\ Requested(c)
  BY <1>1 DEF JobInv, Requested, Has
<1>7. /\ c \in Clients /\ c # Null /\ job.player \in Players
      /\ ~Waits(c) /\ sent[c] # 0 /\ ~Served(c) /\ ~Answered(c)
  BY <1>6, ValidTypes DEF OneAtATime
<1>8. thread[w].job = NoJob
  BY <1>2, <1>3 DEF JobInv, ThreadHas
<1>9. /\ \A i \in 1..Len(rest) : rest[i].client # c
      /\ \A d : Has(rest, d) => Has(incomingPackets, d)
  BY <1>1 DEF OneAtATime, Has
<1> HIDE DEF c
<1>10. /\ \A v \in Workers \ {w} : thread'[v] = thread[v]
       /\ \A v \in Workers : thread[v].job.client # c
  BY <1>3, <1>4, <1>7, Roles DEF Others, Served
<1>19. \A d : Served(d)' => Served(d) \/ d = c
  BY <1>4, <1>10 DEF Served, c
<1>11. JobInv'
  <2>1. ThreadHas(w)'
    BY <1>2, <1>3, <1>4, <1>6, ValidTypes, ValidKept DEF ThreadHas, Valid
  <2>2. \A u \in Threads \ {w} : ThreadHas(u)'
    BY <1>2, <1>4, ThreadHasKept DEF Others
  <2>3. /\ \A i \in 1..Len(rest) : Valid(rest[i])
        /\ \A i \in 1..Len(outgoingPackets) : Valid(outgoingPackets[i])
    BY <1>1 DEF JobInv
  <2> QED  BY <1>2, <2>1, <2>2, <2>3, ValidKept DEF JobInv
<1>12. OneAtATime'
  <2>1. \A d : Answered(d)' <=> Answered(d)
    BY <1>2, <1>5 DEF Answered, Has
  <2>2. \A d : Requested(d)' => Requested(d) /\ d # c
    BY <1>2, <1>9 DEF Requested, Has
  <2>3. \A d : Waits(d)' <=> Waits(d)
    BY <1>2 DEF Waits
  <2>4. \A v \in Workers : Unanswered(v)' => ~Answered(thread'[v].job.client)
    BY <1>4, <1>7, <1>10 DEF OneAtATime, Unanswered, c
  <2>5. \A v, u \in Workers :
          thread'[v].job.client = thread'[u].job.client =>
              v = u \/ thread'[v].job.client = Null
    BY <1>4, <1>10 DEF OneAtATime, c
  <2>6. \A i, j \in 1..Len(rest) : rest[i].client = rest[j].client => i = j
    BY <1>1 DEF OneAtATime
  <2>7. thread[Sender].job.client # c
    BY <1>7 DEF Answered
  <2> QED
    BY <1>2, <1>5, <1>7, <1>19, <2>1, <2>2, <2>3, <2>4, <2>5, <2>6, <2>7
    DEF OneAtATime
<1>13. ListInv'
  <2>1. tempPlayerLock # Null => tempPlayerLock \in Workers \ {w}
    BY <1>2, <1>3 DEF ListInv, Moving, TypeInv, TypeOK
  <2>2. \A v \in Workers : AboutToErase(v) => v # w
    BY <1>2 DEF AboutToErase
  <2> QED  BY <1>2, <1>10, <2>1, <2>2 DEF ListInv, Moving, AboutToErase
<1>14. PlanInv'
  BY <1>2, <1>4, <1>10 DEF PlanInv
<1>15. DoomInv'
  <2>1. \A p \in Players : thread[w].job.player # p
    BY <1>8, NullIsNothing DEF NoJob
  <2>2. /\ \A i \in 1..Len(outgoingPackets) : outgoingPackets[i].client # c
        /\ thread[Sender].job.client # c
    BY <1>7 DEF Answered, Has
  <2>3. ASSUME NEW p \in Players, Doomed(p)'
        PROVE  \/ \E v \in Workers : thread'[v].job.player = p
               \/ thread'[Sender].job.player = p
               \/ \E i \in 1..Len(outgoingPackets) :
                     outgoingPackets[i].player = p
    BY <1>2, <1>5, <1>10, <2>1, <2>3 DEF DoomInv, Doomed
  <2>4. ASSUME NEW i \in 1..Len(outgoingPackets),
               Doomed(outgoingPackets[i].player)
        PROVE  LET d == outgoingPackets[i].client
               IN  /\ ~Served(d)' /\ thread[Sender].job.client # d
                   /\ \A j \in 1..Len(outgoingPackets) :
                         outgoingPackets[j].client = d => j = i
    BY <1>2, <1>19, <2>2, <2>4 DEF DoomInv
  <2>5. ASSUME thread[Sender].pc \in {"send", "check"},
               Doomed(thread[Sender].job.player)
        PROVE  LET d == thread[Sender].job.client
               IN  ~Served(d)' /\ ~Has(outgoingPackets, d)
    BY <1>5, <1>19, <2>2, <2>5 DEF DoomInv
  <2> QED  BY <1>2, <1>5, <2>3, <2>4, <2>5 DEF DoomInv, Doomed, Served, Has
<1>16. BlankInv'
  BY <1>2, <1>4, <1>5, Roles DEF BlankInv, Blank, Others
<1>17. UnknownInv'
  BY <1>1, <1>2, <1>4, <1>10 DEF UnknownInv
<1>18. BirthInv' /\ NoFault'
  BY <1>2, BirthKept DEF NoFault
<1> QED
  BY <1>5, <1>11, <1>12, <1>13, <1>14, <1>15, <1>16, <1>17, <1>18 DEF Kept

(* A worker that goes on with its packet, or lays it down.                 *)
LEMMA OneAtATimeKept ==
    ASSUME IInv, NEW w \in Workers, Others(w),
           UNCHANGED <<inbox, clientVars, queueVars>>,
           thread'[w].job \in {thread[w].job, NoJob},
           Unanswered(w)' => Unanswered(w) /\ thread'[w].job = thread[w].job
    PROVE  OneAtATime'
<1> USE DEF IInv, clientVars, queueVars
<1>1. /\ thread'[Receiver] = thread[Receiver]
      /\ thread'[Sender] = thread[Sender]
      /\ \A v \in Workers \ {w} : thread'[v] = thread[v]
  BY Roles DEF Others
<1>2. /\ \A d \in Clients : Served(d)' => Served(d)
      /\ \A d : Answered(d)' <=> Answered(d)
      /\ \A d : Requested(d)' <=> Requested(d)
      /\ \A d : Waits(d)' <=> Waits(d)
      /\ \A d : Has(outgoingPackets, d)' <=> Has(outgoingPackets, d)
  BY <1>1, NullIsNothing DEF Served, Answered, Requested, Waits, Has, NoJob
<1>3. ASSUME NEW v \in Workers, Unanswered(v)'
      PROVE  ~Answered(thread'[v].job.client)
  <2>1. Unanswered(v) /\ thread'[v].job = thread[v].job
    BY <1>1, <1>3 DEF Unanswered
  <2> QED  BY <2>1 DEF OneAtATime
<1>4. ASSUME NEW u \in Workers, NEW v \in Workers,
             thread'[u].job.client = thread'[v].job.client
      PROVE  u = v \/ thread'[u].job.client = Null
  BY <1>1, <1>4 DEF OneAtATime, NoJob
<1>5. thread[Sender].pc \in Disconnecting => thread[Sender].job.client \in Clients
  BY Roles, NullIsNothing DEF JobInv, ThreadHas, Disconnecting
<1>6. (thread[Sender].pc \in Disconnecting =>
           LET c == thread[Sender].job.client
           IN  ~Has(outgoingPackets, c) /\ ~Served(c))'
  BY <1>1, <1>2, <1>5 DEF OneAtATime
<1>7. ASSUME NEW c \in Clients
      PROVE  /\ Waits(c)' \/ sent'[c] = 0 =>
                   ~Requested(c)' /\ ~Served(c)' /\ ~Answered(c)'
             /\ Requested(c)' => ~Served(c)' /\ ~Answered(c)'
  BY <1>2 DEF OneAtATime
<1>8. /\ \A i, j \in 1..Len(incomingPackets') :
             incomingPackets'[i].client = incomingPackets'[j].client => i = j
      /\ (thread[Receiver].job.client # Null =>
              Waits(thread[Receiver].job.client))'
      /\ (thread[Receiver].pc \in Disconnecting =>
              gone[thread[Receiver].job.client])'
  BY <1>1, <1>2 DEF OneAtATime
<1>9. (\A v \in Workers : Unanswered(v) => ~Answered(thread[v].job.client))'
  BY <1>1, <1>2, <1>3
<1> QED  BY <1>4, <1>6, <1>7, <1>8, <1>9 DEF OneAtATime

(* The plan of a handler is made; nothing that others see is done yet.     *)
LEMMA RouteKeeps ==
    ASSUME IInv, NEW w \in Workers, Route(w)
    PROVE  Kept'
<1> USE DEF IInv, socketVars, clientVars, listVars, queueVars
<1> DEFINE p == thread[w].job.player
           fd == thread[w].job.fd
<1>1. PICK row \in Table :
        /\ row.state = player[p].state
        /\ thread[w].job.content \in row.on
        /\ thread' = [thread EXCEPT ![w].pc = "run",
                                    ![w].todo = row.outcome.steps,
                                    ![w].result = row.outcome.result]
  BY DEF Route
<1>2. /\ Others(w) /\ thread'[w].pc = "run"
      /\ thread'[w].job = thread[w].job
      /\ thread'[w].todo = row.outcome.steps
      /\ thread'[w].result = row.outcome.result
  BY <1>1, RouteEffect
<1>3. /\ thread[w].pc = "route" /\ Uses(p)
      /\ UNCHANGED <<socketVars, clientVars, player, listVars, queueVars,
                     events, received>>
  BY DEF Route, StaysLocal
<1>4. /\ w \in Threads /\ \A v \in Workers \ {w} : thread'[v] = thread[v]
      /\ \A v \in Workers : thread'[v].job = thread[v].job
  BY <1>2, Roles DEF Others
<1>5. /\ SocketInv' /\ InboxInv' /\ EventInv'
      /\ thread'[Receiver] = thread[Receiver]
      /\ thread'[Sender] = thread[Sender]
  BY <1>2, <1>3, WorkerFrame
<1>6. /\ Valid(thread[w].job) /\ Live(p) /\ player[p].fd = fd /\ fd \in Fds
      /\ p \in Players /\ p # Null
      /\ tempPlayerLst[fd] = p \/ playerLst[fd] = p \/ tempPlayerLock = w
  BY <1>3, WorkersPlayer
<1>7. fault' = fault
  BY <1>3, <1>6 DEF Uses
<1>8. tempPlayerLock # w
  BY <1>3, NullIsNothing DEF ListInv, Moving
<1> HIDE DEF p, fd
<1>9. JobInv'
  <2>1. ThreadHas(w)'
    BY <1>2, <1>3, <1>6 DEF ThreadHas, Valid, p
  <2> QED  BY <1>2, <1>3, <1>4, <2>1, JobsKept
<1>10. OneAtATime'
  BY <1>2, <1>3, OneAtATimeKept DEF Unanswered
<1>11. ListInv'
  <2>1. tempPlayerLock # Null => tempPlayerLock \in Workers \ {w}
    BY <1>8 DEF TypeInv, TypeOK
  <2>2. \A v \in Workers : AboutToErase(v) => v # w
    BY <1>3 DEF AboutToErase
  <2> QED  BY <1>3, <1>4, <2>1, <2>2 DEF ListInv, Moving, AboutToErase
<1>12. PlanInv'
  <2>1. Planned(row)
    BY RowsArePlanned
  <2>2. row.on # {"unknown"} \/ row.state # "Configuration"
    BY <1>1, <1>3 DEF UnknownInv, p
  <2>3. row.state = "Handshake" => tempPlayerLst[fd] = p
    <3>1. playerLst[fd] # Null => player[playerLst[fd]].state # "Handshake"
      BY <1>6 DEF ListInv
    <3> QED  BY <1>1, <1>6, <1>8, <3>1 DEF p
  <2>4. \/ Replying(player[p].state, thread'[w].todo, thread'[w].result)
        \/ ChangingState(player[p].state, thread'[w].todo, thread'[w].result)
        \/ /\ Promoting(player[p].state, thread'[w].todo, thread'[w].result)
           /\ tempPlayerLst[player[p].fd] = p
    BY <1>1, <1>2, <1>6, <2>1, <2>2, <2>3 DEF Planned
  <2> QED  BY <1>2, <1>3, <1>4, <2>4 DEF PlanInv, p
<1>13. DoomInv'
  BY <1>3, <1>4, <1>5 DEF DoomInv, Doomed, Served, Has
<1>14. BlankInv'
  BY <1>2, <1>3, <1>5 DEF BlankInv, Blank, Others
<1>15. UnknownInv'
  BY <1>2, <1>3, <1>4 DEF UnknownInv
<1>16. BirthInv' /\ NoFault'
  BY <1>3, <1>7, BirthKept DEF NoFault
<1> QED
  BY <1>5, <1>9, <1>10, <1>11, <1>12, <1>13, <1>14, <1>15, <1>16 DEF Kept

(* Only the steps of a plan are run.                                       *)
LEMMA PlanOf ==
    ASSUME IInv, NEW w \in Workers, thread[w].pc = "run"
    PROVE  LET p == thread[w].job.player
               state == player[p].state
           IN  \/ Replying(state, thread[w].todo, thread[w].result)
               \/ ChangingState(state, thread[w].todo, thread[w].result)
               \/ /\ Promoting(state, thread[w].todo, thread[w].result)
                  /\ tempPlayerLst[player[p].fd] = p
               \/ /\ thread[w].todo = <<[do |-> "insert"]>>
                  /\ thread[w].result = "ok"
                  /\ tempPlayerLock = w
BY DEF IInv, PlanInv

LEMMA PromoteHead ==
    /\ Promote # <<>> /\ Head(Promote).do = "erase"
    /\ Tail(Promote) = <<[do |-> "insert"]>>
BY DEF Promote

LEMMA PromotingHead ==
    LET todo == SetState("Login") \o Promote
    IN  /\ todo # <<>> /\ Head(todo).do = "setState"
        /\ Head(todo).state = "Login" /\ Tail(todo) = Promote
<1> DEFINE todo == SetState("Login") \o Promote
<1>1. /\ todo # <<>> /\ Tail(todo) = Promote
      /\ Head(todo) = [do |-> "setState", state |-> "Login"]
  BY PromotePlan, SetStateThen DEF PlayerStates
<1> HIDE DEF todo
<1>2. Head(todo).do = "setState" /\ Head(todo).state = "Login"
  BY <1>1
<1> QED  BY <1>1, <1>2 DEF todo

LEMMA OnlyQueuesHead ==
    ASSUME NEW q \in Seq(Steps), OnlyQueues(q), q # <<>>
    PROVE  Head(q).do = "queue" /\ OnlyQueues(Tail(q))
BY HeadAndTail DEF OnlyQueues

LEMMA InsertHead ==
    LET todo == <<[do |-> "insert"]>>
    IN  todo # <<>> /\ Head(todo).do = "insert" /\ Tail(todo) = <<>>
OBVIOUS

(* What the first step of a plan tells of the plan.                        *)
LEMMA PlanOfStep ==
    ASSUME IInv, NEW w \in Workers, thread[w].pc = "run",
           thread[w].todo # <<>>
    PROVE  LET p == thread[w].job.player
               todo == thread[w].todo
               what == Head(todo).do
           IN  /\ what = "queue" =>
                      /\ Replying(player[p].state, todo, thread[w].result)
                      /\ Replying(player[p].state, Tail(todo),
                                  thread[w].result)
               /\ what = "setState" =>
                      \/ ChangingState(player[p].state, todo,
                                       thread[w].result)
                      \/ /\ player[p].state = "Handshake"
                         /\ thread[w].result = "ok"
                         /\ Head(todo).state = "Login" /\ Tail(todo) = Promote
                         /\ tempPlayerLst[player[p].fd] = p
               /\ what = "erase" =>
                      /\ player[p].state = "Login" /\ thread[w].result = "ok"
                      /\ Tail(todo) = <<[do |-> "insert"]>>
                      /\ tempPlayerLst[player[p].fd] = p
               /\ what = "insert" =>
                      /\ Tail(todo) = <<>> /\ thread[w].result = "ok"
                      /\ tempPlayerLock = w
<1> DEFINE p == thread[w].job.player
           state == player[p].state
           todo == thread[w].todo
           result == thread[w].result
<1>1. todo \in Seq(Steps)
  BY ThreadTypes, Roles DEF IInv
<1>2. \/ Replying(state, todo, result)
      \/ ChangingState(state, todo, result)
      \/ /\ Promoting(state, todo, result)
         /\ tempPlayerLst[player[p].fd] = p
      \/ /\ todo = <<[do |-> "insert"]>> /\ result = "ok"
         /\ tempPlayerLock = w
  BY PlanOf
<1>3. todo # <<>>
  OBVIOUS
<1> HIDE DEF p, state, todo, result
<1>4. CASE Replying(state, todo, result)
  <2>1. Head(todo).do = "queue" /\ OnlyQueues(Tail(todo))
    BY <1>1, <1>3, <1>4, OnlyQueuesHead DEF Replying
  <2>2. Replying(state, Tail(todo), result)
    BY <1>3, <1>4, <2>1 DEF Replying
  <2> QED  BY <1>4, <2>1, <2>2 DEF p, state, todo, result
<1>5. CASE ChangingState(state, todo, result)
  BY <1>5 DEF ChangingState, p, state, todo, result
<1>6. CASE Promoting(state, todo, result) /\ tempPlayerLst[player[p].fd] = p
  <2>1. CASE state = "Handshake" /\ todo = SetState("Login") \o Promote
    BY <1>6, <2>1, PromotingHead DEF Promoting, p, state, todo, result
  <2>2. CASE state = "Login" /\ todo = Promote
    BY <1>6, <2>2, PromoteHead DEF Promoting, p, state, todo, result
  <2> QED  BY <1>6, <2>1, <2>2 DEF Promoting
<1>7. CASE todo = <<[do |-> "insert"]>> /\ result = "ok" /\ tempPlayerLock = w
  BY <1>7, InsertHead DEF p, state, todo, result
<1> QED  BY <1>2, <1>4, <1>5, <1>6, <1>7

(* The state of a player changes while nobody else has anything of it.     *)
LEMMA SetPlayerStateKeeps ==
    ASSUME IInv, NEW w \in Workers, SetPlayerState(w)
    PROVE  Kept'
<1> USE DEF IInv, socketVars, clientVars, listVars, queueVars
<1> DEFINE p == thread[w].job.player
           fd == thread[w].job.fd
           c == thread[w].job.client
           todo == thread[w].todo
           s == Head(todo).state
<1>1. /\ Does(w, "setState") /\ Uses(p)
      /\ player' = [player EXCEPT ![p].state = s]
      /\ UNCHANGED <<listVars, outgoingPackets>>
  BY DEF SetPlayerState
<1>2. /\ thread[w].pc = "run" /\ todo # <<>> /\ Head(todo).do = "setState"
  BY <1>1 DEF Does
<1>3. /\ Others(w) /\ thread'[w].pc = "run"
      /\ thread'[w].job = thread[w].job
      /\ thread'[w].todo = Tail(todo)
      /\ thread'[w].result = thread[w].result
      /\ UNCHANGED <<socketVars, clientVars, incomingPackets, events, received>>
  BY <1>1, DoesEffect
<1>4. /\ w \in Threads /\ \A v \in Workers \ {w} : thread'[v] = thread[v]
      /\ \A v \in Workers : thread'[v].job = thread[v].job
  BY <1>3, Roles DEF Others
<1>5. /\ SocketInv' /\ InboxInv' /\ EventInv'
      /\ thread'[Receiver] = thread[Receiver]
      /\ thread'[Sender] = thread[Sender]
  BY <1>3, WorkerFrame
<1>6. Unanswered(w)
  BY <1>2 DEF Unanswered
<1>7. /\ Valid(thread[w].job) /\ Live(p) /\ player[p].fd = fd /\ fd \in Fds
      /\ p \in Players /\ p # Null /\ fdClient[fd] = c
      /\ \A v \in Workers \ {w} : thread[v].job.player # p
      /\ thread[Receiver].job.player # p /\ thread[Receiver].job.fd # fd
      /\ \A i \in 1..Len(incomingPackets) : incomingPackets[i].player # p
      /\ thread[Sender].job.player # p /\ thread[Sender].job.fd # fd
      /\ \A i \in 1..Len(outgoingPackets) : outgoingPackets[i].player # p
  BY <1>2, <1>6, WorkersPlayer
<1>8. /\ inbox[c] = <<>> /\ Len(inbox[c]) = 0 /\ sent[c] # 0 /\ c # Null
      /\ ~Waits(c)
  BY <1>2, WorkerBusy
<1>9. /\ \/ ChangingState(player[p].state, todo, thread[w].result)
         \/ /\ player[p].state = "Handshake" /\ thread[w].result = "ok"
            /\ s = "Login" /\ Tail(todo) = Promote
            /\ tempPlayerLst[player[p].fd] = p
  BY <1>2, PlanOfStep
<1>10. <<player[p].state, s>> \in Moves \cup {<<"Handshake", "Login">>}
  BY <1>9 DEF ChangingState
<1>11. fault' = fault
  BY <1>1, <1>7 DEF Uses
<1>12. /\ \A v \in Workers \ {w} : thread[v].job.fd # fd
  BY <1>2, WorkersPlayer
<1>13. tempPlayerLock # w
  BY <1>2, <1>7, InsertHead, NullIsNothing DEF ListInv, Moving
<1> HIDE DEF p, fd, c, todo, s
<1>14. /\ \A q \in Players : /\ player'[q].mem = player[q].mem
                             /\ player'[q].fd = player[q].fd
       /\ \A q \in Players \ {p} : player'[q] = player[q]
       /\ player'[p].state = s
  BY <1>1, <1>7, TypesOfData DEF DataTypes, PlayerRecords
<1>15. JobInv'
  <2>1. ThreadHas(w)'
    BY <1>3, <1>7, <1>14 DEF ThreadHas, Valid, p
  <2> QED  BY <1>1, <1>3, <1>4, <1>14, <2>1, JobsKept
<1>16. OneAtATime'
  BY <1>1, <1>3, <1>6, OneAtATimeKept
<1>17. ListInv'
  <2>1. tempPlayerLock # Null => tempPlayerLock \in Workers \ {w}
    BY <1>13 DEF TypeInv, TypeOK
  <2>2. \A v \in Workers : AboutToErase(v) => v # w /\ AboutToErase(v)'
    BY <1>2, <1>4 DEF AboutToErase, todo
  <2>3. tempPlayerLock # Null => Moving(tempPlayerLock)'
    <3>1. ASSUME tempPlayerLock # Null PROVE Moving(tempPlayerLock)'
      <4> DEFINE v == tempPlayerLock
                 q == thread[v].job.player
      <4>1. v \in Workers \ {w} /\ Moving(v) /\ thread'[v] = thread[v]
        BY <1>4, <2>1, <3>1 DEF ListInv
      <4>2. q \in Players /\ q # p
        <5>1. thread[v].pc = "run"
          BY <4>1 DEF Moving
        <5>2. q \in Players
          BY <4>1, <5>1, WorkersPlayer
        <5> QED  BY <1>7, <4>1, <5>2
      <4> HIDE DEF q
      <4>3. player'[q] = player[q]
        BY <1>14, <4>2
      <4> QED  BY <1>1, <4>1, <4>3 DEF Moving, q
    <3> QED  BY <3>1
  <2>4. ASSUME NEW gd \in Fds, tempPlayerLst[gd] # Null
        PROVE  LET q == tempPlayerLst[gd]
               IN  /\ player'[q].mem = "live" /\ player'[q].fd = gd
                   /\ player'[q].state \in {"Handshake", "Status", "Login",
                                            "None"}
                   /\ player'[q].state = "Login" =>
                          \E v \in Workers : /\ thread'[v].job.player = q
                                             /\ AboutToErase(v)'
    <3> DEFINE q == tempPlayerLst[gd]
    <3>1. /\ q \in Players /\ player[q].mem = "live" /\ player[q].fd = gd
          /\ player[q].state \in {"Handshake", "Status", "Login", "None"}
          /\ player[q].state = "Login" =>
                \E v \in Workers : /\ thread[v].job.player = q
                                   /\ AboutToErase(v)
      BY <2>4 DEF ListInv, TypeInv, TypeOK
    <3> HIDE DEF q
    <3>2. CASE q # p
      BY <1>4, <1>14, <2>2, <3>1, <3>2 DEF q
    <3>3. CASE q = p
      <4>1. player[p].state # "Login"
        BY <1>7, <2>2, <3>1, <3>3
      <4>2. s \in {"Status", "Login", "None"}
        BY <1>10, <3>1, <3>3, <4>1 DEF Moves
      <4>3. s = "Login" => AboutToErase(w)'
        BY <1>3, <1>9, PromoteHead DEF ChangingState, Moves, AboutToErase, s
      <4> QED
        BY <1>3, <1>14, <3>1, <3>3, <4>2, <4>3 DEF p, q
    <3> QED  BY <3>2, <3>3
  <2>5. ASSUME NEW gd \in Fds, playerLst[gd] # Null
        PROVE  LET q == playerLst[gd]
               IN  /\ player'[q].mem = "live" /\ player'[q].fd = gd
                   /\ player'[q].state \in {"Login", "Configuration", "Play",
                                            "None"}
    <3> DEFINE q == playerLst[gd]
    <3>1. /\ q \in Players /\ player[q].mem = "live" /\ player[q].fd = gd
          /\ player[q].state \in {"Login", "Configuration", "Play", "None"}
      BY <2>5 DEF ListInv, TypeInv, TypeOK
    <3> HIDE DEF q
    <3>2. CASE q # p
      BY <1>14, <3>1, <3>2 DEF q
    <3>3. CASE q = p
      <4>1. s \in {"Configuration", "Play", "None"}
        BY <1>10, <3>1, <3>3 DEF Moves
      <4> QED  BY <1>14, <3>1, <3>3, <4>1 DEF q
    <3> QED  BY <3>2, <3>3
  <2>6. \A gd \in Fds : tempPlayerLst[gd] = Null \/ playerLst[gd] = Null
    BY DEF ListInv
  <2>7. ASSUME NEW q \in Players, player'[q].mem = "live"
        PROVE  /\ player'[q].fd \in Fds
               /\ \/ tempPlayerLst[player'[q].fd] = q
                  \/ playerLst[player'[q].fd] = q
                  \/ /\ tempPlayerLock # Null
                     /\ thread'[tempPlayerLock].job.player = q
    BY <1>4, <1>14, <2>1, <2>7 DEF ListInv
  <2> QED  BY <1>1, <2>3, <2>4, <2>5, <2>6, <2>7 DEF ListInv
<1>18. PlanInv'
  <2>1. \A v \in Workers \ {w} :
            thread[v].pc = "run" => player'[thread[v].job.player]
                                    = player[thread[v].job.player]
    BY <1>7, <1>14, WorkersPlayer
  <2>2. \/ Replying(s, Tail(todo), thread[w].result)
        \/ /\ Promoting(s, Tail(todo), thread[w].result)
           /\ tempPlayerLst[fd] = p
    BY <1>7, <1>9 DEF ChangingState, Promoting, s
  <2>3. ASSUME NEW v \in Workers \ {w}, thread[v].pc = "run"
        PROVE  LET q == thread[v].job.player
                   state == player'[q].state
               IN  \/ Replying(state, thread[v].todo, thread[v].result)
                   \/ ChangingState(state, thread[v].todo, thread[v].result)
                   \/ /\ Promoting(state, thread[v].todo, thread[v].result)
                      /\ tempPlayerLst[player'[q].fd] = q
                   \/ /\ thread[v].todo = <<[do |-> "insert"]>>
                      /\ thread[v].result = "ok"
                      /\ tempPlayerLock = v
    <3>1. player'[thread[v].job.player] = player[thread[v].job.player]
      BY <2>1, <2>3
    <3> QED  BY <2>3, <3>1, PlanOf
  <2>4. player'[p].state = s /\ player'[p].fd = fd
    BY <1>7, <1>14
  <2>5. /\ thread'[w].job.player = p /\ thread'[w].todo = Tail(todo)
        /\ thread'[w].result = thread[w].result
    BY <1>3 DEF p
  <2>6. ASSUME NEW v \in Workers, thread'[v].pc = "run"
        PROVE  LET q == thread'[v].job.player
                   state == player'[q].state
               IN  \/ Replying(state, thread'[v].todo, thread'[v].result)
                   \/ ChangingState(state, thread'[v].todo, thread'[v].result)
                   \/ /\ Promoting(state, thread'[v].todo, thread'[v].result)
                      /\ tempPlayerLst[player'[q].fd] = q
                   \/ /\ thread'[v].todo = <<[do |-> "insert"]>>
                      /\ thread'[v].result = "ok"
                      /\ tempPlayerLock = v
    <3>1. CASE v = w
      BY <2>2, <2>4, <2>5, <3>1
    <3>2. CASE v # w
      BY <1>4, <2>3, <2>6, <3>2
    <3> QED  BY <3>1, <3>2
  <2> QED  BY <1>1, <2>6 DEF PlanInv
<1>19. DoomInv'
  <2>1. \A q \in Players \ {p} : Doomed(q)' <=> Doomed(q)
    BY <1>14 DEF Doomed
  <2>2. \A d : /\ Served(d)' <=> Served(d)
              /\ Has(outgoingPackets, d)' <=> Has(outgoingPackets, d)
    BY <1>1, <1>4 DEF Served, Has
  <2>3. /\ \A i \in 1..Len(outgoingPackets) :
              outgoingPackets[i].player \in Players
        /\ thread[Sender].pc \in {"send", "check"} =>
              thread[Sender].job.player \in Players
    BY Roles, ValidTypes DEF JobInv, ThreadHas
  <2>4. ASSUME NEW q \in Players, Doomed(q)'
        PROVE  \/ \E v \in Workers : thread'[v].job.player = q
               \/ thread'[Sender].job.player = q
               \/ \E i \in 1..Len(outgoingPackets) :
                     outgoingPackets[i].player = q
    BY <1>4, <1>5, <2>1, <2>4 DEF DoomInv, p
  <2>5. ASSUME NEW i \in 1..Len(outgoingPackets),
               Doomed(outgoingPackets[i].player)'
        PROVE  LET d == outgoingPackets[i].client
               IN  /\ ~Served(d) /\ thread[Sender].job.client # d
                   /\ \A j \in 1..Len(outgoingPackets) :
                         outgoingPackets[j].client = d => j = i
    <3>1. Doomed(outgoingPackets[i].player)
      BY <1>1, <1>7, <2>1, <2>3, <2>5
    <3> QED  BY <3>1 DEF DoomInv
  <2>6. ASSUME thread[Sender].pc \in {"send", "check"},
               Doomed(thread[Sender].job.player)'
        PROVE  LET d == thread[Sender].job.client
               IN  ~Served(d) /\ ~Has(outgoingPackets, d)
    <3>1. Doomed(thread[Sender].job.player)
      BY <1>5, <1>7, <2>1, <2>3, <2>6
    <3> QED  BY <2>6, <3>1 DEF DoomInv
  <2>7. (\A q \in Players : Doomed(q) =>
            \/ \E v \in Workers : thread[v].job.player = q
            \/ thread[Sender].job.player = q
            \/ \E i \in 1..Len(outgoingPackets) :
                  outgoingPackets[i].player = q)'
    BY <1>1, <1>5, <2>4
  <2>8. (\A i \in 1..Len(outgoingPackets) : Doomed(outgoingPackets[i].player) =>
            LET d == outgoingPackets[i].client
            IN  /\ ~Served(d) /\ thread[Sender].job.client # d
                /\ \A j \in 1..Len(outgoingPackets) :
                      outgoingPackets[j].client = d => j = i)'
    BY <1>1, <1>4, <1>5, <2>5 DEF Doomed, Served
  <2>9. (thread[Sender].pc \in {"send", "check"} =>
            (Doomed(thread[Sender].job.player) =>
                LET d == thread[Sender].job.client
                IN  ~Served(d) /\ ~Has(outgoingPackets, d)))'
    BY <1>1, <1>4, <1>5, <2>6 DEF Doomed, Served, Has
  <2> QED  BY <2>7, <2>8, <2>9 DEF DoomInv
<1>20. BlankInv'
  <2>1. \A gd \in Fds \ {fd} : Blank(gd) => Blank(gd)'
    <3>1. \A gd \in Fds \ {fd} : tempPlayerLst[gd] # Null =>
              /\ tempPlayerLst[gd] \in Players /\ tempPlayerLst[gd] # p
      BY <1>7 DEF ListInv, TypeInv, TypeOK
    <3> QED  BY <1>1, <1>14, <3>1 DEF Blank
  <2>2. \A t \in Threads : thread'[t].pc = "close" =>
            thread[t].pc = "close" /\ thread'[t] = thread[t]
    BY <1>3 DEF Others
  <2>3. \A t \in Threads : thread[t].pc = "close" =>
            thread[t].job.fd \in Fds \ {fd}
    BY <1>2, <1>7, <1>12, Roles DEF JobInv, ThreadHas
  <2>4. thread[Receiver].pc \in {"read", "remove"} =>
            thread[Receiver].job.fd \in Fds \ {fd}
    BY <1>7, Roles DEF JobInv, ThreadHas
  <2>5. \A gd \in Fds : (LET d == fdClient[gd]
                          IN  d = Null \/ Len(inbox[d]) = sent[d]) => gd # fd
    BY <1>7, <1>8
  <2> QED
    BY <1>1, <1>3, <1>5, <2>1, <2>2, <2>3, <2>4, <2>5 DEF BlankInv
<1>21. UnknownInv'
  <2>1. \A gd \in Fds : LET d == fdClient[gd] IN
            d # Null /\ playerLst[gd] # Null /\ inbox[d] = <<"unknown">> =>
                playerLst[gd] \in Players \ {p}
    <3>1. <<>> # <<"unknown">>
      OBVIOUS
    <3>2. \A gd \in Fds : playerLst[gd] # Null =>
              playerLst[gd] \in Players /\ player[playerLst[gd]].fd = gd
      BY DEF ListInv, TypeInv, TypeOK
    <3> QED  BY <1>7, <1>8, <3>1, <3>2
  <2>2. \A i \in 1..Len(incomingPackets) :
            incomingPackets[i].player \in Players \ {p}
    BY <1>7, ValidTypes DEF JobInv
  <2>3. \A v \in Workers : thread'[v].pc = "route" =>
            /\ thread'[v] = thread[v]
            /\ thread[v].job.player \in Players \ {p}
    BY <1>3, <1>4, <1>7, WorkersPlayer
  <2> QED  BY <1>1, <1>3, <1>14, <2>1, <2>2, <2>3 DEF UnknownInv
<1>22. BirthInv' /\ NoFault'
  BY <1>11, <1>14, BirthKept DEF NoFault
<1> QED
  BY <1>5, <1>15, <1>16, <1>17, <1>18, <1>19, <1>20, <1>21, <1>22 DEF Kept

(* A player that logs in leaves the temporary list, in the worker's hands. *)
LEMMA EraseTempKeeps ==
    ASSUME IInv, NEW w \in Workers, EraseTemp(w)
    PROVE  Kept'
<1> USE DEF IInv, socketVars, clientVars, listVars, queueVars
<1> DEFINE p == thread[w].job.player
           fd == thread[w].job.fd
           c == thread[w].job.client
           todo == thread[w].todo
<1>1. /\ Does(w, "erase") /\ Uses(p) /\ tempPlayerLock = Null
      /\ tempPlayerLock' = w
      /\ tempPlayerLst' = [tempPlayerLst EXCEPT ![player[p].fd] = Null]
      /\ UNCHANGED <<player, playerLst, outgoingPackets>>
  BY DEF EraseTemp
<1>2. /\ thread[w].pc = "run" /\ todo # <<>> /\ Head(todo).do = "erase"
  BY <1>1 DEF Does
<1>3. /\ Others(w) /\ thread'[w].pc = "run"
      /\ thread'[w].job = thread[w].job
      /\ thread'[w].todo = Tail(todo)
      /\ thread'[w].result = thread[w].result
      /\ UNCHANGED <<socketVars, clientVars, incomingPackets, events, received>>
  BY <1>1, DoesEffect
<1>4. /\ w \in Threads /\ \A v \in Workers \ {w} : thread'[v] = thread[v]
      /\ \A v \in Workers : thread'[v].job = thread[v].job
  BY <1>3, Roles DEF Others
<1>5. /\ SocketInv' /\ InboxInv' /\ EventInv'
      /\ thread'[Receiver] = thread[Receiver]
      /\ thread'[Sender] = thread[Sender]
  BY <1>3, WorkerFrame
<1>6. Unanswered(w)
  BY <1>2 DEF Unanswered
<1>7. /\ Valid(thread[w].job) /\ Live(p) /\ player[p].fd = fd /\ fd \in Fds
      /\ p \in Players /\ p # Null /\ player[p].mem = "live"
      /\ \A v \in Workers \ {w} : /\ thread[v].job.player # p
                                  /\ thread[v].job.fd # fd
  BY <1>2, WorkersPlayer
<1>8. /\ player[p].state = "Login" /\ thread[w].result = "ok"
      /\ Tail(todo) = <<[do |-> "insert"]>>
      /\ tempPlayerLst[fd] = p
  BY <1>2, <1>7, PlanOfStep
<1>9. fault' = fault
  BY <1>1, <1>7 DEF Uses
<1> HIDE DEF p, fd, c, todo
<1>10. /\ tempPlayerLst'[fd] = Null /\ playerLst[fd] = Null
       /\ \A gd \in Fds \ {fd} : tempPlayerLst'[gd] = tempPlayerLst[gd]
  BY <1>1, <1>7, <1>8 DEF ListInv, TypeInv, TypeOK
<1>11. JobInv'
  <2>1. ThreadHas(w)'
    BY <1>1, <1>3, <1>7 DEF ThreadHas, Valid, p
  <2> QED  BY <1>1, <1>3, <1>4, <2>1, JobsKept
<1>12. OneAtATime'
  BY <1>1, <1>3, <1>6, OneAtATimeKept
<1>13. ListInv'
  <2>1. \A v \in Workers \ {w} : AboutToErase(v) => AboutToErase(v)'
    BY <1>4 DEF AboutToErase
  <2>2. Moving(w)'
    BY <1>1, <1>3, <1>7, <1>8, <1>10 DEF Moving, p
  <2>3. ASSUME NEW gd \in Fds, tempPlayerLst'[gd] # Null
        PROVE  LET q == tempPlayerLst[gd]
               IN  /\ player[q].mem = "live" /\ player[q].fd = gd
                   /\ player[q].state \in {"Handshake", "Status", "Login",
                                           "None"}
                   /\ player[q].state = "Login" =>
                          \E v \in Workers : /\ thread'[v].job.player = q
                                             /\ AboutToErase(v)'
    <3>1. gd # fd /\ tempPlayerLst[gd] # Null
      BY <1>10, <2>3
    <3>2. tempPlayerLst[gd] # p
      BY <1>7, <3>1 DEF ListInv
    <3> QED  BY <1>4, <2>1, <3>1, <3>2 DEF ListInv, p
  <2>4. ASSUME NEW q \in Players, player[q].mem = "live"
        PROVE  /\ player[q].fd \in Fds
               /\ \/ tempPlayerLst'[player[q].fd] = q
                  \/ playerLst[player[q].fd] = q
                  \/ thread'[w].job.player = q
    <3>1. CASE player[q].fd = fd
      BY <1>3, <1>7, <2>4, <3>1, OnePlayer DEF p
    <3>2. CASE player[q].fd # fd
      BY <1>1, <1>10, <2>4, <3>2 DEF ListInv
    <3> QED  BY <3>1, <3>2
  <2>5. \A gd \in Fds : tempPlayerLst'[gd] = Null \/ playerLst[gd] = Null
    BY <1>10 DEF ListInv
  <2>6. \A gd \in Fds : playerLst[gd] # Null =>
            LET q == playerLst[gd]
            IN  /\ player[q].mem = "live" /\ player[q].fd = gd
                /\ player[q].state \in {"Login", "Configuration", "Play", "None"}
    BY DEF ListInv
  <2>7. \A gd \in Fds : tempPlayerLst'[gd] # Null =>
            tempPlayerLst'[gd] = tempPlayerLst[gd]
    BY <1>10
  <2> QED
    BY <1>1, <2>2, <2>3, <2>4, <2>5, <2>6, <2>7, NullIsNothing DEF ListInv
<1>14. PlanInv'
  <2>1. ASSUME NEW v \in Workers \ {w}, thread[v].pc = "run",
               tempPlayerLst[player[thread[v].job.player].fd]
               = thread[v].job.player
        PROVE  tempPlayerLst'[player[thread[v].job.player].fd]
               = thread[v].job.player
    <3>1. /\ player[thread[v].job.player].fd = thread[v].job.fd
          /\ thread[v].job.fd \in Fds
      BY <2>1, WorkersPlayer
    <3> QED  BY <1>7, <1>10, <2>1, <3>1
  <2>2. \A v \in Workers : tempPlayerLock # v
    BY <1>1, NullIsNothing
  <2>3. ASSUME NEW v \in Workers \ {w}, thread[v].pc = "run"
        PROVE  LET q == thread[v].job.player
                   state == player[q].state
               IN  \/ Replying(state, thread[v].todo, thread[v].result)
                   \/ ChangingState(state, thread[v].todo, thread[v].result)
                   \/ /\ Promoting(state, thread[v].todo, thread[v].result)
                      /\ tempPlayerLst'[player[q].fd] = q
    BY <2>1, <2>2, <2>3, PlanOf
  <2> QED  BY <1>1, <1>3, <1>4, <1>8, <2>3, ZenonT(30) DEF PlanInv
<1>15. DoomInv'
  BY <1>1, <1>4, <1>5 DEF DoomInv, Doomed, Served, Has
<1>16. BlankInv'
  <2>1. \A gd \in Fds : Blank(gd) => Blank(gd)'
    BY <1>1, <1>10 DEF Blank
  <2>2. \A t \in Threads : thread'[t].pc = "close" =>
            thread'[t] = thread[t] /\ thread[t].job.fd \in Fds
    BY <1>3, Roles DEF Others, JobInv, ThreadHas
  <2>3. thread[Receiver].pc \in {"read", "remove"} =>
            thread[Receiver].job.fd \in Fds
    BY Roles DEF JobInv, ThreadHas
  <2> QED  BY <1>1, <1>3, <1>5, <1>10, <2>1, <2>2, <2>3 DEF BlankInv
<1>17. UnknownInv'
  BY <1>1, <1>3, <1>4 DEF UnknownInv
<1>18. BirthInv' /\ NoFault'
  BY <1>1, <1>9, BirthKept DEF NoFault
<1> QED
  BY <1>5, <1>11, <1>12, <1>13, <1>14, <1>15, <1>16, <1>17, <1>18 DEF Kept

(* ... and arrives in the main list.                                       *)
LEMMA InsertMainKeeps ==
    ASSUME IInv, NEW w \in Workers, InsertMain(w)
    PROVE  Kept'
<1> USE DEF IInv, socketVars, clientVars, listVars, queueVars
<1> DEFINE p == thread[w].job.player
           fd == thread[w].job.fd
           c == thread[w].job.client
           todo == thread[w].todo
<1>1. /\ Does(w, "insert") /\ tempPlayerLock' = Null
      /\ playerLst' = [playerLst EXCEPT ![player[p].fd] = p]
      /\ UNCHANGED <<player, tempPlayerLst, outgoingPackets, fault>>
  BY DEF InsertMain
<1>2. /\ thread[w].pc = "run" /\ todo # <<>> /\ Head(todo).do = "insert"
  BY <1>1 DEF Does
<1>3. /\ Others(w) /\ thread'[w].pc = "run"
      /\ thread'[w].job = thread[w].job
      /\ thread'[w].todo = Tail(todo)
      /\ thread'[w].result = thread[w].result
      /\ UNCHANGED <<socketVars, clientVars, incomingPackets, events, received>>
  BY <1>1, DoesEffect
<1>4. /\ w \in Threads /\ \A v \in Workers \ {w} : thread'[v] = thread[v]
      /\ \A v \in Workers : thread'[v].job = thread[v].job
  BY <1>3, Roles DEF Others
<1>5. /\ SocketInv' /\ InboxInv' /\ EventInv'
      /\ thread'[Receiver] = thread[Receiver]
      /\ thread'[Sender] = thread[Sender]
  BY <1>3, WorkerFrame
<1>6. Unanswered(w)
  BY <1>2 DEF Unanswered
<1>7. /\ Valid(thread[w].job) /\ player[p].fd = fd /\ fd \in Fds
      /\ p \in Players /\ p # Null /\ player[p].mem = "live"
      /\ fdClient[fd] = c
      /\ \A v \in Workers \ {w} : /\ thread[v].job.player # p
                                  /\ thread[v].job.fd # fd
      /\ thread[Receiver].job.fd # fd /\ thread[Sender].job.fd # fd
  BY <1>2, <1>6, WorkersPlayer
<1>8. /\ inbox[c] = <<>> /\ Len(inbox[c]) = 0 /\ sent[c] # 0 /\ c # Null
      /\ ~Waits(c)
  BY <1>2, WorkerBusy
<1>9. /\ Tail(todo) = <<>> /\ thread[w].result = "ok" /\ tempPlayerLock = w
  BY <1>2, PlanOfStep
<1>10. /\ player[p].state = "Login"
       /\ tempPlayerLst[fd] = Null /\ playerLst[fd] = Null
  BY <1>7, <1>9, NullIsNothing DEF ListInv, Moving
<1> HIDE DEF p, fd, c, todo
<1>11. /\ playerLst'[fd] = p
       /\ \A gd \in Fds \ {fd} : playerLst'[gd] = playerLst[gd]
  BY <1>1, <1>7 DEF TypeInv, TypeOK
<1>12. JobInv'
  <2>1. ThreadHas(w)'
    BY <1>1, <1>3, <1>7 DEF ThreadHas, Valid, p
  <2> QED  BY <1>1, <1>3, <1>4, <2>1, JobsKept
<1>13. OneAtATime'
  BY <1>1, <1>3, <1>6, OneAtATimeKept
<1>14. ListInv'
  <2>1. \A v \in Workers : AboutToErase(v) => AboutToErase(v)'
    BY <1>2, <1>4 DEF AboutToErase, todo
  <2>2. ASSUME NEW gd \in Fds, playerLst'[gd] # Null
        PROVE  LET q == playerLst'[gd]
               IN  /\ player[q].mem = "live" /\ player[q].fd = gd
                   /\ player[q].state \in {"Login", "Configuration", "Play",
                                           "None"}
    BY <1>7, <1>10, <1>11, <2>2 DEF ListInv
  <2>3. ASSUME NEW gd \in Fds, tempPlayerLst[gd] # Null
        PROVE  LET q == tempPlayerLst[gd]
               IN  /\ player[q].mem = "live" /\ player[q].fd = gd
                   /\ player[q].state \in {"Handshake", "Status", "Login",
                                           "None"}
                   /\ player[q].state = "Login" =>
                          \E v \in Workers : /\ thread'[v].job.player = q
                                             /\ AboutToErase(v)'
    BY <1>4, <2>1, <2>3 DEF ListInv
  <2>4. ASSUME NEW q \in Players, player[q].mem = "live"
        PROVE  /\ player[q].fd \in Fds
               /\ \/ tempPlayerLst[player[q].fd] = q
                  \/ playerLst'[player[q].fd] = q
    <3>1. CASE player[q].fd = fd
      BY <1>7, <1>11, <2>4, <3>1, OnePlayer
    <3>2. CASE player[q].fd # fd
      BY <1>7, <1>9, <1>11, <2>4, <3>2 DEF ListInv, p
    <3> QED  BY <3>1, <3>2
  <2>5. \A gd \in Fds : tempPlayerLst[gd] = Null \/ playerLst'[gd] = Null
    BY <1>10, <1>11 DEF ListInv
  <2> QED  BY <1>1, <2>2, <2>3, <2>4, <2>5 DEF ListInv
<1>15. PlanInv'
  <2>1. \A v \in Workers \ {w} : tempPlayerLock # v
    BY <1>9
  <2>2. Replying("Login", <<>>, "ok")
    BY DEF Replying, OnlyQueues
  <2> QED
    BY <1>1, <1>3, <1>4, <1>9, <1>10, <2>1, <2>2, ZenonT(30) DEF PlanInv, p
<1>16. DoomInv'
  BY <1>1, <1>4, <1>5 DEF DoomInv, Doomed, Served, Has
<1>17. BlankInv'
  <2>1. \A gd \in Fds \ {fd} : Blank(gd) => Blank(gd)'
    BY <1>1, <1>11 DEF Blank
  <2>2. \A t \in Threads : thread'[t].pc = "close" =>
            thread'[t] = thread[t] /\ thread[t].job.fd \in Fds \ {fd}
    BY <1>3, <1>7, Roles DEF Others, JobInv, ThreadHas
  <2>3. thread[Receiver].pc \in {"read", "remove"} =>
            thread[Receiver].job.fd \in Fds \ {fd}
    BY <1>7, Roles DEF JobInv, ThreadHas
  <2>4. \A gd \in Fds : (LET d == fdClient[gd]
                          IN  d = Null \/ Len(inbox[d]) = sent[d]) => gd # fd
    BY <1>7, <1>8
  <2>5. thread[Receiver].pc = "lookup" => Head(events).fd \in Fds \ {fd}
    <3>1. ASSUME thread[Receiver].pc = "lookup" PROVE Head(events).fd \in Fds \ {fd}
      <4>1. Head(events).fd \in Fds /\ events # <<>>
        BY <3>1 DEF TypeInv, Stations
      <4>2. Head(events) = events[1] /\ 1 \in 1..Len(events)
        BY <4>1, HeadAndTail, TypesOfData DEF DataTypes
      <4> QED  BY <1>7, <1>8, <4>1, <4>2 DEF EventInv
    <3> QED  BY <3>1
  <2> QED
    BY <1>1, <1>3, <1>5, <1>11, <2>1, <2>2, <2>3, <2>4, <2>5 DEF BlankInv
<1>18. UnknownInv'
  <2>1. <<>> # <<"unknown">>
    OBVIOUS
  <2>2. ASSUME NEW gd \in Fds, fdClient[gd] # Null, playerLst'[gd] # Null,
               inbox[fdClient[gd]] = <<"unknown">>
        PROVE  player[playerLst'[gd]].state # "Configuration"
    BY <1>7, <1>8, <1>11, <2>1, <2>2 DEF UnknownInv
  <2> QED  BY <1>1, <1>3, <1>4, <2>2 DEF UnknownInv
<1>19. BirthInv' /\ NoFault'
  BY <1>1, BirthKept DEF NoFault
<1> QED
  BY <1>5, <1>12, <1>13, <1>14, <1>15, <1>16, <1>17, <1>18, <1>19 DEF Kept

(* A worker queues a reply to the packet it holds, and may be done with it.*)
LEMMA QueueingKeeps ==
    ASSUME IInv, NEW w \in Workers, NEW reply \in Replies,
           thread[w].pc = "run", Others(w),
           outgoingPackets' = Append(outgoingPackets,
                                     [thread[w].job EXCEPT !.content = reply]),
           UNCHANGED <<socketVars, clientVars, player, listVars,
                       incomingPackets, events, fault>>,
           \/ /\ thread'[w].job = thread[w].job /\ thread'[w].pc = "run"
              /\ player[thread[w].job.player].state # "None"
           \/ /\ thread'[w] = Idle
              /\ player[thread[w].job.player].state = "None" => Unanswered(w),
           ~Unanswered(w)',
           tempPlayerLock # w, ~AboutToErase(w),
           PlanInv'
    PROVE  Kept'
<1> USE DEF IInv, socketVars, clientVars, listVars, queueVars
<1> DEFINE p == thread[w].job.player
           fd == thread[w].job.fd
           c == thread[w].job.client
           job == [thread[w].job EXCEPT !.content = reply]
           n == Len(outgoingPackets)
<1>1. /\ w \in Threads /\ \A v \in Workers \ {w} : thread'[v] = thread[v]
  BY Roles DEF Others
<1>2. /\ SocketInv' /\ InboxInv' /\ EventInv'
      /\ thread'[Receiver] = thread[Receiver]
      /\ thread'[Sender] = thread[Sender]
  BY WorkerFrame
<1>3. /\ Valid(thread[w].job) /\ p \in Players /\ p # Null
      /\ player[p].mem = "live"
      /\ Unanswered(w) => /\ thread[Sender].job.player # p
                          /\ \A i \in 1..n : outgoingPackets[i].player # p
  BY WorkersPlayer
<1>4. /\ c \in Clients /\ c # Null /\ ~Waits(c) /\ sent[c] # 0
      /\ ~Requested(c)
      /\ \A v \in Workers \ {w} : thread[v].job.client # c
      /\ thread[Sender].pc \in Disconnecting => thread[Sender].job.client # c
      /\ thread[Receiver].job.client # c
      /\ Unanswered(w) =>
             /\ thread[Sender].job.client # c
             /\ \A i \in 1..n : outgoingPackets[i].client # c
  BY WorkerBusy
<1>5. /\ job \in Jobs /\ job.player = p /\ job.fd = fd /\ job.client = c
      /\ job.content = reply
  BY <1>1, ThreadTypes DEF Jobs
<1>6. Valid(job)
  BY <1>3, <1>5 DEF Valid
<1>7. Idle.job = NoJob /\ Idle.pc = "idle"
  BY DEF Idle
<1> HIDE DEF job
<1>8. /\ n \in Nat /\ Len(outgoingPackets') = n + 1
      /\ \A i \in 1..n : outgoingPackets'[i] = outgoingPackets[i]
      /\ outgoingPackets'[n + 1] = job
  BY <1>5, Appended, TypesOfData DEF DataTypes, job
<1>9. 1..Len(outgoingPackets') = 1..n \cup {n + 1}
  BY <1>8
<1> HIDE DEF p, fd, c, n
<1>10. JobInv'
  <2>1. ThreadHas(w)'
    BY <1>3, <1>7 DEF ThreadHas, Valid, p
  <2>2. \A u \in Threads \ {w} : ThreadHas(u)'
    BY ThreadHasKept DEF Others
  <2>3. /\ \A i \in 1..Len(incomingPackets) : Valid(incomingPackets[i])'
        /\ \A i \in 1..n : Valid(outgoingPackets[i])
    BY ValidKept DEF JobInv, n
  <2>4. \A i \in 1..Len(outgoingPackets') : Valid(outgoingPackets'[i])
    BY <1>6, <1>8, <1>9, <2>3
  <2>5. \A a : Valid(a) => Valid(a)'
    BY ValidKept
  <2>6. (\A i \in 1..Len(outgoingPackets) : Valid(outgoingPackets[i]))'
    BY <2>4 DEF Valid
  <2> QED  BY <2>1, <2>2, <2>3, <2>6 DEF JobInv
<1>11. /\ \A d : Has(outgoingPackets, d)' <=> Has(outgoingPackets, d) \/ d = c
       /\ \A d : Answered(d)' => Answered(d) \/ d = c
       /\ \A d \in Clients : Served(d)' => Served(d)
       /\ \A d : Requested(d)' <=> Requested(d)
       /\ \A d : Waits(d)' <=> Waits(d)
  <2>1. \A d : Has(outgoingPackets, d)' <=> Has(outgoingPackets, d) \/ d = c
    BY <1>5, <1>8, <1>9 DEF Has, n
  <2>2. \A d : Answered(d)' => Answered(d) \/ d = c
    BY <1>2, <2>1 DEF Answered
  <2>3. \A d \in Clients : Served(d)' => Served(d)
    BY <1>1, <1>7, NullIsNothing DEF Served, NoJob
  <2>4. \A d : Requested(d)' <=> Requested(d)
    BY DEF Requested, Has
  <2>5. \A d : Waits(d)' <=> Waits(d)
    BY DEF Waits
  <2> QED  BY <2>1, <2>2, <2>3, <2>4, <2>5
<1>12. OneAtATime'
  <2>1. ASSUME NEW v \in Workers, Unanswered(v)'
        PROVE  ~Answered(thread[v].job.client)' /\ thread'[v] = thread[v]
    <3>1. v # w /\ thread'[v] = thread[v] /\ Unanswered(v)
      BY <1>1, <2>1 DEF Unanswered
    <3>2. ~Answered(thread[v].job.client) /\ thread[v].job.client # c
      BY <1>4, <3>1 DEF OneAtATime
    <3> QED  BY <1>11, <3>1, <3>2
  <2>2. ASSUME NEW d \in Clients
        PROVE  /\ Waits(d)' \/ sent'[d] = 0 =>
                     ~Requested(d)' /\ ~Served(d)' /\ ~Answered(d)'
               /\ Requested(d)' => ~Served(d)' /\ ~Answered(d)'
    BY <1>4, <1>11 DEF OneAtATime
  <2>3. ASSUME NEW u \in Workers, NEW v \in Workers,
               thread'[u].job.client = thread'[v].job.client
        PROVE  u = v \/ thread'[u].job.client = Null
    BY <1>1, <1>7, <2>3 DEF OneAtATime, NoJob
  <2>4. /\ \A i, j \in 1..Len(incomingPackets) :
               incomingPackets[i].client = incomingPackets[j].client => i = j
        /\ thread[Receiver].job.client # Null =>
               Waits(thread[Receiver].job.client)
        /\ thread[Receiver].pc \in Disconnecting =>
               gone[thread[Receiver].job.client]
    BY DEF OneAtATime
  <2>5. thread[Sender].pc \in Disconnecting =>
            LET d == thread[Sender].job.client
            IN  /\ ~Has(outgoingPackets, d) /\ ~Served(d) /\ d # c
                /\ d \in Clients
    BY <1>4, Roles, NullIsNothing
    DEF OneAtATime, JobInv, ThreadHas, Disconnecting
  <2>6. (thread[Sender].pc \in Disconnecting =>
            LET d == thread[Sender].job.client
            IN  ~Has(outgoingPackets, d) /\ ~Served(d))'
    BY <1>2, <1>11, <2>5
  <2>7. (\A v \in Workers : Unanswered(v) => ~Answered(thread[v].job.client))'
    BY <2>1
  <2> QED
    BY <1>2, <1>11, <2>2, <2>3, <2>4, <2>6, <2>7 DEF OneAtATime
<1>13. ListInv'
  <2>1. tempPlayerLock # Null => tempPlayerLock \in Workers \ {w}
    BY DEF TypeInv, TypeOK
  <2>2. \A v \in Workers : AboutToErase(v) => v # w
    OBVIOUS
  <2> QED  BY <1>1, <2>1, <2>2 DEF ListInv, Moving, AboutToErase
<1>14. DoomInv'
  <2>1. ASSUME NEW q \in Players, Doomed(q)
        PROVE  \/ \E v \in Workers : thread'[v].job.player = q
               \/ thread'[Sender].job.player = q
               \/ \E i \in 1..Len(outgoingPackets') :
                     outgoingPackets'[i].player = q
    BY <1>1, <1>2, <1>5, <1>8, <1>9, <2>1 DEF DoomInv, n, p
  <2>2. /\ \A i \in 1..n : outgoingPackets[i].client \in Clients
        /\ thread[Sender].pc \in {"send", "check"} =>
              thread[Sender].job.client \in Clients
    BY Roles, ValidTypes DEF JobInv, ThreadHas, n
  <2>3. ASSUME NEW i \in 1..n, Doomed(outgoingPackets[i].player)
        PROVE  /\ outgoingPackets[i].client # c
               /\ ~Served(outgoingPackets[i].client)'
               /\ thread[Sender].job.client # outgoingPackets[i].client
               /\ \A j \in 1..Len(outgoingPackets') :
                     outgoingPackets'[j].client = outgoingPackets[i].client =>
                         j = i
    <3>1. /\ ~Served(outgoingPackets[i].client)
          /\ thread[Sender].job.client # outgoingPackets[i].client
          /\ \A j \in 1..n :
                outgoingPackets[j].client = outgoingPackets[i].client => j = i
      BY <2>3 DEF DoomInv, n
    <3>2. outgoingPackets[i].client # c
      BY <3>1 DEF Served, c
    <3>3. \A j \in 1..Len(outgoingPackets') :
              outgoingPackets'[j].client = outgoingPackets[i].client => j = i
      BY <1>5, <1>8, <1>9, <3>1, <3>2
    <3>4. ~(\E v \in Workers : thread'[v].job.client = outgoingPackets[i].client)
      BY <1>1, <1>7, <2>2, <3>1, NullIsNothing DEF Served, NoJob
    <3>5. outgoingPackets'[i] = outgoingPackets[i]
      BY <1>8
    <3> QED  BY <3>1, <3>2, <3>3, <3>4, <3>5 DEF Served
  <2>4. ASSUME Doomed(job.player)
        PROVE  /\ \A v \in Workers : thread'[v].job.client # c
               /\ thread[Sender].job.client # c
               /\ \A j \in 1..n : outgoingPackets[j].client # c
    <3>1. thread'[w] = Idle /\ Unanswered(w)
      BY <1>5, <2>4 DEF Doomed, p
    <3> QED  BY <1>1, <1>4, <1>7, <3>1, NullIsNothing DEF NoJob
  <2>5. ASSUME thread[Sender].pc \in {"send", "check"},
               Doomed(thread[Sender].job.player)
        PROVE  LET d == thread[Sender].job.client
               IN  /\ d # c
                   /\ \A v \in Workers : thread'[v].job.client # d
                   /\ \A i \in 1..Len(outgoingPackets') :
                          outgoingPackets'[i].client # d
    <3> DEFINE d == thread[Sender].job.client
    <3>1. ~Served(d) /\ ~Has(outgoingPackets, d) /\ d \in Clients
      BY <2>2, <2>5 DEF DoomInv
    <3>2. d # c
      BY <3>1 DEF Served, c
    <3>3. \A v \in Workers : thread'[v].job.client # d
      BY <1>1, <1>7, <3>1, NullIsNothing DEF Served, NoJob
    <3>4. \A i \in 1..Len(outgoingPackets') : outgoingPackets'[i].client # d
      BY <1>5, <1>8, <1>9, <3>1, <3>2 DEF Has, n
    <3> QED  BY <3>2, <3>3, <3>4
  <2>6. \A q : Doomed(q)' <=> Doomed(q)
    BY DEF Doomed
  <2>7. (\A q \in Players : Doomed(q) =>
            \/ \E v \in Workers : thread[v].job.player = q
            \/ thread[Sender].job.player = q
            \/ \E i \in 1..Len(outgoingPackets) :
                  outgoingPackets[i].player = q)'
    BY <2>1, <2>6
  <2>8. ASSUME NEW i \in 1..Len(outgoingPackets'),
               Doomed(outgoingPackets'[i].player)
        PROVE  /\ \A v \in Workers :
                     thread'[v].job.client # outgoingPackets'[i].client
               /\ thread'[Sender].job.client # outgoingPackets'[i].client
               /\ \A j \in 1..Len(outgoingPackets') :
                     outgoingPackets'[j].client = outgoingPackets'[i].client
                         => j = i
    <3>1. CASE i \in 1..n
      <4>1. outgoingPackets'[i] = outgoingPackets[i]
        BY <1>8, <3>1
      <4> QED  BY <1>2, <2>3, <2>8, <3>1, <4>1 DEF Served
    <3>2. CASE i = n + 1
      BY <1>2, <1>5, <1>8, <1>9, <2>4, <2>8, <3>2
    <3> QED  BY <1>9, <3>1, <3>2
  <2>9. (\A i \in 1..Len(outgoingPackets) : Doomed(outgoingPackets[i].player) =>
            LET d == outgoingPackets[i].client
            IN  /\ ~Served(d) /\ thread[Sender].job.client # d
                /\ \A j \in 1..Len(outgoingPackets) :
                      outgoingPackets[j].client = d => j = i)'
    BY <2>8 DEF Served, Doomed
  <2>10. (thread[Sender].pc \in {"send", "check"} =>
            (Doomed(thread[Sender].job.player) =>
                LET d == thread[Sender].job.client
                IN  ~Served(d) /\ ~Has(outgoingPackets, d)))'
    BY <1>2, <2>5 DEF Served, Doomed, Has
  <2> QED  BY <2>7, <2>9, <2>10 DEF DoomInv
<1>15. BlankInv'
  BY <1>2, <1>7 DEF BlankInv, Blank, Others
<1>16. UnknownInv'
  BY <1>1, <1>7 DEF UnknownInv
<1>17. BirthInv' /\ NoFault'
  BY BirthKept DEF NoFault
<1> QED
  BY <1>2, <1>10, <1>12, <1>13, <1>14, <1>15, <1>16, <1>17 DEF Kept

LEMMA QueueReplyKeeps ==
    ASSUME IInv, NEW w \in Workers, QueueReply(w)
    PROVE  Kept'
<1> USE DEF IInv
<1> DEFINE p == thread[w].job.player
           todo == thread[w].todo
           reply == Head(todo).reply
<1>1. /\ Does(w, "queue")
      /\ outgoingPackets' = Append(outgoingPackets,
             [thread[w].job EXCEPT !.content = reply])
      /\ Uses(p) \/ UNCHANGED fault
      /\ UNCHANGED <<player, listVars>>
  BY DEF QueueReply
<1>2. /\ thread[w].pc = "run" /\ todo # <<>> /\ Head(todo).do = "queue"
  BY <1>1 DEF Does
<1>3. /\ Others(w) /\ thread'[w].pc = "run"
      /\ thread'[w].job = thread[w].job
      /\ thread'[w].todo = Tail(todo)
      /\ thread'[w].result = thread[w].result
      /\ Head(todo) \in Steps
      /\ UNCHANGED <<socketVars, clientVars, incomingPackets, events, received>>
  BY <1>1, DoesEffect
<1>4. reply \in Replies
  BY <1>2, <1>3 DEF Steps
<1>5. Live(p)
  BY <1>2, WorkersPlayer
<1>6. fault' = fault
  BY <1>1, <1>5 DEF Uses
<1>7. /\ Replying(player[p].state, todo, thread[w].result)
      /\ Replying(player[p].state, Tail(todo), thread[w].result)
  BY <1>2, PlanOfStep
<1>8. player[p].state # "None" /\ thread[w].result = "ok"
  BY <1>2, <1>7 DEF Replying
<1>9. Tail(todo) # <<>> => Head(Tail(todo)).do = "queue"
  <2>1. Tail(todo) \in Seq(Steps) /\ OnlyQueues(Tail(todo))
    BY <1>2, <1>7, ThreadTypes, Roles, HeadAndTail DEF Replying
  <2> QED  BY <2>1, OnlyQueuesHead
<1>10. ~Unanswered(w)' /\ ~AboutToErase(w)
  BY <1>2, <1>3, <1>8, <1>9 DEF Unanswered, AboutToErase, Disconnecting
<1>11. tempPlayerLock # w
  BY <1>2, InsertHead, NullIsNothing DEF ListInv, Moving
<1>12. PlanInv'
  <2>1. \A v \in Workers \ {w} : thread'[v] = thread[v]
    BY <1>3, Roles DEF Others
  <2>2. thread'[w].job.player = p
    BY <1>3
  <2> QED  BY <1>1, <1>3, <1>7, <2>1, <2>2 DEF PlanInv, listVars
<1> HIDE DEF p, todo, reply
<1> QED
  BY <1>1, <1>2, <1>3, <1>4, <1>6, <1>8, <1>10, <1>11, <1>12, QueueingKeeps
  DEF p

(* The packet itself becomes the reply, the last or only one.              *)
LEMMA ReturnsSendKeeps ==
    ASSUME IInv, NEW w \in Workers, ReturnsSend(w)
    PROVE  Kept'
<1> USE DEF IInv, socketVars, clientVars, listVars, queueVars
<1>1. /\ thread[w].pc = "run" /\ thread[w].todo = <<>>
      /\ thread[w].result \in Replies /\ thread[w].result # "ok"
      /\ thread' = [thread EXCEPT ![w] = Idle]
      /\ outgoingPackets' = Append(outgoingPackets,
             [thread[w].job EXCEPT !.content = thread[w].result])
      /\ UNCHANGED <<socketVars, clientVars, player, listVars,
                     incomingPackets, events, fault>>
  BY DEF ReturnsSend, Returns, QueueStep, Replies
<1>2. Others(w) /\ thread'[w] = Idle /\ Idle.pc = "idle"
  BY <1>1, IdleEffect, Roles DEF Idle
<1>3. Unanswered(w) /\ ~Unanswered(w)' /\ ~AboutToErase(w)
  BY <1>1, <1>2 DEF Unanswered, AboutToErase, Disconnecting
<1>4. tempPlayerLock # w
  <2>1. thread[w].todo # <<[do |-> "insert"]>>
    BY <1>1, InsertHead
  <2> QED  BY <2>1, NullIsNothing DEF ListInv, Moving
<1>5. PlanInv'
  <2>1. \A v \in Workers \ {w} : thread'[v] = thread[v]
    BY <1>2, Roles DEF Others
  <2> QED  BY <1>1, <1>2, <2>1 DEF PlanInv
<1> QED  BY <1>1, <1>2, <1>3, <1>4, <1>5, QueueingKeeps

(* A worker whose plan is done lays the packet down or disconnects.        *)
LEMMA ReturnsKeeps ==
    ASSUME IInv, NEW w \in Workers, ReturnsOk(w) \/ ReturnsDisconnect(w)
    PROVE  Kept'
<1> USE DEF IInv, socketVars, clientVars, listVars, queueVars
<1> DEFINE p == thread[w].job.player
<1>1. /\ thread[w].pc = "run" /\ thread[w].todo = <<>>
      /\ UNCHANGED <<socketVars, clientVars, player, listVars, queueVars,
                     events, received, fault>>
  BY DEF ReturnsOk, ReturnsDisconnect, Returns, StaysLocal
<1>2. /\ Others(w) /\ w \in Threads
      /\ \/ /\ thread'[w].job = NoJob /\ thread'[w].pc = "idle"
            /\ thread[w].result = "ok"
         \/ /\ thread'[w].job = thread[w].job /\ thread'[w].pc = "remove"
            /\ thread[w].result = "disconnect"
  <2>1. w \in Threads
    BY Roles
  <2>2. CASE ReturnsOk(w)
    BY <2>1, <2>2, IdleEffect DEF ReturnsOk, Idle
  <2>3. CASE ReturnsDisconnect(w)
    BY <2>1, <2>3, BecomesEffect DEF ReturnsDisconnect, Positions, Others
  <2> QED  BY <2>1, <2>2, <2>3
<1>3. \A v \in Workers \ {w} : thread'[v] = thread[v]
  BY <1>2, Roles DEF Others
<1>4. /\ SocketInv' /\ InboxInv' /\ EventInv'
      /\ thread'[Receiver] = thread[Receiver]
      /\ thread'[Sender] = thread[Sender]
  BY <1>1, <1>2, WorkerFrame
<1>5. Valid(thread[w].job) /\ p \in Players /\ p # Null
  BY <1>1, WorkersPlayer
<1>6. tempPlayerLock # w
  BY <1>1, InsertHead, NullIsNothing DEF ListInv, Moving
<1>7. Replying(player[p].state, <<>>, thread[w].result)
  <2>1. ~Promoting(player[p].state, <<>>, thread[w].result)
    BY PromotingHead, PromoteHead DEF Promoting
  <2>2. ~ChangingState(player[p].state, <<>>, thread[w].result)
    BY DEF ChangingState
  <2> QED  BY <1>1, <2>1, <2>2, PlanOf, InsertHead
<1>8. thread'[w].job = NoJob => player[p].state # "None"
  <2>1. thread'[w].job = NoJob => thread[w].result = "ok"
    BY <1>2, <1>5 DEF NoJob
  <2> QED  BY <1>7, <2>1 DEF Replying
<1> HIDE DEF p
<1>9. JobInv'
  <2>1. ThreadHas(w)'
    BY <1>1, <1>2, <1>5 DEF ThreadHas, Valid, p
  <2> QED  BY <1>1, <1>2, <2>1, JobsKept
<1>10. OneAtATime'
  <2>1. Unanswered(w)' => Unanswered(w) /\ thread'[w].job = thread[w].job
    BY <1>1, <1>2 DEF Unanswered, Disconnecting
  <2> QED  BY <1>1, <1>2, <2>1, OneAtATimeKept
<1>11. ListInv'
  <2>1. tempPlayerLock # Null => tempPlayerLock \in Workers \ {w}
    BY <1>6 DEF TypeInv, TypeOK
  <2>2. \A v \in Workers : AboutToErase(v) => v # w
    BY <1>1 DEF AboutToErase
  <2> QED  BY <1>1, <1>3, <2>1, <2>2 DEF ListInv, Moving, AboutToErase
<1>12. PlanInv'
  BY <1>1, <1>2, <1>3 DEF PlanInv
<1>13. DoomInv'
  <2>1. ASSUME NEW v \in Workers
        PROVE  \/ thread'[v].job = thread[v].job
               \/ thread'[v].job = NoJob /\ v = w
    <3>1. CASE v = w
      BY <1>2, <3>1
    <3>2. CASE v # w
      BY <1>3, <3>2
    <3> QED  BY <3>1, <3>2
  <2>2. \A d \in Clients : Served(d)' => Served(d)
    BY <2>1, NullIsNothing DEF Served, NoJob
  <2>3. /\ \A i \in 1..Len(outgoingPackets) :
              outgoingPackets[i].client \in Clients
        /\ thread[Sender].pc \in {"send", "check"} =>
              thread[Sender].job.client \in Clients
    BY Roles, ValidTypes DEF JobInv, ThreadHas
  <2>4. ASSUME NEW q \in Players, Doomed(q)
        PROVE  \/ \E v \in Workers : thread'[v].job.player = q
               \/ thread'[Sender].job.player = q
               \/ \E i \in 1..Len(outgoingPackets) :
                     outgoingPackets[i].player = q
    <3>1. thread'[w].job # NoJob \/ q # p
      BY <1>8, <2>4 DEF Doomed
    <3> QED  BY <1>4, <2>1, <2>4, <3>1 DEF DoomInv, p
  <2>5. ASSUME NEW i \in 1..Len(outgoingPackets),
               Doomed(outgoingPackets[i].player)
        PROVE  LET d == outgoingPackets[i].client
               IN  /\ \A v \in Workers : thread'[v].job.client # d
                   /\ thread[Sender].job.client # d
                   /\ \A j \in 1..Len(outgoingPackets) :
                         outgoingPackets[j].client = d => j = i
    BY <2>2, <2>3, <2>5 DEF DoomInv, Served
  <2>6. ASSUME thread[Sender].pc \in {"send", "check"},
               Doomed(thread[Sender].job.player)
        PROVE  LET d == thread[Sender].job.client
               IN  /\ \A v \in Workers : thread'[v].job.client # d
                   /\ ~Has(outgoingPackets, d)
    BY <2>2, <2>3, <2>6 DEF DoomInv, Served
  <2>7. (\A q \in Players : Doomed(q) =>
            \/ \E v \in Workers : thread[v].job.player = q
            \/ thread[Sender].job.player = q
            \/ \E i \in 1..Len(outgoingPackets) :
                  outgoingPackets[i].player = q)'
    BY <1>1, <2>4 DEF Doomed
  <2>8. (\A i \in 1..Len(outgoingPackets) : Doomed(outgoingPackets[i].player) =>
            LET d == outgoingPackets[i].client
            IN  /\ ~Served(d) /\ thread[Sender].job.client # d
                /\ \A j \in 1..Len(outgoingPackets) :
                      outgoingPackets[j].client = d => j = i)'
    BY <1>1, <1>4, <2>5 DEF Served, Doomed
  <2>9. (thread[Sender].pc \in {"send", "check"} =>
            (Doomed(thread[Sender].job.player) =>
                LET d == thread[Sender].job.client
                IN  ~Served(d) /\ ~Has(outgoingPackets, d)))'
    BY <1>1, <1>4, <2>6 DEF Served, Doomed, Has
  <2> QED  BY <2>7, <2>8, <2>9 DEF DoomInv
<1>14. BlankInv'
  BY <1>1, <1>2, <1>4 DEF BlankInv, Blank, Others
<1>15. UnknownInv'
  BY <1>1, <1>2, <1>3 DEF UnknownInv
<1>16. BirthInv' /\ NoFault'
  BY <1>1, BirthKept DEF NoFault
<1> QED
  BY <1>4, <1>9, <1>10, <1>11, <1>12, <1>13, <1>14, <1>15, <1>16 DEF Kept

-----------------------------------------------------------------------------
(* Disconnecting                                                           *)

(* Who disconnects a client is the only one to have anything of it.        *)
LEMMA Alone ==
    ASSUME TypeInv, JobInv, OneAtATime, NEW t \in Threads,
           thread[t].pc \in Disconnecting
    PROVE  LET c == thread[t].job.client
           IN  /\ c \in Clients /\ c # Null
               /\ \A u \in Threads \ {t} : thread[u].job.client # c
               /\ \A i \in 1..Len(incomingPackets) :
                     incomingPackets[i].client # c
               /\ \A i \in 1..Len(outgoingPackets) :
                     outgoingPackets[i].client # c
<1> DEFINE c == thread[t].job.client
<1>1. c \in Clients /\ c # Null
  BY NullIsNothing DEF JobInv, ThreadHas, Disconnecting
<1>2. CASE t = Receiver
  <2>1. Waits(c)
    BY <1>1, <1>2 DEF OneAtATime
  <2> QED
    BY <1>1, <1>2, <2>1, Roles
    DEF OneAtATime, Requested, Served, Answered, Has
<1>3. CASE t \in Workers
  <2>1. Served(c) /\ ~Answered(c)
    BY <1>1, <1>3 DEF OneAtATime, Served, Unanswered
  <2>2. ~Waits(c) /\ ~Requested(c)
    BY <1>1, <2>1 DEF OneAtATime
  <2>3. thread[Receiver].job.client # c
    BY <1>1, <2>2 DEF OneAtATime
  <2>4. \A w \in Workers \ {t} : thread[w].job.client # c
    BY <1>1, <1>3 DEF OneAtATime
  <2> QED
    BY <1>1, <2>1, <2>2, <2>3, <2>4, Roles DEF Requested, Answered, Has
<1>4. CASE t = Sender
  <2>1. Answered(c) /\ ~Has(outgoingPackets, c) /\ ~Served(c)
    BY <1>1, <1>4 DEF OneAtATime, Answered
  <2>2. ~Waits(c) /\ ~Requested(c)
    BY <1>1, <2>1 DEF OneAtATime
  <2>3. thread[Receiver].job.client # c
    BY <1>1, <2>2 DEF OneAtATime
  <2> QED
    BY <1>1, <2>1, <2>2, <2>3, <1>4, Roles DEF Requested, Served, Has
<1> QED  BY <1>2, <1>3, <1>4, Roles

(* Nobody else has its player or its descriptor either.                    *)
LEMMA AlonePlayer ==
    ASSUME TypeInv, JobInv, OneAtATime, NEW t \in Threads,
           thread[t].pc \in Disconnecting, Valid(thread[t].job)
    PROVE  LET p == thread[t].job.player
               fd == thread[t].job.fd
           IN  /\ \A u \in Threads \ {t} : /\ thread[u].job.player # p
                                           /\ thread[u].job.fd # fd
               /\ \A i \in 1..Len(incomingPackets) :
                     incomingPackets[i].player # p
               /\ \A i \in 1..Len(outgoingPackets) :
                     outgoingPackets[i].player # p
BY Alone, OtherThread, OtherJob DEF JobInv

(* A thread in the midst of disconnecting has done nothing yet.            *)
LEMMA DisconnectingFrame ==
    ASSUME IInv, NEW t \in Threads, thread[t].pc \in Disconnecting, Others(t),
           thread'[t].pc \in Disconnecting, thread'[t].job = thread[t].job,
           UNCHANGED <<socketVars, clientVars, queueVars, events>>
    PROVE  SocketInv' /\ InboxInv' /\ OneAtATime' /\ EventInv'
<1> USE DEF IInv, socketVars, clientVars, queueVars
<1>1. SocketInv' /\ InboxInv'
  BY DEF SocketInv, InboxInv
<1>2. /\ \A u \in Threads : thread'[u].job = thread[u].job
      /\ \A u \in Threads : thread'[u].pc \in Disconnecting =>
            thread[u].pc \in Disconnecting
      /\ thread'[Receiver].pc = "read" => thread[Receiver].pc = "read"
  BY Roles DEF Others, Disconnecting
<1>3. EventInv'
  BY <1>2, Roles DEF EventInv, Waits
<1>4. \A w \in Workers : Unanswered(w)' => Unanswered(w)
  BY Roles DEF Unanswered, Others
<1>5. OneAtATime'
  BY <1>2, <1>4, Roles
  DEF OneAtATime, Waits, Requested, Served, Answered, Has
<1> QED  BY <1>1, <1>3, <1>5

LEMMA RemoveBeginsKeeps ==
    ASSUME IInv, NEW t \in Threads, RemoveBegins(t)
    PROVE  Kept'
<1> USE DEF IInv, socketVars, clientVars, listVars, queueVars
<1> DEFINE job == thread[t].job
<1>1. /\ thread[t].pc = "remove"
      /\ UNCHANGED <<socketVars, clientVars, player, listVars, queueVars,
                     events, received>>
  BY DEF RemoveBegins, StaysLocal
<1>2. /\ ThreadHas(t)
      /\ job.player # Null => Valid(job)
  BY <1>1 DEF JobInv, ThreadHas
<1>3. fault' = fault
  BY <1>2, ValidTypes DEF RemoveBegins, Uses
<1>4. PICK pc \in {"close", "unlink"} :
        Becomes(t, pc) /\ (pc = "close" <=> job.player = Null)
  BY DEF RemoveBegins
<1>5. /\ Others(t) /\ thread'[t].pc = pc /\ thread'[t].job = job
  BY <1>4, BecomesEffect DEF Positions, Others
<1> HIDE DEF job
<1>6. SocketInv' /\ InboxInv' /\ OneAtATime' /\ EventInv'
  BY <1>1, <1>5, DisconnectingFrame DEF Disconnecting, job
<1>7. JobInv'
  <2>1. ThreadHas(t)'
    BY <1>1, <1>2, <1>4, <1>5 DEF ThreadHas, Valid, job
  <2> QED  BY <1>1, <1>5, <2>1, JobsKept
<1>8. /\ \A u \in Threads : thread'[u].job = thread[u].job
      /\ \A w \in Workers : thread[w].pc \in {"run", "route"} \/
                             thread'[w].pc \in {"run", "route"} =>
            thread'[w] = thread[w]
      /\ thread'[Receiver].pc \in {"lookup", "read", "remove"} =>
            thread'[Receiver] = thread[Receiver]
      /\ thread'[Sender].pc \in {"send", "check"} =>
            thread'[Sender] = thread[Sender]
  BY <1>1, <1>5, Roles DEF Others, job
<1>9. ListInv'
  <2>1. tempPlayerLock # Null => tempPlayerLock \in Workers
    BY DEF TypeInv, TypeOK
  <2>2. \A w \in Workers : AboutToErase(w)' <=> AboutToErase(w)
    BY <1>8 DEF AboutToErase
  <2>3. tempPlayerLock # Null =>
            thread'[tempPlayerLock] = thread[tempPlayerLock]
    BY <1>8, <2>1 DEF ListInv, Moving
  <2> QED  BY <1>1, <1>8, <2>1, <2>2, <2>3, Roles DEF ListInv, Moving
<1>10. PlanInv'
  BY <1>1, <1>8 DEF PlanInv
<1>11. DoomInv'
  BY <1>1, <1>8, Roles DEF DoomInv, Doomed, Served, Has
<1>12. BlankInv'
  <2>1. ASSUME NEW u \in Threads, thread'[u].pc = "close"
        PROVE  Blank(thread[u].job.fd)
    <3>1. CASE u # t
      BY <1>5, <2>1, <3>1 DEF Others, BlankInv
    <3>2. CASE u = t
      <4>1. job.player = Null /\ t = Receiver
        BY <1>1, <1>2, <1>4, <1>5, <2>1, <3>2 DEF ThreadHas, job
      <4> QED  BY <1>1, <3>2, <4>1 DEF BlankInv, job
    <3> QED  BY <3>1, <3>2
  <2> QED  BY <1>1, <1>8, <2>1, Roles DEF BlankInv, Blank
<1>13. UnknownInv'
  BY <1>1, <1>8 DEF UnknownInv
<1>14. BirthInv' /\ NoFault'
  BY <1>1, <1>3, BirthKept DEF NoFault
<1> QED
  BY <1>6, <1>7, <1>9, <1>10, <1>11, <1>12, <1>13, <1>14 DEF Kept

(* The deleted player is the one of the erased entry, and nobody else's.   *)
LEMMA RemoveEndsKeeps ==
    ASSUME IInv, NEW t \in Threads, RemoveEnds(t)
    PROVE  Kept'
<1> USE DEF IInv, socketVars, clientVars, queueVars
<1> DEFINE p == thread[t].job.player
           fd == thread[t].job.fd
           c == thread[t].job.client
<1>1. /\ thread[t].pc = "unlink" /\ Valid(thread[t].job)
      /\ tempPlayerLock = Null
  BY DEF JobInv, ThreadHas, RemoveEnds
<1>2. /\ p \in Players /\ p # Null /\ fd \in Fds /\ c \in Clients
      /\ player[p].fd = fd /\ player[p].mem = "live" /\ fdClient[fd] = c
      /\ Live(p)
  BY <1>1, ValidTypes
<1>3. /\ player' = [player EXCEPT ![p].mem = "deleted"]
      /\ Becomes(t, "close")
      /\ UNCHANGED <<socketVars, clientVars, tempPlayerLock, queueVars,
                     events, received, fault>>
  BY <1>2 DEF RemoveEnds
<1>4. /\ Others(t) /\ thread'[t].pc = "close"
      /\ thread'[t].job = thread[t].job
  BY <1>3, BecomesEffect DEF Positions, Others
<1>5. /\ \A u \in Threads \ {t} : /\ thread[u].job.client # c
                                  /\ thread[u].job.player # p
                                  /\ thread[u].job.fd # fd
      /\ \A i \in 1..Len(incomingPackets) : /\ incomingPackets[i].client # c
                                            /\ incomingPackets[i].player # p
      /\ \A i \in 1..Len(outgoingPackets) : /\ outgoingPackets[i].client # c
                                            /\ outgoingPackets[i].player # p
  BY <1>1, Alone, AlonePlayer DEF Disconnecting
<1>6. /\ \A q \in Players \ {p} : player'[q] = player[q]
      /\ \A q \in Players : /\ player'[q].fd = player[q].fd
                            /\ player'[q].state = player[q].state
      /\ player'[p].mem = "deleted"
  BY <1>2, <1>3, TypesOfData DEF DataTypes, PlayerRecords
<1>7. /\ tempPlayerLst'[fd] = Null /\ playerLst'[fd] = Null
      /\ \A gd \in Fds \ {fd} : /\ tempPlayerLst'[gd] = tempPlayerLst[gd]
                               /\ playerLst'[gd] = playerLst[gd]
  BY <1>2 DEF RemoveEnds, TypeInv, TypeOK, ListInv
<1>8. \A q \in Players : player[q].mem = "live" /\ player[q].fd = fd => q = p
  BY <1>2, OnePlayer
<1> HIDE DEF p, fd, c
<1>9. \A gd \in Fds \ {fd} :
         /\ tempPlayerLst[gd] # Null => tempPlayerLst[gd] \in Players \ {p}
         /\ playerLst[gd] # Null => playerLst[gd] \in Players \ {p}
  BY <1>2 DEF ListInv, TypeInv, TypeOK
<1>10. SocketInv' /\ InboxInv' /\ OneAtATime' /\ EventInv'
  BY <1>1, <1>3, <1>4, DisconnectingFrame DEF Disconnecting
<1>11. /\ \A u \in Threads : thread'[u].job = thread[u].job
       /\ \A w \in Workers : thread[w].pc \in {"run", "route"} \/
                              thread'[w].pc \in {"run", "route"} =>
             thread'[w] = thread[w] /\ w # t
       /\ thread'[Receiver].pc \in {"lookup", "read", "remove"} =>
             thread'[Receiver] = thread[Receiver] /\ t # Receiver
       /\ thread'[Sender].pc \in {"send", "check"} =>
             thread'[Sender] = thread[Sender] /\ t # Sender
  BY <1>1, <1>4, Roles DEF Others
<1>12. JobInv'
  <2>1. ThreadHas(t)'
    BY <1>1, <1>2, <1>3, <1>4, <1>6, NullIsNothing
    DEF ThreadHas, p, c, Valid
  <2>2. ASSUME NEW job, Valid(job), job.player # p
        PROVE  Valid(job)'
    BY <1>3, <1>6, <2>2 DEF Valid
  <2>3. ASSUME NEW u \in Threads \ {t} PROVE ThreadHas(u)'
    <3>1. ThreadHas(u) /\ thread'[u] = thread[u] /\ thread[u].job.player # p
      BY <1>4, <1>5 DEF JobInv, Others
    <3>2. thread[u].job.player \in Players \cup {Null}
      BY ThreadTypes DEF Jobs
    <3>3. Valid(thread[u].job) => Valid(thread[u].job)'
      BY <2>2, <3>1 DEF Valid
    <3> QED  BY <1>3, <1>6, <3>1, <3>2, <3>3 DEF ThreadHas
  <2>4. (\A i \in 1..Len(incomingPackets) : Valid(incomingPackets[i]))'
    BY <1>3, <1>5, <2>2 DEF JobInv
  <2>5. (\A i \in 1..Len(outgoingPackets) : Valid(outgoingPackets[i]))'
    BY <1>3, <1>5, <2>2 DEF JobInv
  <2> QED  BY <2>1, <2>3, <2>4, <2>5 DEF JobInv
<1>13. ListInv'
  <2>1. \A w \in Workers : AboutToErase(w) => AboutToErase(w)'
    BY <1>11 DEF AboutToErase
  <2>2. ASSUME NEW gd \in Fds, tempPlayerLst'[gd] # Null
        PROVE  LET q == tempPlayerLst'[gd]
               IN  /\ player'[q].mem = "live" /\ player'[q].fd = gd
                   /\ player'[q].state \in {"Handshake", "Status", "Login",
                                            "None"}
                   /\ player'[q].state = "Login" =>
                          \E w \in Workers : /\ thread'[w].job.player = q
                                             /\ AboutToErase(w)'
    <3>1. /\ gd # fd /\ tempPlayerLst[gd] # Null
          /\ tempPlayerLst'[gd] = tempPlayerLst[gd]
      BY <1>7, <2>2
    <3>2. tempPlayerLst[gd] \in Players \ {p}
      BY <1>9, <3>1
    <3> QED  BY <1>6, <1>11, <2>1, <3>1, <3>2, Roles DEF ListInv
  <2>3. ASSUME NEW gd \in Fds, playerLst'[gd] # Null
        PROVE  LET q == playerLst'[gd]
               IN  /\ player'[q].mem = "live" /\ player'[q].fd = gd
                   /\ player'[q].state \in {"Login", "Configuration", "Play",
                                            "None"}
    <3>1. gd # fd /\ playerLst[gd] # Null /\ playerLst'[gd] = playerLst[gd]
      BY <1>7, <2>3
    <3>2. playerLst[gd] \in Players \ {p}
      BY <1>9, <3>1
    <3> QED  BY <1>6, <3>1, <3>2 DEF ListInv
  <2>4. \A gd \in Fds : tempPlayerLst'[gd] = Null \/ playerLst'[gd] = Null
    BY <1>7 DEF ListInv
  <2>5. ASSUME NEW q \in Players, player'[q].mem = "live"
        PROVE  /\ player'[q].fd \in Fds
               /\ \/ tempPlayerLst'[player'[q].fd] = q
                  \/ playerLst'[player'[q].fd] = q
    <3>1. q # p /\ player[q].mem = "live" /\ player'[q] = player[q]
      BY <1>6, <2>5
    <3>2. player[q].fd \in Fds /\ player[q].fd # fd
      BY <1>8, <3>1 DEF ListInv
    <3> QED  BY <1>1, <1>7, <3>1, <3>2 DEF ListInv
  <2> QED  BY <1>1, <1>3, <2>2, <2>3, <2>4, <2>5 DEF ListInv
<1>14. PlanInv'
  <2>1. ASSUME NEW w \in Workers, thread'[w].pc = "run"
        PROVE  LET q == thread'[w].job.player
                   state == player'[q].state
               IN  \/ Replying(state, thread'[w].todo, thread'[w].result)
                   \/ ChangingState(state, thread'[w].todo, thread'[w].result)
                   \/ /\ Promoting(state, thread'[w].todo, thread'[w].result)
                      /\ tempPlayerLst'[player'[q].fd] = q
                   \/ /\ thread'[w].todo = <<[do |-> "insert"]>>
                      /\ thread'[w].result = "ok"
                      /\ tempPlayerLock' = w
    <3> DEFINE q == thread[w].job.player
    <3>1. w # t /\ thread'[w] = thread[w] /\ thread[w].pc = "run"
      BY <1>11, <2>1
    <3>2. /\ q \in Players /\ q # p /\ player[q].mem = "live"
          /\ player[q].fd \in Fds
      BY <1>5, <3>1, WorkersPlayer, Roles
    <3>3. player[q].fd # fd
      BY <1>8, <3>2
    <3>4. /\ player'[q] = player[q]
          /\ tempPlayerLst'[player[q].fd] = tempPlayerLst[player[q].fd]
      BY <1>6, <1>7, <3>2, <3>3
    <3> QED  BY <1>3, <3>1, <3>4, PlanOf
  <2> QED  BY <2>1 DEF PlanInv
<1>15. DoomInv'
  <2>1. \A q \in Players : Doomed(q)' <=> Doomed(q) /\ q # p
    BY <1>6 DEF Doomed
  <2>2. /\ \A i \in 1..Len(outgoingPackets) :
              outgoingPackets[i].player \in Players
        /\ thread[Sender].pc \in {"send", "check"} =>
              thread[Sender].job.player \in Players
    BY Roles, ValidTypes DEF JobInv, ThreadHas
  <2>3. \A q \in Players : Doomed(q)' =>
            \/ \E w \in Workers : thread'[w].job.player = q
            \/ thread'[Sender].job.player = q
            \/ \E i \in 1..Len(outgoingPackets) :
                  outgoingPackets[i].player = q
    BY <1>11, <2>1, Roles DEF DoomInv
  <2>4. ASSUME NEW i \in 1..Len(outgoingPackets),
               player'[outgoingPackets[i].player].mem = "live",
               player'[outgoingPackets[i].player].state = "None"
        PROVE  LET d == outgoingPackets[i].client
               IN  /\ \A w \in Workers : thread[w].job.client # d
                   /\ thread[Sender].job.client # d
                   /\ \A j \in 1..Len(outgoingPackets) :
                         outgoingPackets[j].client = d => j = i
    BY <1>6, <2>2, <2>4 DEF DoomInv, Doomed, Served
  <2>5. ASSUME thread[Sender].pc \in {"send", "check"},
               player'[thread[Sender].job.player].mem = "live",
               player'[thread[Sender].job.player].state = "None"
        PROVE  LET d == thread[Sender].job.client
               IN  /\ \A w \in Workers : thread[w].job.client # d
                   /\ ~Has(outgoingPackets, d)
    BY <1>6, <2>2, <2>5 DEF DoomInv, Doomed, Served
  <2>6. (\A q \in Players : Doomed(q) =>
            \/ \E w \in Workers : thread[w].job.player = q
            \/ thread[Sender].job.player = q
            \/ \E i \in 1..Len(outgoingPackets) :
                  outgoingPackets[i].player = q)'
    BY <1>3, <2>3
  <2>7. (\A i \in 1..Len(outgoingPackets) : Doomed(outgoingPackets[i].player) =>
            LET d == outgoingPackets[i].client
            IN  /\ ~Served(d) /\ thread[Sender].job.client # d
                /\ \A j \in 1..Len(outgoingPackets) :
                      outgoingPackets[j].client = d => j = i)'
    BY <1>3, <1>11, <2>4, Roles DEF Served, Doomed
  <2>8. (thread[Sender].pc \in {"send", "check"} =>
            (Doomed(thread[Sender].job.player) =>
                LET d == thread[Sender].job.client
                IN  ~Served(d) /\ ~Has(outgoingPackets, d)))'
    BY <1>3, <1>11, <2>5, Roles DEF Served, Doomed, Has
  <2> QED  BY <2>6, <2>7, <2>8 DEF DoomInv
<1>16. BlankInv'
  <2>1. \A gd \in Fds : Blank(gd) => Blank(gd)'
    BY <1>6, <1>7, <1>9 DEF Blank
  <2>2. \A gd : gd = fd => Blank(gd)'
    BY <1>7 DEF Blank
  <2>3. \A u \in Threads : thread[u].pc \in {"close", "remove", "read"} =>
            thread[u].job.fd \in Fds
    BY DEF JobInv, ThreadHas
  <2>4. ASSUME NEW u \in Threads, thread'[u].pc = "close",
               NEW gd, gd = thread'[u].job.fd
        PROVE  Blank(gd)'
    <3>1. CASE u = t
      BY <1>4, <2>2, <2>4, <3>1 DEF fd
    <3>2. CASE u # t
      <4>1. thread[u].pc = "close" /\ gd = thread[u].job.fd
        BY <1>4, <2>4, <3>2 DEF Others
      <4>2. gd \in Fds /\ Blank(gd)
        BY <2>3, <4>1 DEF BlankInv
      <4> QED  BY <2>1, <4>2
    <3> QED  BY <3>1, <3>2
  <2>5. (LET gd == thread[Receiver].job.fd
         IN  thread[Receiver].job.player = Null =>
              /\ thread[Receiver].pc = "remove" => Blank(gd)
              /\ thread[Receiver].pc = "read" =>
                     playerLst[gd] = Null /\ tempPlayerLst[gd] = Null)'
    <3> DEFINE gd == thread[Receiver].job.fd
    <3>1. thread[Receiver].pc \in {"remove", "read"} => gd \in Fds
      BY <2>3, Roles
    <3>2. thread[Receiver].job.player = Null =>
              /\ thread[Receiver].pc = "remove" => Blank(gd)
              /\ thread[Receiver].pc = "read" =>
                     playerLst[gd] = Null /\ tempPlayerLst[gd] = Null
      BY DEF BlankInv
    <3>3. gd \in Fds /\ tempPlayerLst[gd] = Null /\ playerLst[gd] = Null =>
              tempPlayerLst'[gd] = Null /\ playerLst'[gd] = Null
      BY <1>7
    <3> QED  BY <1>11, <2>1, <3>1, <3>2, <3>3
  <2>6. thread'[Receiver].pc = "lookup" => playerLst'[Head(events).fd] = Null
    <3>1. ASSUME thread'[Receiver].pc = "lookup"
          PROVE  playerLst'[Head(events).fd] = Null
      <4>1. thread[Receiver].pc = "lookup"
        BY <1>11, <3>1
      <4>2. Head(events).fd \in Fds /\ playerLst[Head(events).fd] = Null
        BY <4>1 DEF TypeInv, Stations, BlankInv
      <4> QED  BY <1>7, <4>2
    <3> QED  BY <3>1
  <2>7. (\A gd \in Fds : LET d == fdClient[gd]
                       IN  d = Null \/ Len(inbox[d]) = sent[d] => Blank(gd))'
    BY <1>3, <2>1 DEF BlankInv
  <2>8. (\A u \in Threads : thread[u].pc = "close" => Blank(thread[u].job.fd))'
    BY <2>4 DEF Blank
  <2> QED  BY <1>3, <2>5, <2>6, <2>7, <2>8 DEF BlankInv
<1>17. UnknownInv'
  <2>1. \A gd \in Fds : playerLst'[gd] # Null =>
            /\ playerLst'[gd] = playerLst[gd]
            /\ playerLst[gd] \in Players
    BY <1>7, <1>9
  <2>2. \A i \in 1..Len(incomingPackets) :
            incomingPackets[i].player \in Players
    BY ValidTypes DEF JobInv
  <2>3. \A w \in Workers : thread'[w].pc = "route" =>
            thread'[w] = thread[w] /\ thread[w].job.player \in Players
    BY <1>11, WorkersPlayer
  <2> QED  BY <1>3, <1>6, <2>1, <2>2, <2>3 DEF UnknownInv
<1>18. BirthInv' /\ NoFault'
  BY <1>2, <1>3, <1>6, BirthKept DEF NoFault
<1> QED
  BY <1>10, <1>12, <1>13, <1>14, <1>15, <1>16, <1>17, <1>18 DEF Kept

(* The descriptor is free for the next connection: nobody has its number.  *)
LEMMA CloseSocketKeeps ==
    ASSUME IInv, NEW t \in Threads, CloseSocket(t)
    PROVE  Kept'
<1> USE DEF IInv, clientVars, listVars, queueVars
<1> DEFINE p == thread[t].job.player
           fd == thread[t].job.fd
           c == thread[t].job.client
<1>1. /\ thread[t].pc = "close" /\ Close(fd) /\ AfterEvent(t)
      /\ UNCHANGED <<backlog, edge, clientVars, player, listVars, queueVars,
                     received, fault>>
  BY DEF CloseSocket
<1>2. /\ fd \in Fds /\ c \in Clients /\ c # Null /\ fdClient[fd] = c
      /\ p = Null \/ player[p].mem = "deleted"
      /\ link[c] = "open" /\ Blank(fd)
  <2>1. /\ fd \in Fds /\ c \in Clients /\ c # Null /\ fdClient[fd] = c
        /\ p = Null \/ player[p].mem = "deleted"
    BY <1>1, NullIsNothing DEF JobInv, ThreadHas
  <2>2. link[c] = "open"
    BY <2>1 DEF SocketInv
  <2>3. Blank(fd)
    BY <1>1 DEF BlankInv
  <2> QED  BY <2>1, <2>2, <2>3
<1>3. /\ \A u \in Threads \ {t} : thread[u].job.client # c
      /\ \A i \in 1..Len(incomingPackets) : incomingPackets[i].client # c
      /\ \A i \in 1..Len(outgoingPackets) : outgoingPackets[i].client # c
  BY <1>1, Alone DEF Disconnecting
<1>4. t = Receiver => events # <<>>
  BY <1>1 DEF TypeInv, Stations
<1>5. /\ Others(t) /\ thread'[t].job = NoJob
      /\ thread'[t].pc \in {"idle", "event"}
      /\ t # Receiver => thread'[t].pc = "idle" /\ events' = events
      /\ t = Receiver => events' = Tail(events)
  BY <1>1, <1>4, AfterEventEffect DEF Others, Idle
<1>6. /\ link' = [link EXCEPT ![c] = "closed"]
      /\ inbox' = [inbox EXCEPT ![c] = <<>>]
      /\ fdClient' = [fdClient EXCEPT ![fd] = Null]
  BY <1>1, <1>2 DEF Close
<1>7. /\ fdClient'[fd] = Null /\ inbox'[c] = <<>> /\ link'[c] = "closed"
      /\ \A gd \in Fds \ {fd} : /\ fdClient'[gd] = fdClient[gd]
                               /\ fdClient[gd] # c
      /\ \A d \in Clients \ {c} : /\ link'[d] = link[d]
                                 /\ inbox'[d] = inbox[d]
  BY <1>2, <1>6 DEF TypeInv, TypeOK, SocketInv
<1> HIDE DEF p, fd, c
<1>8. \A gd \in Fds : fdClient'[gd] # Null =>
          /\ gd # fd /\ fdClient'[gd] = fdClient[gd]
          /\ fdClient[gd] \in Clients \ {c}
  BY <1>7 DEF TypeInv, TypeOK
<1>9. SocketInv'
  <2>1. \A i \in 1..Len(backlog) : backlog[i] \in Clients \ {c}
    BY <1>2 DEF SocketInv, TypeInv, TypeOK
  <2> QED  BY <1>1, <1>7, <1>8, <2>1 DEF SocketInv
<1>10. InboxInv'
  <2>1. Len(<<>>) = 0
    OBVIOUS
  <2>2. sent[c] >= 0
    BY <1>2, BoundsAssumption DEF TypeInv, TypeOK
  <2> QED  BY <1>1, <1>7, <2>1, <2>2 DEF InboxInv
<1>11. JobInv'
  <2>1. ASSUME NEW job, Valid(job), job.client # c PROVE Valid(job)'
    BY <1>1, <1>2, <1>7, <2>1 DEF Valid
  <2>2. ThreadHas(t)'
    BY <1>5 DEF ThreadHas
  <2>3. ASSUME NEW u \in Threads \ {t} PROVE ThreadHas(u)'
    <3>1. ThreadHas(u) /\ thread'[u] = thread[u] /\ thread[u].job.client # c
      BY <1>3, <1>5 DEF JobInv, Others
    <3>2. Valid(thread[u].job) => Valid(thread[u].job)'
      BY <2>1, <3>1 DEF Valid
    <3>3. thread[u].job.fd \in Fds
              /\ fdClient[thread[u].job.fd] = thread[u].job.client
              => fdClient'[thread[u].job.fd] = fdClient[thread[u].job.fd]
      BY <1>2, <1>7, <3>1
    <3> QED  BY <1>1, <3>1, <3>2, <3>3 DEF ThreadHas
  <2>4. (\A i \in 1..Len(incomingPackets) : Valid(incomingPackets[i]))'
    BY <1>1, <1>3, <2>1 DEF JobInv
  <2>5. (\A i \in 1..Len(outgoingPackets) : Valid(outgoingPackets[i]))'
    BY <1>1, <1>3, <2>1 DEF JobInv
  <2> QED  BY <2>2, <2>3, <2>4, <2>5 DEF JobInv
<1>12. /\ \A w \in Workers : thread'[w] = thread[w] \/
                             (w = t /\ thread'[w].job = NoJob
                                    /\ thread'[w].pc = "idle")
       /\ thread'[Sender] = thread[Sender] \/
              (Sender = t /\ thread'[Sender].job = NoJob
                          /\ thread'[Sender].pc = "idle")
       /\ thread'[Receiver] = thread[Receiver] \/
              (Receiver = t /\ thread'[Receiver].job = NoJob
                            /\ thread'[Receiver].pc \in {"idle", "event"})
       /\ NoJob.client = Null /\ NoJob.player = Null
  BY <1>5, Roles DEF Others, NoJob
<1>13. /\ \A d \in Clients : Served(d)' => Served(d)
       /\ \A d \in Clients : Answered(d)' => Answered(d)
       /\ \A d : Requested(d)' <=> Requested(d)
       /\ \A d \in Clients : Waits(d)' => Waits(d)
       /\ \A d \in Clients \ {c} : Waits(d)' <=> Waits(d)
  <2>1. \A d \in Clients : Served(d)' => Served(d)
    BY <1>12, NullIsNothing DEF Served
  <2>2. \A d \in Clients : Answered(d)' => Answered(d)
    BY <1>1, <1>12, NullIsNothing DEF Answered, Has
  <2>3. \A d : Requested(d)' <=> Requested(d)
    BY <1>1 DEF Requested, Has
  <2>4. /\ \A d \in Clients : Waits(d)' => Waits(d)
        /\ \A d \in Clients \ {c} : Waits(d)' <=> Waits(d)
    BY <1>1, <1>7 DEF Waits
  <2> QED  BY <2>1, <2>2, <2>3, <2>4
<1>14. \A u \in Threads : thread[u].pc \notin {"idle", "event", "lookup"} =>
           thread[u].job.client \in Clients
  BY DEF JobInv, ThreadHas
<1>15. OneAtATime'
  <2>1. ASSUME NEW w \in Workers, Unanswered(w)'
        PROVE  ~Answered(thread[w].job.client)' /\ thread'[w] = thread[w]
    <3>1. thread'[w] = thread[w] /\ Unanswered(w)
      BY <1>12, <2>1 DEF Unanswered, Disconnecting
    <3>2. thread[w].job.client \in Clients
      BY <1>14, <3>1, Roles DEF Unanswered, Disconnecting
    <3> QED  BY <1>13, <3>1, <3>2 DEF OneAtATime
  <2>2. ASSUME NEW d \in Clients
        PROVE  /\ Waits(d)' \/ sent'[d] = 0 =>
                     ~Requested(d)' /\ ~Served(d)' /\ ~Answered(d)'
               /\ Requested(d)' => ~Served(d)' /\ ~Answered(d)'
    BY <1>1, <1>13 DEF OneAtATime
  <2>3. ASSUME NEW u \in Workers, NEW v \in Workers,
               thread'[u].job.client = thread'[v].job.client
        PROVE  u = v \/ thread'[u].job.client = Null
    BY <1>12, <2>3 DEF OneAtATime
  <2>4. \A i, j \in 1..Len(incomingPackets) :
            incomingPackets[i].client = incomingPackets[j].client => i = j
    BY DEF OneAtATime
  <2>5. (/\ thread[Receiver].job.client # Null =>
                Waits(thread[Receiver].job.client)
         /\ thread[Receiver].pc \in Disconnecting =>
                gone[thread[Receiver].job.client])'
    <3>1. CASE thread'[Receiver] = thread[Receiver] /\ t # Receiver
      <4>1. thread[Receiver].job.client \in (Clients \ {c}) \cup {Null}
        BY <1>3, <3>1, ThreadTypes, Roles DEF Jobs
      <4> QED  BY <1>1, <1>13, <3>1, <4>1 DEF OneAtATime
    <3>2. CASE t = Receiver
      BY <1>5, <1>12, <3>2 DEF Disconnecting
    <3> QED  BY <1>12, <3>1, <3>2
  <2>6. (thread[Sender].pc \in Disconnecting =>
            LET d == thread[Sender].job.client
            IN  ~Has(outgoingPackets, d) /\ ~Served(d))'
    <3>1. ASSUME thread'[Sender].pc \in Disconnecting
          PROVE  LET d == thread[Sender].job.client
                 IN  /\ thread'[Sender] = thread[Sender]
                     /\ ~Has(outgoingPackets, d)
                     /\ \A w \in Workers : thread'[w].job.client # d
      <4>1. thread'[Sender] = thread[Sender]
        BY <1>12, <3>1 DEF Disconnecting
      <4>2. thread[Sender].job.client \in Clients
        BY <1>14, <3>1, <4>1, Roles DEF Disconnecting
      <4>3. /\ ~Has(outgoingPackets, thread[Sender].job.client)
            /\ ~Served(thread[Sender].job.client)
        BY <3>1, <4>1 DEF OneAtATime
      <4> QED  BY <1>12, <4>1, <4>2, <4>3, NullIsNothing DEF Served
    <3> QED  BY <1>1, <3>1 DEF Served, Has
  <2>7. (\A w \in Workers : Unanswered(w) => ~Answered(thread[w].job.client))'
    BY <2>1
  <2> QED
    BY <1>1, <2>2, <2>3, <2>4, <2>5, <2>6, <2>7 DEF OneAtATime
<1>16. ListInv'
  <2>1. \A w \in Workers : thread[w].pc = "run" \/ thread'[w].pc = "run" =>
            thread'[w] = thread[w]
    BY <1>1, <1>12
  <2>2. tempPlayerLock # Null =>
            /\ tempPlayerLock \in Workers
            /\ thread'[tempPlayerLock] = thread[tempPlayerLock]
    BY <2>1 DEF ListInv, Moving, TypeInv, TypeOK
  <2>3. \A w \in Workers : AboutToErase(w) =>
            AboutToErase(w)' /\ thread'[w] = thread[w]
    BY <2>1 DEF AboutToErase
  <2> QED  BY <1>1, <2>2, <2>3 DEF ListInv, Moving
<1>17. PlanInv'
  BY <1>1, <1>12 DEF PlanInv
<1>18. DoomInv'
  <2>1. \A q \in Players : Doomed(q) => q # p
    BY <1>2, NullIsNothing DEF Doomed
  <2>2. \A q \in Players : Doomed(q) =>
            \/ \E w \in Workers : thread'[w].job.player = q
            \/ thread'[Sender].job.player = q
            \/ \E i \in 1..Len(outgoingPackets) :
                  outgoingPackets[i].player = q
    BY <1>12, <2>1 DEF DoomInv, p
  <2>3. \A i \in 1..Len(outgoingPackets) :
            outgoingPackets[i].client \in Clients
    BY ValidTypes DEF JobInv
  <2>4. ASSUME NEW i \in 1..Len(outgoingPackets),
               Doomed(outgoingPackets[i].player)
        PROVE  LET d == outgoingPackets[i].client
               IN  /\ \A w \in Workers : thread'[w].job.client # d
                   /\ thread'[Sender].job.client # d
                   /\ \A j \in 1..Len(outgoingPackets) :
                         outgoingPackets[j].client = d => j = i
    BY <1>12, <2>3, <2>4, NullIsNothing DEF DoomInv, Served
  <2>5. ASSUME thread'[Sender].pc \in {"send", "check"},
               Doomed(thread[Sender].job.player)
        PROVE  LET d == thread[Sender].job.client
               IN  /\ \A w \in Workers : thread'[w].job.client # d
                   /\ ~Has(outgoingPackets, d)
    <3>1. thread'[Sender] = thread[Sender]
      BY <1>12, <2>5
    <3>2. thread[Sender].job.client \in Clients
      BY <1>14, <2>5, <3>1, Roles
    <3> QED  BY <1>12, <2>5, <3>1, <3>2, NullIsNothing DEF DoomInv, Served
  <2>6. (\A q \in Players : Doomed(q) =>
            \/ \E w \in Workers : thread[w].job.player = q
            \/ thread[Sender].job.player = q
            \/ \E i \in 1..Len(outgoingPackets) :
                  outgoingPackets[i].player = q)'
    BY <1>1, <2>2 DEF Doomed
  <2>7. (\A i \in 1..Len(outgoingPackets) : Doomed(outgoingPackets[i].player) =>
            LET d == outgoingPackets[i].client
            IN  /\ ~Served(d) /\ thread[Sender].job.client # d
                /\ \A j \in 1..Len(outgoingPackets) :
                      outgoingPackets[j].client = d => j = i)'
    BY <1>1, <2>4 DEF Served, Doomed
  <2>8. (thread[Sender].pc \in {"send", "check"} =>
            (Doomed(thread[Sender].job.player) =>
                LET d == thread[Sender].job.client
                IN  ~Served(d) /\ ~Has(outgoingPackets, d)))'
    BY <1>1, <1>12, <2>5 DEF Served, Doomed, Has
  <2> QED  BY <2>6, <2>7, <2>8 DEF DoomInv
<1>19. EventInv'
  <2>1. /\ \A i \in 1..Len(events') :
              \E j \in 1..Len(events) : /\ events'[i] = events[j]
                                       /\ events[j].fd # fd
        /\ \A i, j \in 1..Len(events') : events'[i].fd = events'[j].fd => i = j
    <3>1. CASE t = Receiver
      <4>1. /\ Head(events) = events[1] /\ Len(events) \in Nat \ {0}
            /\ Len(events') = Len(events) - 1
            /\ \A i \in 1..Len(events') : events'[i] = events[i + 1]
        BY <1>4, <1>5, <3>1, HeadAndTail, TypesOfData DEF DataTypes
      <4>2. events[1].fd = fd
        BY <1>1, <3>1, <4>1 DEF EventInv, Disconnecting, fd
      <4>3. \A i, j \in 1..Len(events) : events[i].fd = events[j].fd => i = j
        BY DEF EventInv
      <4>4. ASSUME NEW i \in 1..Len(events')
            PROVE  i + 1 \in 1..Len(events) /\ i + 1 # 1
        BY <4>1
      <4>5. ASSUME NEW i \in 1..Len(events')
            PROVE  \E j \in 1..Len(events) : /\ events'[i] = events[j]
                                             /\ events[j].fd # fd
        <5>1. events[i + 1].fd # fd
          BY <4>1, <4>2, <4>3, <4>4
        <5> QED  BY <4>1, <4>4, <5>1
      <4>6. ASSUME NEW i \in 1..Len(events'), NEW j \in 1..Len(events'),
                   events'[i].fd = events'[j].fd
            PROVE  i = j
        <5>1. i + 1 = j + 1
          BY <4>1, <4>3, <4>4, <4>6
        <5> QED  BY <5>1
      <4> QED  BY <4>5, <4>6
    <3>2. CASE t # Receiver
      <4>1. ~Waits(c)
        <5>1. Served(c) \/ Answered(c)
          BY <3>2, Roles DEF Served, Answered, c
        <5> QED  BY <1>2, <5>1 DEF OneAtATime
      <4>2. \A i \in 1..Len(events) : events[i].fd # fd
        BY <1>2, <4>1 DEF EventInv
      <4>3. events' = events
        BY <1>5, <3>2
      <4> QED  BY <4>2, <4>3 DEF EventInv
    <3> QED  BY <3>1, <3>2
  <2>2. ASSUME NEW i \in 1..Len(events')
        PROVE  /\ events'[i].fd \in Fds =>
                     /\ fdClient'[events'[i].fd] # Null
                     /\ Waits(fdClient[events'[i].fd])
                     /\ fdClient[events'[i].fd] \in Clients \ {c}
                     /\ fdClient'[events'[i].fd] = fdClient[events'[i].fd]
               /\ events'[i].hup =>
                     /\ events'[i].fd \in Fds
                     /\ gone[fdClient[events'[i].fd]]
    <3>1. PICK j \in 1..Len(events) : events'[i] = events[j] /\ events[j].fd # fd
      BY <2>1
    <3> QED  BY <1>7, <3>1 DEF EventInv, TypeInv, TypeOK
  <2>3. \A d \in Clients \ {c} : Waits(d) => inbox'[d] # <<>> \/ gone'[d]
    BY <1>1, <1>7 DEF Waits
  <2>4. \A i \in 1..Len(events') :
            /\ events'[i].fd \in Fds =>
                   LET d == fdClient'[events'[i].fd]
                   IN  d # Null /\ (inbox'[d] # <<>> \/ gone'[d])
            /\ events'[i].hup =>
                   events'[i].fd \in Fds /\ gone'[fdClient'[events'[i].fd]]
    BY <1>1, <2>2, <2>3
  <2>5. thread'[Receiver].pc \in {"read"} \cup Disconnecting =>
            thread'[Receiver].job.fd = Head(events').fd
    BY <1>1, <1>5, <1>12 DEF EventInv, Disconnecting
  <2> QED  BY <2>1, <2>4, <2>5 DEF EventInv, Waits
<1>20. BlankInv'
  <2>1. \A gd : Blank(gd)' <=> Blank(gd)
    BY <1>1 DEF Blank
  <2>2. ASSUME NEW gd \in Fds, LET d == fdClient'[gd]
                               IN  d = Null \/ Len(inbox'[d]) = sent[d]
        PROVE  Blank(gd)
    <3>1. CASE gd = fd
      BY <1>2, <3>1
    <3>2. CASE gd # fd
      <4>1. fdClient'[gd] = fdClient[gd]
        BY <1>7, <3>2
      <4>2. fdClient[gd] = Null \/ inbox'[fdClient[gd]] = inbox[fdClient[gd]]
        BY <1>7, <1>8, <4>1
      <4> QED  BY <2>2, <4>1, <4>2 DEF BlankInv
    <3> QED  BY <3>1, <3>2
  <2>3. \A u \in Threads : thread'[u].pc = "close" => thread'[u] = thread[u]
    BY <1>5 DEF Others
  <2>4. thread'[Receiver].pc = "lookup" =>
            thread'[Receiver] = thread[Receiver] /\ events' = events
    BY <1>1, <1>5, <1>12
  <2>5. (\A gd \in Fds : LET d == fdClient[gd]
                       IN  d = Null \/ Len(inbox[d]) = sent[d] => Blank(gd))'
    BY <1>1, <2>1, <2>2
  <2>6. (\A u \in Threads : thread[u].pc = "close" => Blank(thread[u].job.fd))'
    BY <1>1, <2>3 DEF BlankInv, Blank
  <2>7. (LET gd == thread[Receiver].job.fd
         IN  thread[Receiver].job.player = Null =>
              /\ thread[Receiver].pc = "remove" => Blank(gd)
              /\ thread[Receiver].pc = "read" =>
                     playerLst[gd] = Null /\ tempPlayerLst[gd] = Null)'
    BY <1>1, <1>5, <1>12 DEF BlankInv, Blank
  <2> QED  BY <1>1, <2>4, <2>5, <2>6, <2>7 DEF BlankInv
<1>21. UnknownInv'
  <2>1. \A w \in Workers : thread'[w].pc = "route" => thread'[w] = thread[w]
    BY <1>12
  <2>2. \A gd \in Fds : fdClient'[gd] # Null =>
            /\ fdClient'[gd] = fdClient[gd]
            /\ inbox'[fdClient[gd]] = inbox[fdClient[gd]]
    BY <1>7, <1>8
  <2> QED  BY <1>1, <2>1, <2>2 DEF UnknownInv
<1>22. BirthInv' /\ NoFault'
  BY <1>1, BirthKept DEF NoFault
<1> QED
  BY <1>9, <1>10, <1>11, <1>15, <1>16, <1>17, <1>18, <1>19, <1>20, <1>21,
     <1>22 DEF Kept
=============================================================================
