--------------------------- MODULE JoinSequences ----------------------------
(***************************************************************************)
(* From Login to Play: the clients' requests, the sequences of packets     *)
(* with which workers answer them, the sender.                             *)
(*                                                                         *)
(* A worker takes a request, routes it by the state in which it finds the  *)
(* player, and then queues one packet after the other: `todo' is what is   *)
(* left of the handler.  A step may throw (there is no memory); what is    *)
(* skipped then depends on where the exception is caught.                  *)
(*                                                                         *)
(* External: the client, who sends each request when it has seen the       *)
(* packet that calls for it.  No connection is lost here, and no request   *)
(* is misread (see Connections and Codec).                                 *)
(***************************************************************************)
EXTENDS Clientbound

CONSTANTS
    Clients, Workers, Nobody,
    Name,               \* the name of each client
    Locale,             \* in the Client Information of all of them
    Registries,         \* REGISTRIES: a sequence of ids with their entries
    RegistriesTags,     \* the generated table of that name
    ViewDistance,       \* 3
    MaxBatch,           \* MAX_BATCH_SIZE, 16
    MaxFaults,          \* how many steps may throw
    MaxOutgoing,        \* bound: how many packets wait for the sender
    Early,              \* the clients that send their Client Information
                        \* right after Login Acknowledged
    Requested           \* how many requests each client gets to send

\* An odd square is no multiple of 16: else a batch would be left open.
ASSUME BatchAssumption ==
    MaxBatch \in Nat \ {0} /\ ((2 * ViewDistance + 1)^2) % MaxBatch # 0

VARIABLES
    said,           \* how many requests each client has sent
    incoming,       \* the requests that no worker has taken
    state,          \* the PlayerState of each client
    task,           \* what each worker is at
    outgoing,       \* the packets that have not been sent
    seen,           \* what each client has read, in order
    faults,         \* how many steps have thrown
    hampered,       \* history: clients of a task that threw
    confused        \* history: clients of whom a request was handled in
                    \* another state than it is meant for

clientVars == <<said, seen>>
faultVars == <<faults, hampered>>
vars == <<clientVars, incoming, state, task, outgoing, faultVars, confused>>

-----------------------------------------------------------------------------
(* UUIDs.  MD5::hash pads the input to blocks, but has no rounds: every    *)
(* block only doubles the four words.                                      *)

Blocks(n) == (n + 8) \div 64 + 1

Doubled(word) ==
    [i \in 1..4 |-> ((2 * word[i]) % 256)
                    + (IF i > 1 /\ word[i - 1] >= 128 THEN 1 ELSE 0)]

hash(input) ==
    LET words[n \in Nat] ==
            IF n = 0 THEN <<<<1, 35, 69, 103>>, <<137, 171, 205, 239>>,
                            <<254, 220, 186, 152>>, <<118, 84, 50, 16>>>>
            ELSE [i \in 1..4 |-> Doubled(words[n - 1][i])]
    IN  FlattenSeq(words[Blocks(Len(input))])

\* Of version 3, and of the variant of RFC 4122.
fromOfflinePlayer(name) ==
    LET md == hash(Text(14) \o name)
    IN  [md EXCEPT ![7] = 48 + (@ % 16), ![9] = 128 + (@ % 64)]

-----------------------------------------------------------------------------
(* What a worker has to do.                                                *)

\* An exception ends all of the handler ("all"), or this step ("one").
Send(packet, loses) ==
    [kind |-> "send", packet |-> packet, loses |-> loses]

SendAll(packets) == [i \in DOMAIN packets |-> Send(packets[i], "all")]

validateRegistryData(registry) ==
    /\ registry.id # <<>>
    /\ \A i \in DOMAIN registry.entries : registry.entries[i] # <<>>
    /\ IsInjective(registry.entries)

\* What parseMinecraftRegistries keeps, and the batch validates once more.
ValidRegistries == SelectSeq(Registries, validateRegistryData)

\* Each registry has a try of its own; an error is counted, and the loop goes on.
sendRegistryDataBatch ==
    [i \in DOMAIN ValidRegistries |-> Send(registryPacket(ValidRegistries[i]), "one")]

Nothing == Packet(-1, <<>>, "none")

Parse == [kind |-> "parse", packet |-> Nothing, loses |-> "one"]

\* Mutant: the client may finish before it has the tags.
sendFinishBeforeTags ==
    <<Parse, Send(finishConfiguration, "one"), Send(tagsPacket(RegistriesTags), "one")>>

\* sendRegistryData and sendUpdateTags catch what they throw.  What they return
\* is overwritten, and then not looked at: Finish Configuration follows anyway.
sendCompleteConfigurationSequence ==
    <<Parse, Send(tagsPacket(RegistriesTags), "one"), Send(finishConfiguration, "all")>>

enterPlay ==
    SendAll(<<writePlayPacket(1), changeDifficulty, playerAbilities,
              setHeldItem, sendPlayerPositionAndLook>>)

completeSpawnSequence ==
    SendAll(<<sendPlayerAbilities, sendSetHealth, sendSetExperience,
              sendUpdateTime, sendSetHeldItem>>)

\* The packet is built when it is its turn.
Chunk(x, z) ==
    [kind |-> "chunk", packet |-> Packet(39, <<x, z>>, "later"), loses |-> "one"]

\* The end of a full batch and the start of the next are one try with the chunk.
Finish(batch) ==
    [kind |-> "finish", packet |-> sendChunkBatchFinished(batch), loses |-> "two"]
Restart == [kind |-> "restart", packet |-> sendChunkBatchStart, loses |-> "one"]
Final == [kind |-> "final", packet |-> Nothing, loses |-> "one"]

Side == 2 * ViewDistance + 1

sendChunkBatchSequence ==
    <<Send(sendChunkBatchStart, "all")>>
    \o [i \in 1..(Side * Side) |-> Chunk((i - 1) \div Side - ViewDistance,
                                         ((i - 1) % Side) - ViewDistance)]
    \o <<Final>>
-----------------------------------------------------------------------------
(* Requests: what a client sends, in which state it means it to be         *)
(* handled, and the packet that it waits for.  The last two are no packets *)
(* of the protocol: they stand for a call of initGameSequence and one of   *)
(* sendChunkBatchSequence, which nothing in the code makes, for a player   *)
(* that is in Play.                                                        *)

Request(in, id, cue, text) == [in |-> in, id |-> id, cue |-> cue, text |-> text]

Requests ==
    [c \in Clients |->
        <<Request("Login", 0, 0, Name[c]), Request("Login", 3, 2, <<>>),
          Request("Configuration", 0, IF c \in Early THEN 2 ELSE 14, Locale),
          Request("Configuration", 7, 14, <<>>),
          Request("Configuration", 3, 3, <<>>), Request("Play", 0, 65, <<>>),
          Request("Play", 100, 34, <<>>), Request("Play", 101, 106, <<>>)>>]

\* The handler that the router calls for a packet id in a state.
Routes ==
    ("Login" :> (0 :> "loginStart" @@ 3 :> "loginAcknowledged"))
    @@ ("Configuration" :> (0 :> "clientInformation" @@ 3 :> "acknowledgeFinish"
                            @@ 7 :> "knownPacks"))
    @@ ("Play" :> (0 :> "confirmTeleportation" @@ 100 :> "spawn" @@ 101 :> "chunks"))

\* Login Start reads the first string of its packet, whatever that is.
Todo(handler, text) ==
    CASE handler = "loginStart" -> SendAll(<<loginSuccess(fromOfflinePlayer(text), text)>>)
      [] handler = "loginAcknowledged" -> SendAll(<<clientboundKnownPacks>>)
      [] handler = "clientInformation" -> <<>>
      [] handler = "knownPacks" -> sendCompleteConfigurationSequence
      [] handler = "acknowledgeFinish" -> enterPlay
      [] handler = "confirmTeleportation" -> SendAll(<<gameEventPacket>>)
      [] handler = "spawn" -> completeSpawnSequence
      [] handler = "chunks" -> sendChunkBatchSequence

NextState(handler, old) ==
    CASE handler = "loginAcknowledged" -> "Configuration"
      [] handler = "acknowledgeFinish" -> "Play"
      [] OTHER -> old

\* The client's phase, which it changes with the packets that it sees.
HasSeen(c, id) == \E i \in DOMAIN seen[c] : seen[c][i].id = id

Phase(c) ==
    IF HasSeen(c, 3) THEN "Play" ELSE IF HasSeen(c, 2) THEN "Configuration" ELSE "Login"

\* A client gives up at bytes that it cannot read.
IsLost(c) == HasSeen(c, Malformed.id)

IsCued(c, request) == request.cue = 0 \/ HasSeen(c, request.cue)

-----------------------------------------------------------------------------
Idle == [from |-> Nobody, number |-> 0, routed |-> FALSE, todo |-> <<>>, batch |-> 0]

Init ==
    /\ said = [c \in Clients |-> 0] /\ seen = [c \in Clients |-> <<>>]
    /\ incoming = <<>> /\ outgoing = <<>>
    /\ state = [c \in Clients |-> "Login"]
    /\ task = [w \in Workers |-> Idle]
    /\ faults = 0 /\ hampered = {} /\ confused = {}

\* A bound: a client that is confused is not followed any further.
Say(c) ==
    /\ ~IsLost(c) /\ c \notin confused /\ said[c] < Requested[c]
    /\ IsCued(c, Requests[c][said[c] + 1])
    /\ said' = [said EXCEPT ![c] = @ + 1]
    /\ incoming' = Append(incoming, [from |-> c, number |-> said'[c]])
    /\ UNCHANGED <<seen, state, task, outgoing, faultVars, confused>>

\* Mutant: the count goes on in the next batch.
RestartedKeepsCount(t) == [t EXCEPT !.todo = Tail(@)]

Restarted(t) == [t EXCEPT !.todo = Tail(@), !.batch = 0]

\* The chunk just queued counts, and may be the last of its batch.
Counted(t, batch) ==
    [t EXCEPT !.batch = batch,
              !.todo = (IF batch >= MaxBatch THEN <<Finish(batch), Restart>> ELSE <<>>)
                       \o Tail(@)]

\* A handler that has nothing left to do: the worker frees its request.
Freed(t) == IF t.todo = <<>> THEN Idle ELSE t

\* The task after the step at the head of its todo.
Done(t) ==
    CASE Head(t.todo).kind = "parse" -> [t EXCEPT !.todo = sendRegistryDataBatch \o Tail(@)]
      [] Head(t.todo).kind = "chunk" -> Counted(t, t.batch + 1)
      [] Head(t.todo).kind = "restart" -> Restarted(t)
      [] Head(t.todo).kind = "final" /\ t.batch > 0 ->
            [t EXCEPT !.todo = <<Send(sendChunkBatchFinished(t.batch), "one")>>]
      [] OTHER -> [t EXCEPT !.todo = Tail(@)]

Handler(t) == Routes[state[t.from]][Requests[t.from][t.number].id]

Routed(t, handler) ==
    [t EXCEPT !.routed = TRUE, !.todo = Todo(handler, Requests[t.from][t.number].text)]

\* What the next step of a worker makes of its task.
Advanced(t) ==
    IF t.from = Nobody THEN incoming[1] @@ Idle
    ELSE IF ~t.routed THEN Freed(Routed(t, Handler(t)))
    ELSE Freed(Done(t))

CanAdvance(t) ==
    IF t.from = Nobody THEN incoming # <<>>
    ELSE t.routed => Len(outgoing) < MaxOutgoing

Advance(w) ==
    /\ CanAdvance(task[w])
    /\ task' = [task EXCEPT ![w] = Advanced(@)]

Take(w) ==
    /\ task[w].from = Nobody /\ Advance(w)
    /\ incoming' = Tail(incoming)
    /\ UNCHANGED <<clientVars, state, outgoing, faultVars, confused>>

\* packetRouter: the state that counts is that of this moment.
Route(w) ==
    LET c == task[w].from
    IN  /\ c # Nobody /\ ~task[w].routed /\ Advance(w)
        /\ state' = [state EXCEPT ![c] = NextState(Handler(task[w]), @)]
        /\ confused' = IF state[c] = Requests[c][task[w].number].in THEN confused
                       ELSE confused \cup {c}
        /\ UNCHANGED <<clientVars, incoming, outgoing, faultVars>>

Columns == -ViewDistance..ViewDistance

ChunkBytes == [x \in Columns |-> [z \in Columns |-> Bytes(sendChunkData(x, z))]]

Data(step) ==
    CASE step.kind = "chunk" -> ChunkBytes[step.packet.fields[1]][step.packet.fields[2]]
      [] step.packet = Nothing -> <<>>
      [] OTHER -> Bytes(step.packet)

Push(c, data) ==
    outgoing' = IF data = <<>> THEN outgoing
                ELSE Append(outgoing, [to |-> c, data |-> data])

Step(w) ==
    /\ task[w].routed /\ Advance(w)
    /\ Push(task[w].from, Data(task[w].todo[1]))
    /\ UNCHANGED <<clientVars, incoming, state, faultVars, confused>>

Hampers(c) ==
    /\ faults < MaxFaults /\ faults' = faults + 1
    /\ hampered' = hampered \cup {c}

\* What is left of a todo when its first step throws.
Left(todo) ==
    CASE todo[1].loses = "all" -> <<>>
      [] todo[1].loses = "one" -> Tail(todo)
      [] todo[1].loses = "two" -> Tail(Tail(todo))

Throw(w) ==
    /\ task[w].todo # <<>>
    /\ Hampers(task[w].from)
    /\ task' = [task EXCEPT ![w] = Freed([@ EXCEPT !.todo = Left(@)])]
    /\ UNCHANGED <<clientVars, incoming, state, outgoing, confused>>

\* sendChunkData catches what it throws, and returns with the request's copy as
\* it is, which its caller queues all the same.  What is sent is the body and,
\* as the size counts the id, one byte from behind it.
StrayBytes == {0, 255}

ThrowInChunk(w) ==
    /\ task[w].todo # <<>> /\ Head(task[w].todo).kind = "chunk" /\ Advance(w)
    /\ Hampers(task[w].from)
    /\ \E byte \in StrayBytes : Push(task[w].from, <<byte>>)
    /\ UNCHANGED <<clientVars, incoming, state, confused>>

\* Of a chunk only the coordinates are kept.
Kept(item) ==
    IF item.id = 39 THEN [item EXCEPT !.fields = SubSeq(@, 1, 2)] ELSE item

Pop == outgoing # <<>> /\ outgoing' = Tail(outgoing)

\* senderThreadLoop, and the client that reads what is sent.
SenderSends ==
    /\ Pop
    /\ LET c == outgoing[1].to
       IN  seen' = IF IsLost(c) THEN seen
                   ELSE [seen EXCEPT ![c] =
                             Append(@, Kept(ClientReads(Phase(c), outgoing[1].data)))]
    /\ UNCHANGED <<said, incoming, state, task, faultVars, confused>>

-----------------------------------------------------------------------------
Next ==
    \/ \E c \in Clients : Say(c)
    \/ \E w \in Workers : Take(w) \/ Route(w) \/ Step(w) \/ Throw(w) \/ ThrowInChunk(w)
    \/ SenderSends

Spec == Init /\ [][Next]_vars

\* Clients answer, and the threads run: Advance and Pop are what makes the rest
\* of a worker's and the sender's step a step.
FairSpec ==
    /\ Spec
    /\ \A c \in Clients : WF_vars(Say(c))
    /\ \A w \in Workers : WF_task(Advance(w))
    /\ WF_outgoing(Pop)

-----------------------------------------------------------------------------
(* Properties.                                                             *)

Sound(c) == c \notin hampered \cup confused

\* What a client is to be told, except for chunks.
Packets ==
    [c \in Clients |->
        <<loginSuccess(fromOfflinePlayer(Name[c]), Name[c]), clientboundKnownPacks>>
        \o [i \in DOMAIN ValidRegistries |-> registryPacket(ValidRegistries[i])]
        \o <<tagsPacket(RegistriesTags), finishConfiguration, writePlayPacket(1),
             changeDifficulty, playerAbilities, setHeldItem,
             sendPlayerPositionAndLook, gameEventPacket, sendPlayerAbilities,
             sendSetHealth, sendSetExperience, sendUpdateTime, sendSetHeldItem>>]

Item(packet) == [id |-> packet.id, fields |-> packet.fields]

Script == [c \in Clients |-> [i \in DOMAIN Packets[c] |-> Item(Packets[c][i])]]

BatchIds == {sendChunkBatchFinished(0).id, sendChunkBatchStart.id, 39}

Told(c) == SelectSeq(seen[c], LAMBDA item : item.id \notin BatchIds)

TheJoining ==
    INSTANCE Joining WITH told <- [c \in Clients |-> Told(c)],
                          Garbage <- Malformed

\* A client reads what it is to be told, every field of it, in order and
\* nothing else, unless the server ran out of memory for it or took it for
\* being in another state.  If it did run out of memory, whatever is left out
\* the rest is in order.
ClientsAreToldTheScript == TheJoining!Spec

\* The reading of batches: is one open, and how many chunks since it began.
Batched(b, item) ==
    CASE item.id = 12 -> [open |-> TRUE, chunks |-> 0, sound |-> b.sound /\ ~b.open]
      [] item.id = 39 -> [b EXCEPT !.chunks = @ + 1, !.sound = @ /\ b.open]
      [] item.id = 11 ->
            [open |-> FALSE, chunks |-> b.chunks,
             sound |-> /\ b.sound /\ b.open
                       /\ item.fields = <<VarOf(b.chunks)>> /\ b.chunks \in 1..MaxBatch]
      [] OTHER -> b

Batches(c) ==
    LET upTo[i \in 0..Len(seen[c])] ==
            IF i = 0 THEN [open |-> FALSE, chunks |-> 0, sound |-> TRUE]
            ELSE Batched(upTo[i - 1], seen[c][i])
    IN  upTo[Len(seen[c])]

IsServed(c) ==
    /\ \A i \in DOMAIN incoming : incoming[i].from # c
    /\ \A w \in Workers : task[w].from # c
    /\ \A i \in DOMAIN outgoing : outgoing[i].to # c

\* The chunks that a client gets are in batches that are opened once, not empty
\* and not too large, and closed with the number of chunks in them.
BatchesAreClosed ==
    \A c \in Clients :
        Sound(c) => /\ Batches(c).sound
                    /\ IsServed(c) => ~Batches(c).open

\* Whoever wants to join is told all that it takes, if the server does not
\* run out of memory for it or take it for being in another state.
EveryoneJoins ==
    \A c \in Clients :
        Requested[c] = Len(Requests[c]) => <>(Told(c) = Script[c] \/ ~Sound(c))

\* A client follows the protocol; each of its requests is handled in the
\* state for which it is meant (loginAcknowledged.cpp:31).
RequestsAreHandledAsMeant == confused = {}
=============================================================================
