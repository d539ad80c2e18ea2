------------------------------- MODULE Codec --------------------------------
(***************************************************************************)
(* From bytes to packets and back, for one connection.                     *)
(*                                                                         *)
(* A client writes frames: a VarInt with the size of what follows, the     *)
(* VarInt of the packet's id, the packet's fields.  They arrive in pieces. *)
(* The constructor of Packet reads a frame from the socket, byte by byte   *)
(* and blocking; a worker takes the packet, its handler reads the fields   *)
(* and builds the replies; the sender writes those to the socket.  Here    *)
(* one worker serves the connection: what several do to the state of a     *)
(* player is in Connections, and so is what outlives a closed connection.  *)
(***************************************************************************)
EXTENDS Buffer

CONSTANTS
    MaxAddress, MaxName, MaxPack,   \* 255, 16 and 10000: lengths of strings
    MaxPacketSize,                  \* 32767: refused above it in Login
    Json,                           \* the bytes of the status
    Uuid,                           \* the bytes of the player's UUID
    FixedReplies,                   \* for each handler, the replies that do
                                    \* not depend on the request
    VarInts, Strings, Longs, Fillers, \* the values that the client sends
    MaxSent, Garbage                \* how many messages it sends, and what
                                    \* it may send when it stops doing that

ASSUME FixedRepliesAssumption ==
    /\ \A h \in DOMAIN FixedReplies : FixedReplies[h] \in Seq(Seq(Byte))
    /\ DOMAIN FixedReplies \cap {"status", "ping", "loginStart"} = {}

ASSUME ValuesAssumption ==
    /\ VarInts \cup Longs \subseteq Int
    /\ Strings \cup Fillers \cup Garbage \cup {Json, Uuid} \subseteq Seq(Byte)
    /\ {MaxAddress, MaxName, MaxPack, MaxPacketSize, MaxSent} \subseteq Nat

\* Arithmetic that the provers do not know.
ASSUME PowersAssumption ==
    /\ 2^0 = 1 /\ \A n \in 1..(Group * Width) : 2^n = 2 * 2^(n - 1)
    /\ Base^0 = 1 /\ \A n \in 1..LongBytes : Base^n = Base * Base^(n - 1)
    /\ 2^(LongBytes * (Group + 1)) = Base^LongBytes
    /\ Base^LongBytes = 2 * 2^(LongBytes * (Group + 1) - 1)

VARIABLES
    clientState,    \* the state that the client believes to be in
    stream,         \* all bytes that the client has written
    hungUp,         \* the client has closed its end after them
    consumed,       \* how many the server has read
    reader,         \* the Packet under construction
    connected,      \* the server has not closed the connection
    incoming,       \* the packets that no worker has taken
    state,          \* the player's PlayerState
    outgoing,       \* the replies that have not been sent
    replies,        \* all bytes that the server has written
    sent,           \* history: the messages written
    packets,        \* history: the packets constructed
    received,       \* history: the messages that handlers have read
    exceptions      \* history: what has been thrown in handlers

clientVars == <<clientState, stream, hungUp, sent>>
readVars == <<consumed, reader, packets>>
workVars == <<state, received, exceptions>>
vars == <<clientVars, readVars, connected, incoming, workVars,
          outgoing, replies>>

States == {"Handshake", "Status", "Login", "Configuration", "Play", "None"}

Idle == [at |-> "size", value |-> 0, bytes |-> 0, size |-> 0, id |-> 0,
         left |-> 0]

\* A connection may have been in any state for long.
Init ==
    /\ state \in States \ {"None"} /\ clientState = state
    /\ stream = <<>> /\ hungUp = FALSE
    /\ consumed = 0 /\ reader = Idle /\ connected = TRUE
    /\ incoming = <<>> /\ outgoing = <<>> /\ replies = <<>>
    /\ sent = <<>> /\ packets = <<>> /\ received = <<>> /\ exceptions = {}

-----------------------------------------------------------------------------
(* The client, by the protocol: how it encodes, what it sends in which     *)
(* state, and what it reads in the replies.                                *)

Padded(v, n) ==
    LET u == v % 2^Width
    IN  [i \in 1..n |-> ((u \div 2^(Group * (i - 1))) % 2^Group)
                        + (IF i < n THEN 2^Group ELSE 0)]

ShortestVarInt(v) ==
    CHOOSE n \in 1..Width :
        /\ v % 2^Width < 2^(Group * n)
        /\ \A k \in 1..(n - 1) : v % 2^Width >= 2^(Group * k)

ClientVarInt(v) == Padded(v, ShortestVarInt(v))

ClientString(s) == ClientVarInt(Len(s)) \o s

ClientLong(v) ==
    [i \in 1..LongBytes |-> (v % Base^(LongBytes - i + 1)) \div Base^(LongBytes - i)]

Port == <<0, 1>>

Message(from, id, handler, fields, body, to) ==
    [from |-> from, handler |-> handler, fields |-> fields,
     bytes |-> ClientVarInt(id) \o body, to |-> to]

Handshakes ==
    {Message("Handshake", 0, "handshake", <<v, a, "dropped", n>>,
             ClientVarInt(v) \o ClientString(a) \o Port \o ClientVarInt(n),
             IF n = 1 THEN "Status" ELSE "Login") :
     v \in VarInts, a \in Strings, n \in {1, 2}}

StatusMessages ==
    {Message("Status", 0, "status", <<>>, <<>>, "Status")}
    \cup {Message("Status", 1, "ping", <<v>>, ClientLong(v), "None") : v \in Longs}

LoginMessages ==
    {Message("Login", 0, "loginStart", <<s>>, ClientString(s), "Login") :
     s \in Strings}
    \cup {Message("Login", 2, "ignored", <<>>, f, "Login") : f \in Fillers}
    \cup {Message("Login", 3, "loginAcknowledged", <<>>, <<>>, "Configuration")}

InformationMessage(s, v) ==
    Message("Configuration", 0, "clientInformation",
            <<s, 2, v, 1, 3, 0, 1, 0>>,
            ClientString(s) \o <<2>> \o ClientVarInt(v) \o <<1, 3>>
            \o ClientVarInt(0) \o <<1, 0>>, "Configuration")

PacksMessage(s, t) ==
    Message("Configuration", 7, "knownPacks", <<<<<<s, t, s>>>>>>,
            ClientVarInt(1) \o ClientString(s) \o ClientString(t)
            \o ClientString(s), "Configuration")

ConfigurationMessages ==
    {InformationMessage(s, v) : s \in Strings, v \in VarInts}
    \cup {PacksMessage(s, t) : s \in Strings, t \in Strings}
    \cup {Message("Configuration", 8, "ignored", <<>>, f, "Configuration") :
          f \in Fillers}
    \cup {Message("Configuration", 3, "acknowledgeFinish", <<>>, <<>>, "Play")}

PlayMessages ==
    {Message("Play", 0, "confirmTeleportation", <<v>>, ClientVarInt(v), "Play") :
     v \in VarInts}

ClientMessages == Handshakes \cup StatusMessages \cup LoginMessages
                  \cup ConfigurationMessages \cup PlayMessages

\* The payloads with which the client wants a message answered.
Expected(m) ==
    CASE m.handler = "status" -> <<ClientVarInt(0) \o ClientString(Json)>>
      [] m.handler = "ping" -> <<ClientVarInt(1) \o ClientLong(m.fields[1])>>
      [] m.handler = "loginStart" ->
            <<ClientVarInt(2) \o Uuid \o ClientString(m.fields[1]) \o <<0>>>>
      [] m.handler \in DOMAIN FixedReplies -> FixedReplies[m.handler]
      [] OTHER -> <<>>

\* The payloads that the client finds in a sequence of bytes, one behind the
\* other; what does not end is one without an id.
Payloads(bytes) ==
    LET ends(p) == {q \in (p + 1)..Len(bytes) :
                        /\ ~More(bytes[q]) /\ Group * (q - p - 1) < Width
                        /\ \A k \in (p + 1)..(q - 1) : More(bytes[k])
                        /\ q + Spelled(SubSeq(bytes, p + 1, q)) <= Len(bytes)}
        next(before) ==
            LET p == before.at
                q == CHOOSE q \in ends(p) : TRUE
                end == q + Spelled(SubSeq(bytes, p + 1, q))
            IN  IF p = Len(bytes) THEN before
                ELSE IF ends(p) = {}
                THEN [at |-> Len(bytes), found |-> Append(before.found, <<>>)]
                ELSE [at |-> end,
                      found |-> Append(before.found, SubSeq(bytes, q + 1, end))]
        upTo[n \in 0..Len(bytes)] ==
            IF n = 0 THEN [at |-> 0, found |-> <<>>] ELSE next(upTo[n - 1])
    IN  upTo[Len(bytes)].found

\* How many bytes of the stream are messages; garbage may follow them.
Clean == IF sent = <<>> THEN 0 ELSE sent[Len(sent)].at

IsGarbled == Len(stream) > Clean

\* A size may be written with a byte more than it needs.
Send(m) ==
    /\ ~hungUp /\ ~IsGarbled
    /\ Len(sent) < MaxSent
    /\ m.from = clientState
    /\ clientState' = m.to
    /\ \E pad \in {0, 1} :
           stream' = stream \o Padded(Len(m.bytes),
                                      ShortestVarInt(Len(m.bytes)) + pad)
                            \o m.bytes
    /\ sent' = Append(sent, [at |-> Len(stream'), handler |-> m.handler,
                             fields |-> m.fields])
    /\ UNCHANGED <<hungUp, readVars, connected, incoming, workVars,
                   outgoing, replies>>

SendGarbage ==
    /\ ~hungUp /\ ~IsGarbled
    /\ \E g \in Garbage : stream' = stream \o g
    /\ UNCHANGED <<clientState, hungUp, sent, readVars, connected, incoming,
                   workVars, outgoing, replies>>

HangUp ==
    /\ ~hungUp
    /\ hungUp' = TRUE
    /\ UNCHANGED <<clientState, stream, sent, readVars, connected,
                   incoming, workVars, outgoing, replies>>

-----------------------------------------------------------------------------
(* The constructors of Packet, run by the receiver.                        *)

\* The bits of a byte that are shifted out of an int are lost.
Accumulated == (reader.value + Digit(stream[consumed + 1])
                               * 2^(Group * reader.bytes)) % 2^Width

VarintValue == Signed(Accumulated, Width)

ByteToRead(places) ==
    connected /\ reader.at \in places /\ consumed < Len(stream)

VarintContinues ==
    /\ ByteToRead({"size", "id"})
    /\ More(stream[consumed + 1])
    /\ Group * (reader.bytes + 1) < Width
    /\ reader' = [reader EXCEPT !.value = Accumulated, !.bytes = @ + 1]
    /\ consumed' = consumed + 1
    /\ UNCHANGED <<clientVars, packets, connected, incoming, workVars,
                   outgoing, replies>>

SizeIsRead ==
    /\ ByteToRead({"size"})
    /\ ~More(stream[consumed + 1])
    /\ VarintValue # -1
    /\ reader' = [Idle EXCEPT !.at = "id", !.size = VarintValue]
    /\ consumed' = consumed + 1
    /\ UNCHANGED <<clientVars, packets, connected, incoming, workVars,
                   outgoing, replies>>

\* Mutant: the size does not count the id.
remainingWithId == Signed(reader.size, Width)

\* What the size leaves for the body, in int arithmetic.
remaining == Signed(reader.size - (reader.bytes + 1), Width)

\* Packet is complete: handleIncomingData pushes it.
Deliver(id, size, data) ==
    LET packet == [at |-> consumed', id |-> id, size |-> size, data |-> data]
    IN  /\ incoming' = Append(incoming, packet)
        /\ packets' = Append(packets, packet)
        /\ reader' = Idle

IdIsRead ==
    /\ ByteToRead({"id"})
    /\ ~More(stream[consumed + 1])
    /\ VarintValue # -1
    /\ remaining >= 0
    /\ consumed' = consumed + 1
    /\ IF remaining = 0
       THEN Deliver(VarintValue, reader.size, <<>>)
       ELSE /\ reader' = [reader EXCEPT !.at = "body", !.id = VarintValue,
                                        !.left = remaining]
            /\ UNCHANGED <<packets, incoming>>
    /\ UNCHANGED <<clientVars, connected, workVars, outgoing, replies>>

\* read() gives what has arrived, at least one byte and at most what it is
\* asked for; the body read so far is the end of what has been consumed.
ReadBody ==
    /\ ByteToRead({"body"})
    /\ \E bytesRead \in 1..reader.left :
           /\ consumed + bytesRead <= Len(stream)
           /\ consumed' = consumed + bytesRead
           /\ IF bytesRead = reader.left
              THEN LET total == reader.size - reader.bytes - 1
                   IN  Deliver(reader.id, reader.size,
                               SubSeq(stream, consumed' - total + 1, consumed'))
              ELSE /\ reader' = [reader EXCEPT !.left = @ - bytesRead]
                   /\ UNCHANGED <<packets, incoming>>
    /\ UNCHANGED <<clientVars, connected, workVars, outgoing, replies>>

EndOfStream == hungUp /\ consumed = Len(stream)

\* readVarint returns -1 for an error and for the value -1; the receiver
\* catches the constructor's exception and closes the connection.
ReadFails ==
    /\ connected
    /\ \/ EndOfStream
       \/ /\ ByteToRead({"size", "id"})
          /\ IF More(stream[consumed + 1])
             THEN Group * (reader.bytes + 1) >= Width
             ELSE \/ VarintValue = -1
                  \/ reader.at = "id" /\ remaining < 0
    /\ connected' = FALSE
    /\ UNCHANGED <<clientVars, readVars, incoming, workVars, outgoing,
                   replies>>

-----------------------------------------------------------------------------
(* The handlers: what they read, what they answer.                         *)

Route(in, id, handler) == [in |-> in, id |-> id, handler |-> handler]

Routes ==
    {Route("Handshake", 0, "handshake"),
     Route("Status", 0, "status"),
     Route("Status", 1, "ping"),
     Route("Login", 0, "loginStart"),
     Route("Login", 3, "loginAcknowledged"),
     Route("Configuration", 0, "clientInformation"),
     Route("Configuration", 3, "acknowledgeFinish"),
     Route("Configuration", 7, "knownPacks"),
     Route("Play", 0, "confirmTeleportation")}
    \cup {Route("Login", id, "ignored") : id \in {2, 4}}
    \cup {Route("Configuration", id, "ignored") : id \in {1, 2, 4, 5, 6, 8}}

packetRouter(p) ==
    IF state = "Login" /\ (p.size > MaxPacketSize \/ p.size < 0) THEN "tooLarge"
    ELSE IF \E r \in Routes : r.in = state /\ r.id = p.id
    THEN (CHOOSE r \in Routes : r.in = state /\ r.id = p.id).handler
    ELSE IF state = "Play" THEN "ignored"
    ELSE "unknown"

\* The types that a handler reads, in turn.
Reads(handler) ==
    CASE handler = "handshake" -> <<"VarInt", "Address", "UShort", "VarInt">>
      [] handler = "ping" -> <<"Long">>
      [] handler = "loginStart" -> <<"Name">>
      [] handler = "clientInformation" ->
            <<"Name", "Byte", "VarInt", "Byte", "Byte", "VarInt", "Byte", "Byte">>
      [] handler = "knownPacks" -> <<"Packs">>
      [] handler = "confirmTeleportation" -> <<"VarInt">>
      [] OTHER -> <<>>

InTurn(read(_, _, _), types, data, pos) ==
    LET upTo[i \in 0..Len(types)] ==
            IF i = 0 THEN Got(<<>>, pos)
            ELSE LET before == upTo[i - 1]
                     r == read(types[i], data, before.pos)
                 IN  IF ~Ok(before) THEN before
                     ELSE IF ~Ok(r) THEN r
                     ELSE Got(Append(before.value, r.value), r.pos)
    IN  upTo[Len(types)]

\* serverboundKnownPacks: three strings for each pack.
readPacks(data, pos) ==
    LET size == readVarInt(data, pos)
        readPack(type, bytes, at) ==
            InTurn(readString, <<MaxPack, MaxPack, MaxPack>>, bytes, at)
    IN  IF Ok(size)
        THEN InTurn(readPack, [i \in 1..size.value |-> "Pack"], data, size.pos)
        ELSE size

Read(type, data, pos) ==
    CASE type = "VarInt" -> readVarInt(data, pos)
      [] type = "Byte" -> readByte(data, pos)
      [] type = "UShort" -> readUShort(data, pos)
      [] type = "Long" -> readLong(data, pos)
      [] type = "Address" -> readString(MaxAddress, data, pos)
      [] type = "Name" -> readString(MaxName, data, pos)
      [] type = "Packs" -> readPacks(data, pos)

\* A handler reads a packet from the start of its data.
ReadAll(types, data) == InTurn(Read, types, data, 0)

\* A packet whose id is written as a VarInt after a size that counts it.
Sized(id, payload) ==
    writeVarInt(getVarintSize(id) + Len(payload)) \o writeVarInt(id) \o payload

handleStatusPacket ==
    writeVarInt(getVarintSize(0) + getVarintSize(Len(Json)) + Len(Json))
    \o writeVarInt(0) \o writeVarInt(Len(Json)) \o Json

\* Mutant: the size does not count the id.
handlePingPacketShort(timestamp) ==
    writeVarInt(LongBytes) \o writeVarInt(1) \o writeLong(timestamp)

handlePingPacket(timestamp) ==
    writeVarInt(getVarintSize(1) + LongBytes) \o writeVarInt(1)
    \o writeLong(timestamp)

handleLoginStartPacket(username) ==
    Sized(2, Uuid \o writeString(username) \o writeVarInt(0))

\* A packet whose payload starts with its id.
Prefixed(payload) == writeVarInt(Len(payload)) \o payload

Replies(handler, fields) ==
    CASE handler = "status" -> <<handleStatusPacket>>
      [] handler = "ping" -> <<handlePingPacket(fields[1])>>
      [] handler = "loginStart" -> <<handleLoginStartPacket(fields[1])>>
      [] handler \in DOMAIN FixedReplies ->
            [i \in DOMAIN FixedReplies[handler] |->
                 Prefixed(FixedReplies[handler][i])]
      [] OTHER -> <<>>

NextState(handler, fields) ==
    CASE handler = "handshake" -> IF fields[4] = 1 THEN "Status"
                                  ELSE IF fields[4] = 2 THEN "Login"
                                  ELSE "None"
      [] handler \in {"ping", "unknown"} -> "None"
      [] handler = "loginAcknowledged" -> "Configuration"
      [] handler = "acknowledgeFinish" -> "Play"
      [] OTHER -> state

TakePacket ==
    /\ connected /\ incoming # <<>>
    /\ incoming' = Tail(incoming)

\* One packet in workerThreadLoop.  The exception of a read ends the handler:
\* the packet is dropped, the connection stays.
HandlePacket ==
    /\ TakePacket
    /\ LET p == incoming[1]
           handler == packetRouter(p)
           read == ReadAll(Reads(handler), p.data)
       IN  IF Ok(read)
           THEN /\ state' = NextState(handler, read.value)
                /\ outgoing' = outgoing \o Replies(handler, read.value)
                /\ received' = Append(received, [at |-> p.at, handler |-> handler,
                                                 fields |-> read.value])
                /\ connected' = ~ \/ handler \in {"tooLarge", "unknown"}
                                  \/ handler = "handshake" /\ state' = "None"
                                  \/ state = "None"
                /\ UNCHANGED exceptions
           ELSE /\ exceptions' = exceptions \cup {read.thrown}
                /\ UNCHANGED <<state, received, connected, outgoing>>
    /\ UNCHANGED <<clientVars, readVars, replies>>

\* Mutant: the connection ends after a status, too.
SendReplyOnce ==
    /\ connected /\ outgoing # <<>>
    /\ outgoing' = Tail(outgoing)
    /\ replies' = replies \o outgoing[1]
    /\ connected' = (state \notin {"Status", "None"})
    /\ UNCHANGED <<clientVars, readVars, incoming, workVars>>

\* senderThreadLoop: the connection ends after a pong.
SendReply ==
    /\ connected /\ outgoing # <<>>
    /\ outgoing' = Tail(outgoing)
    /\ replies' = replies \o outgoing[1]
    /\ connected' = (state # "None")
    /\ UNCHANGED <<clientVars, readVars, incoming, workVars>>

-----------------------------------------------------------------------------
Receive == VarintContinues \/ SizeIsRead \/ IdIsRead \/ ReadBody \/ ReadFails

Next ==
    \/ \E m \in ClientMessages : Send(m)
    \/ SendGarbage
    \/ HangUp
    \/ Receive
    \/ HandlePacket
    \/ SendReply

Spec == Init /\ [][Next]_vars

\* The three threads run.  A byte that has not arrived is to the server one
\* that has not been written, so that Receive also says that bytes arrive.
FairSpec == Spec /\ WF_vars(Receive) /\ WF_incoming(TakePacket)
                 /\ WF_vars(SendReply)

-----------------------------------------------------------------------------
(* Properties.                                                             *)

IsVarInt(bytes, v) ==
    /\ bytes # <<>>
    /\ \A k \in DOMAIN bytes : More(bytes[k]) <=> k < Len(bytes)
    /\ Signed(Spelled(bytes), Width) = v

\* The packets lie in the stream one after the other, without a gap: the
\* bytes between the end of one and the end of the next are a size, and as
\* many bytes as the size says, which begin with the id and end with the
\* data.  So says the framing that Packet::Packet implements, whatever the
\* bytes are and in whatever pieces they arrive.
PacketsCoverStream ==
    \A i \in DOMAIN packets :
        LET start == IF i = 1 THEN 0 ELSE packets[i - 1].at
            p == packets[i]
            frame == SubSeq(stream, start + 1, p.at)
            head == SubSeq(frame, 1, Len(frame) - p.size)
            rest == SubSeq(frame, Len(frame) - p.size + 1, Len(frame))
            id == SubSeq(rest, 1, Len(rest) - Len(p.data))
        IN  /\ IsVarInt(head, p.size)
            /\ IsVarInt(id, p.id)
            /\ rest = id \o p.data

\* The numbers whose VarInts readVarInt does not call too big, those that a
\* long can have, and a client that keeps to them: whose ints do not need the
\* last byte that an int may have (fifth_byte is about those that do), and
\* whose names, addresses, packs and packets have the lengths that are accepted.
Readable == 0..(2^(Group * MaxVarInt) - 1)
LongBits == LongBytes * (Group + 1)
LongInts == -(2^(LongBits - 1))..(2^(LongBits - 1) - 1)

IsReadable ==
    /\ 8 \in Readable /\ VarInts \subseteq Readable /\ Longs \subseteq LongInts
    /\ \A s \in Strings : /\ Len(s) \in Readable
                          /\ Len(s) <= MaxAddress /\ Len(s) <= MaxName /\ Len(s) <= MaxPack
    /\ \A m \in ClientMessages :
           /\ Len(m.bytes) \in Readable
           /\ m.from = "Login" => Len(m.bytes) <= MaxPacketSize

\* Replies are shorter than the greatest int.
IsSendable ==
    /\ Len(Json) + 2 * Width <= MaxInt
    /\ LongBytes + Width <= MaxInt
    /\ Len(Uuid) + MaxName + 3 * Width <= MaxInt
    /\ \A h \in DOMAIN FixedReplies : \A i \in DOMAIN FixedReplies[h] :
           Len(FixedReplies[h][i]) <= MaxInt

\* Handlers read the messages that the client has written, each one with the
\* values the client gave it, in order, none skipped or read twice; what they
\* read else lies behind where the client has stopped following the protocol.
HandlersReadWhatWasSent ==
    \A i \in DOMAIN received :
        IF i \in DOMAIN sent THEN received[i] = sent[i] ELSE received[i].at > Clean

\* The client can read the replies, and they are those it expects to the
\* messages it has sent, in order: a pong has the ping's value, a login
\* success the player's name.  Garbage may be answered after that.
RepliesAnswerRequests ==
    LET found == Payloads(replies)
        expected == FlattenSeq([i \in DOMAIN sent |-> Expected(sent[i])])
    IN  \/ IsPrefix(found, expected)
        \/ IsGarbled /\ IsPrefix(expected, found)

\* As long as a client follows the protocol the server does not close the
\* connection: only its end, garbage or the end of a ping does.
OnlyBrokenStreamsAreClosed ==
    ~connected => hungUp \/ IsGarbled \/ clientState = "None"

\* A message is handled, however its bytes are cut into pieces, if the
\* client goes on listening.
MessagesAreHandled ==
    \A i \in 1..MaxSent :
        Len(sent) >= i ~> \/ Len(received) >= i
                          \/ hungUp \/ IsGarbled

\* buffer.cpp:41 calls a VarInt too big; a client that writes every int as
\* the VarInt that packet.cpp:166 accepts (up to 32 bits) should not be told so.
TooBigIsTooBig == "VarInt too big" \in exceptions => IsGarbled
=============================================================================
