---------------------------- MODULE Clientbound -----------------------------
(***************************************************************************)
(* The packets that the server builds for a client after the handshake,    *)
(* byte for byte, and how a client reads them.                             *)
(*                                                                         *)
(* A packet is an id and a sequence of fields, each with a type and a      *)
(* value.  The builders of the code differ in how they put the size in     *)
(* front of them; the client reads a size, an id, and then the fields that *)
(* the id calls for.  The bits of a float are its value.                   *)
(***************************************************************************)
EXTENDS Buffer, TLC

CONSTANTS
    Sections,           \* of a chunk: 24, and one more that has light
    LightBytes          \* of a section: 2048

ASSUME ChunkAssumption == Sections \in Nat \ {0} /\ LightBytes \in Nat \ {0}

-----------------------------------------------------------------------------
(* Fields, and the bytes that the functions of Buffer make of them.        *)

Field(type, value) == [type |-> type, value |-> value]
ByteOf(v) == Field("byte", v)
BoolOf(v) == Field("bool", v)
IntOf(v) == Field("int", v)
LongOf(v) == Field("long", v)
VarOf(v) == Field("var", v)
StringOf(v) == Field("string", v)
FloatOf(bits) == Field("float", bits)

Zero == <<0, 0, 0, 0>>

write(f) ==
    CASE f.type = "byte" -> <<f.value>>
      [] f.type = "bool" -> writeBool(f.value)
      [] f.type = "int" -> writeInt(f.value)
      [] f.type = "long" -> writeLong(f.value)
      [] f.type = "var" -> writeVarInt(f.value)
      [] f.type = "string" -> writeString(f.value)
      [] f.type \in {"float", "uuid"} -> f.value

payload(fields) == FlattenSeq([i \in DOMAIN fields |-> write(fields[i])])

Times(n, fields) == FlattenSeq([i \in 1..n |-> fields])

\* A literal of the code: only its length counts.
Text(n) == [i \in 1..n |-> 97]

-----------------------------------------------------------------------------
(* The two ways in which the size is put in front of a packet.             *)

\* Mutant: the size does not count the id.
withSizeOfFields(id, fields) ==
    writeVarInt(Len(payload(fields))) \o writeVarInt(id) \o payload(fields)

\* Id and fields go into one buffer, whose size is known then.
withSizeOfBuffer(id, fields) ==
    LET buf == <<id>> \o payload(fields)
    IN  writeVarInt(Len(buf)) \o buf

\* The size of the id is computed, and added to that of the fields.
withSizeComputed(id, fields) ==
    LET buf == payload(fields)
    IN  writeVarInt(getVarintSize(id) + Len(buf)) \o writeVarInt(id) \o buf

Packet(id, fields, framing) ==
    [id |-> id, fields |-> fields, framing |-> framing]

Bytes(packet) ==
    IF packet.framing = "buffer" THEN withSizeOfBuffer(packet.id, packet.fields)
    ELSE withSizeComputed(packet.id, packet.fields)

-----------------------------------------------------------------------------
(* Login and Configuration.                                                *)

loginSuccess(uuid, name) ==
    Packet(2, <<Field("uuid", uuid), StringOf(name), VarOf(0)>>, "computed")

clientboundKnownPacks ==
    Packet(14, <<VarOf(1), StringOf(Text(9)), StringOf(Text(4)),
                 StringOf(Text(6))>>, "buffer")

\* The data of an entry are never there, so that a client must have them.
serialize(registry) ==
    <<StringOf(registry.id), VarOf(Len(registry.entries))>>
    \o FlattenSeq([i \in DOMAIN registry.entries |->
                       <<StringOf(registry.entries[i]), BoolOf(FALSE)>>])

registryPacket(registry) == Packet(7, serialize(registry), "computed")

tagFields(tag) ==
    <<StringOf(tag.name), VarOf(Len(tag.entries))>>
    \o [i \in DOMAIN tag.entries |-> VarOf(tag.entries[i])]

tagsPacket(registriesTags) ==
    Packet(13,
           <<VarOf(Len(registriesTags))>>
           \o FlattenSeq([i \in DOMAIN registriesTags |->
                  LET tags == registriesTags[i].tags
                  IN  <<StringOf(registriesTags[i].name), VarOf(Len(tags))>>
                      \o FlattenSeq([k \in DOMAIN tags |-> tagFields(tags[k])])]),
           "computed")

finishConfiguration == Packet(3, <<>>, "buffer")

-----------------------------------------------------------------------------
(* Play: what Acknowledge Finish Configuration and Confirm Teleportation   *)
(* are answered with.                                                      *)

writePlayPacket(playerId) ==
    Packet(43,
           <<IntOf(playerId), BoolOf(FALSE), VarOf(3), StringOf(Text(19)),
             StringOf(Text(20)), StringOf(Text(17)), VarOf(20), VarOf(10),
             VarOf(10), BoolOf(FALSE), BoolOf(TRUE), BoolOf(FALSE), VarOf(0),
             StringOf(Text(19)), LongOf(1), ByteOf(0), ByteOf(255),
             BoolOf(FALSE), BoolOf(TRUE), BoolOf(FALSE), VarOf(0), VarOf(63),
             BoolOf(FALSE)>>, "buffer")

changeDifficulty == Packet(10, <<ByteOf(2), BoolOf(TRUE)>>, "buffer")

playerAbilities ==
    Packet(57, <<ByteOf(8), FloatOf(<<61, 76, 204, 205>>),
                 FloatOf(<<63, 128, 0, 0>>)>>, "buffer")

setHeldItem == Packet(98, <<VarOf(3)>>, "buffer")

\* Three coordinates and three velocities, stored as longs; two angles.
sendPlayerPositionAndLook ==
    Packet(65, <<VarOf(1), LongOf(1), LongOf(64), LongOf(1), LongOf(0),
                 LongOf(0), LongOf(0), IntOf(0), IntOf(0), IntOf(0)>>, "computed")

gameEventPacket == Packet(34, <<ByteOf(13), FloatOf(Zero)>>, "buffer")

-----------------------------------------------------------------------------
(* Play: what no handler sends yet.                                        *)

sendPlayerAbilities ==
    Packet(57, <<ByteOf(0), FloatOf(<<61, 76, 204, 205>>),
                 FloatOf(<<61, 204, 204, 205>>)>>, "computed")

sendSetHealth ==
    Packet(97, <<FloatOf(<<65, 160, 0, 0>>), VarOf(20),
                 FloatOf(<<64, 160, 0, 0>>)>>, "computed")

sendSetExperience == Packet(96, <<FloatOf(Zero), VarOf(5), VarOf(0)>>, "computed")

sendUpdateTime == Packet(106, <<LongOf(0), LongOf(1000), ByteOf(1)>>, "computed")

sendSetHeldItem == Packet(98, <<VarOf(0)>>, "computed")

sendChunkBatchStart == Packet(12, <<>>, "computed")

sendChunkBatchFinished(batchSize) == Packet(11, <<VarOf(batchSize)>>, "computed")

\* Of a chunk without data: two bytes of a count, a palette of one block state
\* and one of one biome.
emptySection == <<ByteOf(0), ByteOf(0), ByteOf(0), VarOf(0), VarOf(0),
                  ByteOf(0), VarOf(1), VarOf(0)>>

\* Four masks of one long each, then the light of the sections.
lightData ==
    <<VarOf(1), LongOf(2^(Sections + 1) - 1)>> \o Times(3, <<VarOf(1), LongOf(0)>>)
    \o Times(Sections + 1, <<VarOf(LightBytes)>> \o Times(LightBytes, <<ByteOf(255)>>))

\* Of a chunk that has not been saved.
sendChunkData(x, z) ==
    Packet(39,
           <<IntOf(x), IntOf(z), ByteOf(10), ByteOf(0), ByteOf(0),
             VarOf(Len(payload(Times(Sections, emptySection))))>>
           \o Times(Sections, emptySection) \o <<VarOf(0)>> \o lightData,
           "computed")
-----------------------------------------------------------------------------
(* The client: by the protocol, an id has a meaning in a phase, and calls  *)
(* for fields of certain types.  "many" is a number and then as many times *)
(* the fields of its `of'.                                                 *)

One(type) == <<[type |-> type, of |-> <<>>]>>
Many(layout) == <<[type |-> "many", of |-> layout]>>
Ones(types) == [i \in DOMAIN types |-> [type |-> types[i], of |-> <<>>]]

LoginLayouts ==
    2 :> (Ones(<<"uuid", "string">>) \o Many(Ones(<<"string", "string", "bool">>)))

ConfigurationLayouts ==
    (3 :> <<>>)
    @@ (7 :> (One("string") \o Many(Ones(<<"string", "bool">>))))
    @@ (13 :> Many(One("string") \o Many(One("string") \o Many(One("var")))))
    @@ (14 :> Many(Ones(<<"string", "string", "string">>)))

ChunkLayout ==
    Ones(<<"int", "int", "byte", "byte", "byte">>) \o Many(One("byte"))
    \o Many(<<>>) \o Times(4, Many(One("long"))) \o Times(Sections + 1, Many(One("byte")))

PlayLayouts ==
    (10 :> Ones(<<"byte", "bool">>))
    @@ (11 :> One("var")) @@ (12 :> <<>>)
    @@ (34 :> Ones(<<"byte", "float">>))
    @@ (39 :> ChunkLayout)
    @@ (43 :> (Ones(<<"int", "bool">>) \o Many(One("string"))
               \o Ones(<<"var", "var", "var", "bool", "bool", "bool", "var", "string",
                         "long", "byte", "byte", "bool", "bool", "bool", "var",
                         "var", "bool">>)))
    @@ (57 :> Ones(<<"byte", "float", "float">>))
    @@ (65 :> (One("var") \o Times(6, One("long")) \o Ones(<<"int", "int", "int">>)))
    @@ (96 :> Ones(<<"float", "var", "var">>))
    @@ (97 :> Ones(<<"float", "var", "float">>))
    @@ (98 :> One("var"))
    @@ (106 :> Ones(<<"long", "long", "byte">>))

Layouts == [Login |-> LoginLayouts, Configuration |-> ConfigurationLayouts,
            Play |-> PlayLayouts]

\* A number of some bytes, the first of which has the sign.
SignedBytes(bytes) ==
    BigEndian(<<IF bytes[1] >= Base \div 2 THEN bytes[1] - Base ELSE bytes[1]>>
              \o Tail(bytes), Base)

AsNumber(r) == IF Ok(r) THEN Got(SignedBytes(r.value), r.pos) ELSE r
AsBool(r) == IF Ok(r) THEN Got(r.value # 0, r.pos) ELSE r

ReadOne(type, data, pos) ==
    CASE type = "byte" -> readByte(data, pos)
      [] type = "bool" -> AsBool(readByte(data, pos))
      [] type = "int" -> AsNumber(readBytes(IntBytes, data, pos))
      [] type = "long" -> AsNumber(readBytes(LongBytes, data, pos))
      [] type \in {"var", "many"} -> readVarInt(data, pos)
      [] type = "string" -> readString(MaxInt, data, pos)
      [] type = "float" -> readBytes(4, data, pos)
      [] type = "uuid" -> readBytes(16, data, pos)

\* One step of the reading: the first field of those that are left to do.
Taking(reading, item, r) ==
    IF ~Ok(r) THEN [reading EXCEPT !.todo = <<>>, !.thrown = r.thrown]
    ELSE IF item.type = "many"
    THEN [reading EXCEPT !.todo = Times(r.value, item.of) \o Tail(@),
                         !.pos = r.pos,
                         !.fields = Append(@, VarOf(r.value))]
    ELSE [reading EXCEPT !.todo = Tail(@), !.pos = r.pos,
                         !.fields = Append(@, Field(item.type, r.value))]

ReadNext(data, reading) ==
    IF reading.todo = <<>> THEN reading
    ELSE Taking(reading, Head(reading.todo),
                ReadOne(Head(reading.todo).type, data, reading.pos))

\* Each step but those behind the end takes a byte at least.
ReadFields(data, pos, layout) ==
    LET upTo[i \in 0..Len(data)] ==
            IF i = 0
            THEN [todo |-> layout, pos |-> pos, fields |-> <<>>, thrown |-> "none"]
            ELSE ReadNext(data, upTo[i - 1])
    IN  upTo[Len(data)]

Malformed == [id |-> -1, fields |-> <<>>]

Understood(data, id, reading) ==
    IF Ok(reading) /\ reading.todo = <<>> /\ reading.pos = Len(data)
    THEN [id |-> id, fields |-> reading.fields]
    ELSE Malformed

\* What a client in some phase makes of the bytes of one packet.
ReadAs(phase, data, size, id) ==
    IF Ok(size) /\ Ok(id) /\ size.pos + size.value = Len(data)
       /\ id.value \in DOMAIN Layouts[phase]
    THEN Understood(data, id.value, ReadFields(data, id.pos, Layouts[phase][id.value]))
    ELSE Malformed

ReadBehind(phase, data, size) ==
    ReadAs(phase, data, size, IF Ok(size) THEN readVarInt(data, size.pos) ELSE size)

ClientReads(phase, data) == ReadBehind(phase, data, readVarInt(data, 0))
=============================================================================
