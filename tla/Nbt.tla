-------------------------------- MODULE Nbt ---------------------------------
(***************************************************************************)
(* nbt::Parser: from bytes to a tree of tags.                              *)
(*                                                                         *)
(* A tag has a type and a value: of a compound a function from names to    *)
(* tags, of a list a sequence of tags, of an array a sequence of integers. *)
(* A name is a sequence of bytes.                                          *)
(***************************************************************************)
EXTENDS Reads, TLC

CONSTANT SizeOf         \* bytes of a short (2), an int (4) and a long (8)

ASSUME SizesAssumption ==
    /\ {"short", "int", "long"} \subseteq DOMAIN SizeOf
    /\ \A t \in DOMAIN SizeOf : SizeOf[t] \in Nat \ {0}

TagEnd == 0
Types == <<"byte", "short", "int", "long", "float", "double", "byte_array",
           "string", "list", "compound", "int_array", "long_array">>

-----------------------------------------------------------------------------
(* The parser.                                                             *)
(*                                                                         *)
(* Every function of it takes a parser, p, and gives the parser that it    *)
(* leaves: the data, the cursor, the value that has been read last and the *)
(* exception, if one has been thrown.  From then on nothing changes.       *)

Parser(data) == [data |-> data, cursor |-> 0, value |-> 0, thrown |-> "none"]

Throwing(p, exception) ==
    [p EXCEPT !.value = 0, !.thrown = IF Ok(p) THEN exception ELSE @]

Giving(value, p) == IF Ok(p) THEN [p EXCEPT !.value = value] ELSE p

read(size, p) ==
    IF ~Ok(p) \/ p.cursor + size > Len(p.data)
    THEN Throwing(p, "unexpected end of data")
    ELSE [p EXCEPT !.value = SubSeq(p.data, p.cursor + 1, p.cursor + size),
                   !.cursor = @ + size]

AsUnsigned(p) == Giving(BigEndian(p.value, 256), p)
AsSigned(size, p) == Giving(Signed(p.value, 8 * size), p)

readUnsigned(size, p) == AsUnsigned(read(size, p))
readSigned(size, p) == AsSigned(size, readUnsigned(size, p))

\* As many bytes as the length that has been read.
readBytes(p) == read(p.value, p)

\* A name, and the value of a string.
parseTagName(p) == readBytes(readUnsigned(SizeOf["short"], p))

NotNegative(p) == IF p.value < 0 THEN Throwing(p, "negative length") ELSE p

\* The number of elements of a list or an array.
readLength(p) == NotNegative(readSigned(SizeOf["int"], p))

\* The end of the data is not checked: what follows it is copied as well.
copyBytes(p) ==
    [Giving([i \in 1..p.value |-> IF p.cursor + i <= Len(p.data)
                                  THEN p.data[p.cursor + i] ELSE Unknown], p)
        EXCEPT !.cursor = @ + p.value]

RECURSIVE parseTag(_, _), parseTags(_, _, _, _), parseEntries(_, _)

\* The next n elements, after those that have been read; the type is a byte.
parseTags(n, tags, type, p) ==
    LET tag == parseTag(type, p)
    IN  IF n = 0 THEN Giving(tags, p)
        ELSE IF ~Ok(tag) THEN tag
        ELSE parseTags(n - 1, Append(tags, tag.value), type, tag)

parseElements(type, p) == parseTags(p.value, <<>>, type, p)

parseListOf(p) == parseElements(p.value, readLength(p))

parseList(p) == parseListOf(readUnsigned(1, p))

ValuesOf(p) == Giving([i \in DOMAIN p.value |-> p.value[i].value], p)

readArray(type, p) == ValuesOf(parseElements(type, readLength(p)))

\* A tag of the type, behind its name.
parseEntry(type, name) ==
    LET tag == parseTag(type, name)
    IN  Giving(name.value :> tag.value, tag)

\* The end of the data ends a compound, too; of two tags of one name the
\* second counts.
parseEntries(compound, p) ==
    LET type == readUnsigned(1, p)
        entry == parseEntry(type.value, parseTagName(type))
    IN  IF p.cursor >= Len(p.data) THEN Giving(compound, p)
        ELSE IF type.value = TagEnd THEN Giving(compound, type)
        ELSE IF ~Ok(entry) THEN entry
        ELSE parseEntries(entry.value @@ compound, entry)

parseCompound(p) == parseEntries(<<>>, p)

readValue(type, p) ==
    CASE type = "byte" -> readSigned(1, p)
      [] type \in {"short", "int", "long"} -> readSigned(SizeOf[type], p)
      [] type = "float" -> readUnsigned(SizeOf["int"], p)
      [] type = "double" -> readUnsigned(SizeOf["long"], p)
      [] type = "byte_array" -> copyBytes(readLength(p))
      [] type = "string" -> parseTagName(p)
      [] type = "list" -> parseList(p)
      [] type = "compound" -> parseCompound(p)
      [] type = "int_array" -> readArray(3, p)
      [] type = "long_array" -> readArray(4, p)

Tag(type, value) == [type |-> type, value |-> value]

AsTag(type, p) == Giving(Tag(type, p.value), p)

parseTag(tagType, p) ==
    IF tagType \notin DOMAIN Types THEN Throwing(p, "unsupported tag type")
    ELSE AsTag(Types[tagType], readValue(Types[tagType], p))

IsCompound(p) ==
    IF p.value = 10 THEN p ELSE Throwing(p, "root must be a compound")

\* The root's name is read and not used any more.
parse(data) ==
    IF data = <<>> THEN Throwing(Parser(data), "empty data")
    ELSE parseCompound(parseTagName(IsCompound(readUnsigned(1, Parser(data)))))

-----------------------------------------------------------------------------
(* The format, as the game writes it.                                      *)

CodeOf(type) == CHOOSE code \in DOMAIN Types : Types[code] = type

Written(n, size) ==
    [i \in 1..size |-> (n % 256^(size - i + 1)) \div 256^(size - i)]

RECURSIVE WrittenValue(_)

WrittenTag(name, tag) ==
    <<CodeOf(tag.type)>> \o Written(Len(name), SizeOf["short"]) \o name
    \o WrittenValue(tag)

WrittenValue(tag) ==
    LET value == tag.value
        count == Written(Len(value), SizeOf["int"])
        All(of(_)) == FlattenSeq([i \in DOMAIN value |-> of(value[i])])
    IN  CASE tag.type = "byte" -> Written(value, 1)
          [] tag.type \in {"short", "int", "long"} -> Written(value, SizeOf[tag.type])
          [] tag.type = "float" -> Written(value, SizeOf["int"])
          [] tag.type = "double" -> Written(value, SizeOf["long"])
          [] tag.type = "byte_array" -> count \o value
          [] tag.type = "string" -> Written(Len(value), SizeOf["short"]) \o value
          [] tag.type = "list" ->
                <<IF value = <<>> THEN TagEnd ELSE CodeOf(value[1].type)>>
                \o count \o All(WrittenValue)
          [] tag.type = "compound" ->
                FoldSet(LAMBDA name, rest : WrittenTag(name, value[name]) \o rest,
                        <<TagEnd>>, DOMAIN value)
          [] tag.type = "int_array" ->
                count \o All(LAMBDA n : Written(n, SizeOf["int"]))
          [] tag.type = "long_array" ->
                count \o All(LAMBDA n : Written(n, SizeOf["long"]))
=============================================================================
