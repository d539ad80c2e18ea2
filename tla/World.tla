-------------------------------- MODULE World -------------------------------
(***************************************************************************)
(* fetchChunk: from the coordinates of a chunk to its data.                *)
(*                                                                         *)
(* The region file and its entry are found from the coordinates, the bytes *)
(* of the chunk are read and inflated into a buffer that grows, parsed, and *)
(* the parts of the chunk are taken from the tree.  An exception gives an  *)
(* empty chunk, if nothing catches it before.                              *)
(***************************************************************************)
EXTENDS Reads

CONSTANTS
    Parsed(_),          \* what nbt::Parser makes of the data (module Nbt)
    Document(_),        \* the bytes in which the game saves a tree
    RegionWidth,        \* chunks along the side of a region: 32
    Name                \* for each key that the code looks for, its bytes

ASSUME RegionWidthAssumption == RegionWidth \in Nat \ {0}

VARIABLES
    world,              \* what is in the directory of that name
    requested,          \* chunkX and chunkZ
    pc,                 \* where fetchChunk is: at first, in front of its body
    region,             \* regionPath
    file,               \* what is read from it: a chunk, packed
    decompressed,       \* the buffer of decompressZlib, or the data
    total_out,          \* how much of it has been written
    root,               \* the parsed tree
    chunk,              \* the result
    exceptions          \* history: what has been thrown

vars == <<world, requested, pc, region, file, decompressed, total_out, root,
          chunk, exceptions>>

-----------------------------------------------------------------------------
(* The disk.  A chunk is saved in the region that it lies in.              *)

RegionOf(c) == <<c[1] \div RegionWidth, c[2] \div RegionWidth>>
IndexOf(c) == (c[2] % RegionWidth) * RegionWidth + (c[1] % RegionWidth)

\* A saved chunk: the tree, the bytes that are left of it (all of them, as a
\* rule), how they are packed and in how many bytes, and how the packed
\* bytes end: "complete", "corrupt" or "unfinished".
Files == {RegionOf(c) : c \in DOMAIN world}

SavedAt(path, index) ==
    {c \in DOMAIN world : RegionOf(c) = path /\ IndexOf(c) = index}

NoFile == [bytes |-> <<>>, compression |-> 3, size |-> 0, end |-> "complete"]

-----------------------------------------------------------------------------
(* The parts of a chunk.                                                   *)

Parts == {"blockData", "biomeData", "heightmaps", "skyLight", "blockLight"}

emptyChunk ==
    [x |-> requested[1], z |-> requested[2], blockData |-> <<>>, biomeData |-> <<>>,
     heightmaps |-> <<>>, skyLight |-> <<>>, blockLight |-> <<>>]

\* One piece of the extraction: a part of the chunk gets a value, or get() of
\* another type throws bad_variant_access.
Piece(part, value) == [ok |-> TRUE, part |-> part, value |-> value]
BadAccess == [ok |-> FALSE, part |-> "none", value |-> <<>>]

\* contains, at and get along a path of keys; an absent key ends it.
Get(part, compound, path, types) ==
    LET reached[i \in 0..Len(path)] ==
            IF i = 0 THEN [ok |-> TRUE, part |-> part, value |-> compound]
            ELSE LET before == reached[i - 1]
                     tag == before.value[Name[path[i]]]
                 IN  IF ~before.ok \/ before.part = "none" THEN before
                     ELSE IF Name[path[i]] \notin DOMAIN before.value
                     THEN Piece("none", <<>>)
                     ELSE IF tag.type # types[i] THEN BadAccess
                     ELSE Piece(part, tag.value)
    IN  reached[Len(path)]

\* What each compound of a list gives, in turn.
ForEach(extract(_), list) ==
    FlattenSeq([i \in DOMAIN list |->
                    IF list[i].type = "compound" THEN extract(list[i].value)
                    ELSE <<BadAccess>>])

OverSections(extract(_), tree) ==
    LET sections == Get("sections", tree, <<"sections">>, <<"list">>)
    IN  IF sections.part = "sections" THEN ForEach(extract, sections.value)
        ELSE <<sections>>

extractBlockStatesFromSection(section) ==
    Get("blockData", section, <<"block_states", "data">>, <<"compound", "long_array">>)

extractSection(section) ==
    <<Get("Y", section, <<"Y">>, <<"byte">>),
      extractBlockStatesFromSection(section),
      Get("skyLight", section, <<"SkyLight">>, <<"byte_array">>),
      Get("blockLight", section, <<"BlockLight">>, <<"byte_array">>)>>

extractSectionsData(tree) == OverSections(extractSection, tree)

extractHeightmaps(tree) ==
    <<Get("heightmaps", tree, <<"Heightmaps", "MOTION_BLOCKING">>,
          <<"compound", "long_array">>)>>

extractBiomes(section) ==
    <<Get("biomeData", section, <<"biomes", "data">>, <<"compound", "long_array">>)>>

extractBiomesFromSections(tree) == OverSections(extractBiomes, tree)

extractBlockEntities(tree) ==
    <<Get("block_entities", tree, <<"block_entities">>, <<"list">>)>>

\* Mutant: what is copied goes before what there was.
AppendedInFront(chunkPart, value) == value \o chunkPart

\* Each piece is copied behind what its part has; the heightmaps are one.
Appended(chunkPart, value) == chunkPart \o value

\* The pieces until one fails: the exception is caught here, and what has been
\* extracted is kept.
extractChunkDataFromNBT(tree) ==
    LET pieces == extractSectionsData(tree) \o extractHeightmaps(tree)
                  \o extractBiomesFromSections(tree) \o extractBlockEntities(tree)
        IsTaken(i) == \A k \in 1..i : pieces[k].ok
        taken[i \in 0..Len(pieces)] ==
            IF i = 0 THEN emptyChunk
            ELSE LET before == taken[i - 1]
                     part == pieces[i].part
                 IN  IF IsTaken(i) /\ part \in Parts
                     THEN [before EXCEPT ![part] = Appended(@, pieces[i].value)]
                     ELSE before
    IN  taken[Len(pieces)]

-----------------------------------------------------------------------------
\* The first chunk that is asked for is that of server.cpp:74.
Init ==
    /\ requested = <<0, 0>>
    /\ pc = "locate"
    /\ region = <<>> /\ file = NoFile
    /\ decompressed = <<>> /\ total_out = 0
    /\ root = <<>> /\ chunk = emptyChunk
    /\ exceptions = {}

fetchChunk(coordinates) ==
    /\ pc = "done"
    /\ requested' = coordinates
    /\ pc' = "locate"
    /\ region' = <<>> /\ file' = NoFile
    /\ decompressed' = <<>> /\ total_out' = 0
    /\ root' = <<>> /\ chunk' = emptyChunk'
    /\ exceptions' = {}
    /\ UNCHANGED world

\* The catch clause of fetchChunk, and generateEmptyChunk.
Throw(what) ==
    /\ exceptions' = exceptions \cup {what}
    /\ chunk' = emptyChunk
    /\ pc' = "done"

Quotient(n, d) == IF n < 0 THEN -((-n) \div d) ELSE n \div d

locateRegionFileByChunkCoord ==
    /\ pc = "locate"
    /\ LET path == <<Quotient(requested[1], RegionWidth),
                     Quotient(requested[2], RegionWidth)>>
       IN  IF path \in Files
           THEN region' = path /\ pc' = "header" /\ UNCHANGED <<chunk, exceptions>>
           ELSE Throw("cannot find the region file") /\ UNCHANGED region
    /\ UNCHANGED <<world, requested, file, decompressed, total_out, root>>

\* Mutant: the entries of a column lie next to each other, not those of a row.
chunkIndexByColumn == (requested[1] % RegionWidth) * RegionWidth
                      + (requested[2] % RegionWidth)

\* & with RegionWidth - 1, which leaves the remainder for negative numbers, too.
chunkIndex == (requested[2] % RegionWidth) * RegionWidth
              + (requested[1] % RegionWidth)

\* The entry of the header, then the chunk that it points at.
ReadRegion ==
    /\ pc = "header"
    /\ LET saved == SavedAt(region, chunkIndex)
       IN  IF saved = {}
           THEN pc' = "done" /\ UNCHANGED file
           ELSE pc' = "unpack" /\ \E c \in saved : file' = world[c]
    /\ UNCHANGED <<world, requested, region, decompressed, total_out, root,
                   chunk, exceptions>>

\* The switch over the compression.
Unpack ==
    /\ pc = "unpack"
    /\ \/ /\ file.compression = 3 \/ file.size = 0
          /\ decompressed' = IF file.compression = 3 THEN file.bytes ELSE <<>>
          /\ pc' = "parse"
          /\ UNCHANGED <<chunk, exceptions>>
       \/ /\ file.compression \in {1, 2} /\ file.size > 0
          /\ decompressed' = [i \in 1..(4 * file.size) |-> 0]
          /\ pc' = "inflate"
          /\ UNCHANGED <<chunk, exceptions>>
       \/ /\ file.compression \notin 1..3
          /\ Throw("unknown compression type")
          /\ UNCHANGED decompressed
    /\ UNCHANGED <<world, requested, region, file, total_out, root>>

\* zlib: the bytes that inflate() adds are as many as there are and as there
\* is room for.
InflatedBytes ==
    LET room == Len(decompressed) - total_out
        rest == Len(file.bytes) - total_out
    IN  IF room < rest THEN room ELSE rest

\* zlib: what it may return then.  A stream that needs more input than there
\* is gives Z_OK, and Z_BUF_ERROR from then on.
InflateReturns ==
    LET added == total_out + InflatedBytes
    IN  (IF \/ added < Len(file.bytes)
            \/ file.end = "unfinished"
            \/ added = Len(decompressed) /\ InflatedBytes > 0
         THEN {"Z_OK"} ELSE {})
        \cup (IF added = Len(file.bytes) /\ file.end = "complete"
              THEN {"Z_STREAM_END"} ELSE {})
        \cup (IF added = Len(file.bytes) /\ file.end = "corrupt"
              THEN {"Z_DATA_ERROR"} ELSE {})

\* Mutant: next_out is always the start of the buffer.
FilledFromStart ==
    [i \in DOMAIN decompressed |->
         IF i <= InflatedBytes THEN file.bytes[total_out + i] ELSE decompressed[i]]

\* The buffer after one inflate(): next_out is behind what there was.
Filled ==
    [i \in DOMAIN decompressed |->
         IF i \in (total_out + 1)..(total_out + InflatedBytes)
         THEN file.bytes[i] ELSE decompressed[i]]

\* Mutant: the buffer does not grow.
NotDoubled(buffer) == buffer

Doubled(buffer) == buffer \o [i \in DOMAIN buffer |-> 0]

\* One iteration of the loop in decompressZlib and decompressGzip.
Inflate ==
    /\ pc = "inflate"
    /\ total_out' = total_out + InflatedBytes
    /\ \E ret \in InflateReturns :
           CASE ret = "Z_STREAM_END" ->
                    /\ decompressed' = SubSeq(Filled, 1, total_out')
                    /\ pc' = "parse"
                    /\ UNCHANGED <<chunk, exceptions>>
             [] ret = "Z_DATA_ERROR" ->
                    /\ Throw("decompression error")
                    /\ decompressed' = Filled
             [] OTHER ->
                    /\ decompressed' = IF total_out' = Len(decompressed)
                                       THEN Doubled(Filled) ELSE Filled
                    /\ UNCHANGED <<pc, chunk, exceptions>>
    /\ UNCHANGED <<world, requested, region, file, root>>

Parse ==
    /\ pc = "parse"
    /\ LET tree == Parsed(decompressed)
       IN  IF Ok(tree)
           THEN root' = tree.value /\ pc' = "extract" /\ UNCHANGED <<chunk, exceptions>>
           ELSE Throw(tree.thrown) /\ UNCHANGED root
    /\ UNCHANGED <<world, requested, region, file, decompressed, total_out>>

Extract ==
    /\ pc = "extract"
    /\ chunk' = extractChunkDataFromNBT(root)
    /\ pc' = "done"
    /\ UNCHANGED <<world, requested, region, file, decompressed, total_out,
                   root, exceptions>>

Next == locateRegionFileByChunkCoord \/ ReadRegion \/ Unpack \/ Inflate
        \/ Parse \/ Extract

\* What makes a step of Next: all of them but Inflate leave their place.
Places == {"header", "unpack", "inflate", "parse", "extract", "done"}

Proceeds == pc \notin {"inflate", "done"} /\ pc' \in Places \ {pc}

-----------------------------------------------------------------------------
(* What a saved chunk is.                                                  *)

Missing == [type |-> "missing", value |-> <<>>]

\* The tag that a path of keys leads to.
At(tag, path) ==
    LET reached[i \in 0..Len(path)] ==
            IF i = 0 THEN tag
            ELSE LET before == reached[i - 1]
                 IN  IF before.type = "compound"
                        /\ Name[path[i]] \in DOMAIN before.value
                     THEN before.value[Name[path[i]]] ELSE Missing
    IN  reached[Len(path)]

ValueAt(tag, path, type) ==
    IF At(tag, path).type = type THEN At(tag, path).value ELSE <<>>

Sections(tree) == ValueAt(tree, <<"sections">>, "list")

OfSections(tree, path, type) ==
    FlattenSeq([i \in DOMAIN Sections(tree) |->
                    ValueAt(Sections(tree)[i], path, type)])

StoredParts(tree) ==
    [blockData |-> OfSections(tree, <<"block_states", "data">>, "long_array"),
     biomeData |-> OfSections(tree, <<"biomes", "data">>, "long_array"),
     heightmaps |-> ValueAt(tree, <<"Heightmaps", "MOTION_BLOCKING">>, "long_array"),
     skyLight |-> OfSections(tree, <<"SkyLight">>, "byte_array"),
     blockLight |-> OfSections(tree, <<"BlockLight">>, "byte_array")]

\* The types that the parts of a chunk have in the game's format.
IsChunk(tree) ==
    LET Is(tag, path, type) == At(tag, path).type \in {type, "missing"}
    IN  /\ Is(tree, <<"sections">>, "list")
        /\ Is(tree, <<"block_entities">>, "list")
        /\ Is(tree, <<"Heightmaps">>, "compound")
        /\ Is(tree, <<"Heightmaps", "MOTION_BLOCKING">>, "long_array")
        /\ \A i \in DOMAIN Sections(tree) :
               LET section == Sections(tree)[i]
               IN  /\ section.type = "compound"
                   /\ Is(section, <<"Y">>, "byte")
                   /\ Is(section, <<"SkyLight">>, "byte_array")
                   /\ Is(section, <<"BlockLight">>, "byte_array")
                   /\ \A part \in {"block_states", "biomes"} :
                          /\ Is(section, <<part>>, "compound")
                          /\ Is(section, <<part, "data">>, "long_array")

IsWhole(saved) ==
    /\ saved.bytes = Document(saved.tree)
    /\ \/ saved.compression = 3
       \/ saved.compression \in {1, 2} /\ saved.end = "complete"

\* The parser gets from the bytes the tree that they have been saved from.
IsReadBack(saved) ==
    LET tree == Parsed(saved.bytes)
    IN  Ok(tree) /\ saved.tree.type = "compound" /\ tree.value = saved.tree.value

\* A tree is made of tags, and of sequences where the format has lists and
\* arrays.
IsTree(tree) ==
    LET HasTags(tag) == tag.type = "compound" =>
            \A name \in DOMAIN tag.value : tag.value[name].type # Missing.type
        sections == Sections(tree)
    IN  /\ HasTags(tree) /\ HasTags(At(tree, <<"Heightmaps">>))
        /\ ValueAt(tree, <<"Heightmaps", "MOTION_BLOCKING">>, "long_array") \in Seq(Int)
        /\ sections = [i \in 1..Len(sections) |-> sections[i]] /\ Len(sections) \in Nat
        /\ \A i \in DOMAIN sections :
               /\ HasTags(sections[i])
               /\ \A part \in {"block_states", "biomes"} :
                      /\ HasTags(At(sections[i], <<part>>))
                      /\ ValueAt(sections[i], <<part, "data">>, "long_array") \in Seq(Int)
               /\ \A part \in {"SkyLight", "BlockLight"} :
                      ValueAt(sections[i], <<part>>, "byte_array") \in Seq(Int)

\* Where the code's division gives the region that the chunk lies in.
IsLocatable(c) == \A i \in {1, 2} : c[i] >= 0 \/ c[i] % RegionWidth = 0

-----------------------------------------------------------------------------
(* Properties.                                                             *)

\* What fetchChunk returns for a chunk that the game has saved is that
\* chunk, each part of it complete and in order, whatever sizes the buffer
\* of decompressZlib goes through; for one that has not been saved it is
\* empty.  The division of locateRegionFileByChunkCoord limits this to
\* coordinates that are not negative, and a row and a column of each region.
FetchedIsStored ==
    pc = "done" /\ IsLocatable(requested) =>
        IF requested \in DOMAIN world
        THEN IsWhole(world[requested]) /\ IsChunk(world[requested].tree) =>
                 \A part \in DOMAIN StoredParts(world[requested].tree) :
                     chunk[part] = StoredParts(world[requested].tree)[part]
        ELSE chunk = emptyChunk

\* The parser gets the bytes of the chunk that was asked for, every one of
\* them and nothing else of the buffer, whatever sizes the buffer has had; and
\* of data that do not come to their end it gets nothing.
ParsedIsStored ==
    pc = "parse" /\ IsLocatable(requested) =>
        /\ requested \in DOMAIN world
        /\ LET saved == world[requested]
           IN  IF saved.compression # 3 /\ saved.size = 0
               THEN decompressed = <<>>
               ELSE /\ decompressed = saved.bytes
                    /\ saved.compression = 3 \/ saved.end = "complete"

\* Of a chunk that is cut off, mistyped or not packed as it should be, each
\* part is a prefix of what was saved: extractChunkDataFromNBT never leaves
\* out a section and takes the next one.  What the parser has copied from
\* behind the end of the data is not looked at.
PartsArePrefixes ==
    pc = "done" /\ IsLocatable(requested) /\ requested \in DOMAIN world =>
        LET saved == StoredParts(world[requested].tree)
        IN  \A part \in DOMAIN saved :
                IsPrefix(SelectSeq(chunk[part], LAMBDA b : b # Unknown), saved[part])
=============================================================================
