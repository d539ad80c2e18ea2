----------------------------- MODULE MCStartup ------------------------------
(* Instances of Startup for TLC.                                           *)
EXTENDS Startup, Nbt

MCSizeOf == [short |-> 1, int |-> 2, long |-> 2]
Keys == <<"sections", "Y", "block_states", "data", "SkyLight", "BlockLight",
          "Heightmaps", "MOTION_BLOCKING", "biomes", "block_entities", "Data",
          "hardcore", "Difficulty", "SpawnX", "RandomSeed", "LevelName",
          "BorderCenterX">>
MCName == [k \in {Keys[i] : i \in DOMAIN Keys} |->
               <<CHOOSE i \in DOMAIN Keys : Keys[i] = k>>]
Of(key, tag) == MCName[key] :> tag

Longs(values) == Tag("compound", Of("data", Tag("long_array", values)))
Bytes(values) == Tag("byte_array", values)

\* A section, and what may be wrong with one.
Section(n) ==
    Of("Y", Tag("byte", n)) @@ Of("block_states", Longs(<<n, n + 1>>))
    @@ Of("SkyLight", Bytes(<<n + 2, n + 3>>)) @@ Of("BlockLight", Bytes(<<n + 4>>))
    @@ Of("biomes", Longs(<<n + 5>>))
Flaws ==
    <<Of("Y", Tag("int", 1)), Of("block_states", Tag("long_array", <<>>)),
      Of("block_states", Tag("compound", Of("data", Bytes(<<1>>)))),
      Of("SkyLight", Tag("int_array", <<1>>)), Of("BlockLight", Tag("string", <<1>>)),
      Of("biomes", Bytes(<<>>)),
      Of("biomes", Tag("compound", Of("data", Tag("short", 1))))>>

Chunk(sections) ==
    Of("sections", Tag("list", sections))
    @@ Of("Heightmaps", Tag("compound", Of("MOTION_BLOCKING", Tag("long_array", <<300, 7>>))))
    @@ Of("block_entities", Tag("list", <<>>))
    @@ (<<20>> :> Tag("string", <<65, 66>>)) @@ (<<21>> :> Tag("float", 515))
    @@ (<<22>> :> Tag("double", 516)) @@ (<<23>> :> Tag("int_array", <<1, -1>>))
    @@ (<<>> :> Tag("long", 258))

Plain(n) == Tag("compound",
    Chunk(<<Tag("compound", Section(n)), Tag("compound", Section(n + 10))>>))
Bare == Tag("compound", <<>>)
EightBytes == Tag("compound", <<30>> :> Tag("string", <<65>>))
Flawed(flaw) == Tag("compound",
    Chunk(<<Tag("compound", Section(1)), Tag("compound", flaw @@ Section(11)),
            Tag("compound", Section(21))>>))
FlawedRoots ==
    <<Of("sections", Longs(<<1>>)), Of("Heightmaps", Tag("byte", 1)),
      Of("Heightmaps", Tag("compound", Of("MOTION_BLOCKING", Bytes(<<1>>)))),
      Of("block_entities", Tag("byte", 1)),
      Of("sections", Tag("list", <<Bytes(<<1>>)>>))>>
FlawedTrees ==
    [i \in DOMAIN Flaws |-> Flawed(Flaws[i])]
    \o [i \in DOMAIN FlawedRoots |->
            Tag("compound", FlawedRoots[i] @@ Chunk(<<Tag("compound", Section(1))>>))]

\* Saved in so many bytes: in one, the buffer must grow several times.
Saved(tree, bytes, compression, size, end) ==
    [tree |-> tree, bytes |-> bytes, compression |-> compression, size |-> size,
     end |-> end]
MCDocument(tree) == WrittenTag(<<>>, tree)
Whole(tree, compression, size) ==
    Saved(tree, MCDocument(tree), compression, size, "complete")

SavedChunks == {<<0, 0>>, <<1, 0>>, <<0, 1>>, <<2, 3>>, <<-2, 0>>, <<-1, 0>>}
MCCoordinates == SavedChunks \cup {<<1, 1>>, <<5, 0>>}

\* All chunks whole, each with contents of its own.
WholeWorld(compression, size) ==
    [c \in SavedChunks |->
         Whole(Plain(10 * (c[1] + 3) + c[2]), compression, size)]
World1(saved) == <<0, 0>> :> saved

Sizes == <<1, 2, 3, 5, 100>>
Uncut == MCDocument(Plain(1))
Cut(k, compression, size, end) ==
    World1(Saved(Plain(1), SubSeq(Uncut, 1, k), compression, size, end))
Malformed ==
    <<<<3, 0, 0>>, <<10, 1>>, <<10, 0, 13, 1, 1>>, <<10, 0, 9, 1, 1, 5, 255, 255>>,
      <<10, 0, 7, 1, 5, 255, 254>>, <<10, 0, 12, 1, 4, 255, 255>>,
      <<10, 0, 9, 1, 1, 0, 0, 1>>, <<10, 0, 8, 1, 20, 5>>>>
Worlds ==
    [i \in DOMAIN Sizes |-> WholeWorld(2, Sizes[i])]
    \o <<WholeWorld(1, 7), WholeWorld(3, 7), World1(Whole(Bare, 2, 1)),
         World1(Whole(EightBytes, 1, 1)),
         World1(Whole(Plain(1), 4, 5)), World1(Saved(Bare, <<>>, 1, 0, "complete"))>>
    \o [i \in DOMAIN FlawedTrees |-> World1(Whole(FlawedTrees[i], 2, 30))]
    \o [k \in 1..Len(Uncut) |-> Cut(k - 1, 3, k - 1, "complete")]
    \o [k \in 1..9 |-> Cut(4 * k, 2, 1, "corrupt")]
    \o [k \in 1..9 |-> Cut(4 * k, 2, 1, "unfinished")]
    \o [i \in DOMAIN Malformed |->
            World1(Saved(Bare, Malformed[i], 3, Len(Malformed[i]), "complete"))]

\* level.dat: whole, with tags of another type or none, and not readable.
MCLevelTypes ==
    [hardcore |-> "bool", Difficulty |-> "byte", SpawnX |-> "int",
     RandomSeed |-> "long", LevelName |-> "string", BorderCenterX |-> "double"]
Level(data) ==
    Of("Data", Tag("compound", data)) @@ (<<22>> :> Tag("byte", 1))
Usual ==
    Of("hardcore", Tag("byte", 1)) @@ Of("Difficulty", Tag("byte", -2))
    @@ Of("SpawnX", Tag("int", -300)) @@ Of("RandomSeed", Tag("long", 70))
    @@ Of("LevelName", Tag("string", <<66, 67>>)) @@ Of("BorderCenterX", Tag("double", 500))
OtherTypes ==
    Of("hardcore", Tag("int", 1)) @@ Of("SpawnX", Tag("byte", 4))
    @@ Of("LevelName", Tag("compound", <<>>)) @@ Usual
LevelFile(top, cut, end) ==
    LET tree == Tag("compound", top)
        bytes == MCDocument(tree)
    IN  [tree |-> tree, bytes |-> SubSeq(bytes, 1, Len(bytes) - cut), end |-> end]
Levels(level) == [world |-> level, elsewhere |-> LevelFile(Level(OtherTypes), 0, "complete")]
UsualLevels == Levels(LevelFile(Level(Usual), 0, "complete"))
AllLevels ==
    <<UsualLevels, Levels(LevelFile(Level(OtherTypes), 0, "complete")),
      Levels(LevelFile(Level(<<>>), 0, "complete")),
      Levels(LevelFile(<<>>, 0, "complete")),
      Levels(LevelFile(Of("Data", Tag("byte", 1)), 0, "complete")),
      Levels(LevelFile(Level(Usual) @@ (<<30>> :> Bytes([i \in 1..99 |-> i])), 0, "complete")),
      Levels([tree |-> Bare, bytes |-> <<>>, end |-> "complete"]),
      Levels([tree |-> Bare, bytes |-> <<9, 0>>, end |-> "complete"]),
      [elsewhere |-> LevelFile(Level(Usual), 0, "complete")]>>
    \o [cut \in 1..20 |-> Levels(LevelFile(Level(Usual), cut, "unfinished"))]

\* config.json: whole, with one value that is not as it should be, and none.
Config(name) ==
    [state |-> "json", values |-> [i \in DOMAIN Settings |-> IF i = 7 THEN name ELSE "set"]]
Configs ==
    <<Config("world"), Config("elsewhere"), Config("nowhere"),
      [state |-> "missing", values |-> <<>>], [state |-> "malformed", values |-> <<>>]>>
    \o [i \in DOMAIN Settings |-> [Config("world") EXCEPT !.values[i] = Mistyped]]

Disk(config, levels, chunks) == [config |-> config, levels |-> levels, world |-> chunks]
MCDisks ==
    LET plain == WholeWorld(2, 1)
    IN  {Disk(Config("world"), UsualLevels, chunks) : chunks \in ToSet(Worlds)}
        \cup {Disk(Config("world"), levels, plain) : levels \in ToSet(AllLevels)}
        \cup {Disk(config, UsualLevels, plain) : config \in ToSet(Configs)}
        \cup {Disk(Config("world"), UsualLevels, <<>>)}
=============================================================================
