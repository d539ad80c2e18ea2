------------------------------ MODULE Startup -------------------------------
(***************************************************************************)
(* start_server up to the threads: the configuration, level.dat, the first *)
(* chunk; then the chunks that sendChunkData asks for.                     *)
(*                                                                         *)
(* An exception and a false return both end the program with 1.  The       *)
(* directory of level.dat is that of the configured name, the one of the   *)
(* regions is always "world" (manager.cpp:137).                            *)
(***************************************************************************)
EXTENDS World

CONSTANTS
    Default,            \* what Config() gives a setting
    Mistyped,           \* a value in config.json of another JSON type, or none
    LevelTypes,         \* for each key that loadLevelDat looks for, the type
                        \* of the member
    BufferSize,         \* of decompressGzip: 10 MB
    Disks,              \* what may be on the disk
    Coordinates         \* what sendChunkData may ask for

ASSUME DefaultAssumption == Default # Mistyped
ASSUME CoordinatesAssumption == Coordinates \subseteq Int \X Int
ASSUME LevelTypesAssumption ==
    \A key \in DOMAIN LevelTypes :
        LevelTypes[key] \in {"bool", "byte", "int", "long", "double", "string"}

VARIABLES
    disk,               \* config.json, and level.dat by directory
    stage,              \* where start_server is
    settings,           \* _config
    worldData           \* _worldData

startVars == <<disk, stage, settings, worldData>>
allVars == <<vars, startVars>>

-----------------------------------------------------------------------------
(* config.json.                                                            *)

\* What loadConfig sets, in that order.
Settings == <<"version", "protocol", "max-players", "motd", "ip-address", "port",
              "world name", "gamemode", "difficulty">>

getWorldName == settings[7]

\* The setters are called in turn, until a value of another type throws.
IsSet(i, values) == \A k \in 1..i : values[k] # Mistyped

Loaded(values) ==
    [i \in DOMAIN Settings |-> IF IsSet(i, values) THEN values[i] ELSE settings[i]]

\* A file of JSON has a value for each; those of a world are bytes, in places,
\* and none if they take no place; what they were saved from are trees.
ASSUME DisksAssumption ==
    \A d \in Disks :
        /\ d.config.state = "json" =>
               d.config.values = [i \in DOMAIN Settings |-> d.config.values[i]]
        /\ \A c \in DOMAIN d.world :
               /\ c \in Int \X Int
               /\ d.world[c].bytes \in Seq(0..255) /\ d.world[c].size \in Nat
               /\ d.world[c].size = 0 => d.world[c].bytes = <<>>
               /\ IsTree(d.world[c].tree)

\* The parser reads back what the game has written, and takes for a level.dat
\* nothing else.
ASSUME ParserAssumption ==
    \A d \in Disks :
        /\ \A c \in DOMAIN d.world :
               IsWhole(d.world[c]) /\ IsChunk(d.world[c].tree) => IsReadBack(d.world[c])
        /\ \A name \in DOMAIN d.levels :
               LET level == d.levels[name]
               IN  level.end = "complete" /\ Ok(Parsed(level.bytes)) => IsReadBack(level)

AllSet(values) == IsSet(Len(Settings), values)

Fails == stage' = "failed"

\* Mutant: loadConfig catches every exception and goes on.
loadConfigCatchesAll ==
    /\ stage = "config"
    /\ IF disk.config.state = "json"
       THEN settings' = Loaded(disk.config.values) /\ stage' = "level"
       ELSE Fails /\ UNCHANGED settings
    /\ UNCHANGED <<vars, disk, worldData>>

\* loadConfig catches parse errors only; start_server catches the others.
loadConfig ==
    /\ stage = "config"
    /\ IF disk.config.state = "json"
       THEN /\ settings' = Loaded(disk.config.values)
            /\ IF AllSet(disk.config.values) THEN stage' = "level" ELSE Fails
       ELSE Fails /\ UNCHANGED settings
    /\ UNCHANGED <<vars, disk, worldData>>

-----------------------------------------------------------------------------
(* level.dat.                                                              *)

\* Mutant: what inflate returns is not looked at.
decompressGzipUnchecked(level) == Got(level.bytes, 0)

\* One call of inflate, which must reach the end of the stream.
decompressGzip(level) ==
    IF level.end = "complete" /\ Len(level.bytes) <= BufferSize
    THEN Got(level.bytes, 0) ELSE Thrown("decompression failed")

TagTypeOf(type) == IF type = "bool" THEN "byte" ELSE type

AsMember(type, value) ==
    CASE type = "bool" -> IF value # 0 THEN 1 ELSE 0
      [] type = "byte" -> value % 256
      [] OTHER -> value

\* A member that is not assigned has no value, except for an empty string.
Unassigned(type) == IF type = "string" THEN <<>> ELSE Unknown

getTagValue(dataCompound, key) ==
    LET type == LevelTypes[key]
        tag == dataCompound[Name[key]]
    IN  IF Name[key] \in DOMAIN dataCompound /\ tag.type = TagTypeOf(type)
        THEN AsMember(type, tag.value) ELSE Unassigned(type)

getTagValues(dataCompound) ==
    [key \in DOMAIN LevelTypes |-> getTagValue(dataCompound, key)]

NotSet == [key \in DOMAIN LevelTypes |-> Unassigned(LevelTypes[key])]

\* Of the root: at() throws without a tag Data, get() for one of another type.
HasData(tree) ==
    /\ Ok(tree) /\ Name["Data"] \in DOMAIN tree.value
    /\ tree.value[Name["Data"]].type = "compound"

levelTree(level) ==
    LET data == decompressGzip(level) IN IF Ok(data) THEN Parsed(data.value) ELSE data

loadLevelDat ==
    /\ stage = "level"
    /\ LET tree == levelTree(disk.levels[getWorldName])
       IN  IF getWorldName \in DOMAIN disk.levels /\ HasData(tree)
           THEN /\ worldData' = getTagValues(tree.value[Name["Data"]].value)
                /\ stage' = "region"
           ELSE Fails /\ UNCHANGED worldData
    /\ UNCHANGED <<vars, disk, settings>>

-----------------------------------------------------------------------------
(* The first chunk, and others.                                            *)

\* What throws here is not caught by fetchChunk.
LocateFirst ==
    /\ stage = "region"
    /\ IF <<0, 0>> \in Files THEN stage' = "chunk" ELSE Fails
    /\ UNCHANGED <<vars, disk, settings, worldData>>

startThreads ==
    /\ stage = "chunk" /\ pc = "done"
    /\ stage' = "threads"
    /\ UNCHANGED <<vars, disk, settings, worldData>>

sendChunkData ==
    /\ stage = "threads"
    /\ \E c \in Coordinates : fetchChunk(c)
    /\ UNCHANGED startVars

Fetches == stage \in {"chunk", "threads"}

StartInit ==
    /\ Init
    /\ \E d \in Disks :
           /\ world = d.world
           /\ disk = [config |-> d.config, levels |-> d.levels]
    /\ stage = "config"
    /\ settings = [i \in DOMAIN Settings |-> Default]
    /\ worldData = NotSet

StartNext ==
    \/ loadConfig \/ loadLevelDat \/ LocateFirst \/ startThreads
    \/ Fetches /\ Next /\ UNCHANGED startVars
    \/ sendChunkData

\* The thread runs: what makes a step of start_server, and of fetchChunk.
Starts ==
    /\ stage \in {"config", "level", "region"} \/ (stage = "chunk" /\ pc = "done")
    /\ stage' \in {"level", "region", "chunk", "threads", "failed"} \ {stage}

StartSpec ==
    /\ StartInit /\ [][StartNext]_allVars
    /\ WF_stage(Starts)
    /\ WF_pc(Fetches /\ Proceeds)
    /\ WF_vars(Fetches /\ Inflate)

-----------------------------------------------------------------------------
(* Properties.                                                             *)

\* A server that gets past its configuration runs with every value of the
\* file, never with a part of them and the defaults of Config() for the rest.
StartedIsConfigured ==
    stage \notin {"config", "failed"} =>
        disk.config.state = "json" /\ settings = disk.config.values

\* What level.dat says has reached _worldData: each member has the value that
\* the game saved under its key in the world of the configured name, or, if
\* there is none of its type, has no value; and no file that is cut off is
\* taken for a whole one.
LevelIsStored ==
    stage \notin {"config", "level", "failed"} =>
        LET level == disk.levels[getWorldName]
            Saved(key) == At(level.tree, <<"Data", key>>)
        IN  /\ level.end = "complete"
            /\ \A key \in DOMAIN LevelTypes :
                   worldData[key] = IF Saved(key).type = TagTypeOf(LevelTypes[key])
                                    THEN AsMember(LevelTypes[key], Saved(key).value)
                                    ELSE Unassigned(LevelTypes[key])

\* The start ends with threads or with 1, and each fetch of a chunk ends,
\* whatever the disk holds: but for compressed data that stop before their
\* end, on which the loop of decompressZlib waits for more.
StartAndFetchesEnd ==
    []<>(\/ stage = "failed"
         \/ stage = "threads" /\ pc = "done"
         \/ pc = "inflate" /\ file.end = "unfinished")
=============================================================================
