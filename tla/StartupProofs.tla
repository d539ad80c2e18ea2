---------------------------- MODULE StartupProofs ----------------------------
(***************************************************************************)
(* What holds of Startup whatever is on the disk, for any width of a       *)
(* region and any parser that reads back what the game writes: the server  *)
(* starts with the configuration that is in the file, _worldData has what  *)
(* level.dat says, and what is fetched for a chunk is what was saved.      *)
(*                                                                         *)
(* The invariant follows a request through fetchChunk: the region is that  *)
(* of the coordinates, the entry of its header leads to the one chunk that *)
(* has them, and the buffer begins, up to total_out, as the data do.  What *)
(* the extraction makes of a tree is a fold over pieces: each section      *)
(* gives some to each part, and the pieces of a part come in the order of  *)
(* the sections.                                                           *)
(***************************************************************************)
EXTENDS Startup, CommonLemmas

Byte == 0..255

\* What is on the disk does not change, so that this is an invariant, too.
DiskInv ==
    /\ disk.config.state = "json" =>
           disk.config.values = [i \in DOMAIN Settings |-> disk.config.values[i]]
    /\ \A c \in DOMAIN world :
           /\ c \in Int \X Int /\ world[c].bytes \in Seq(Byte) /\ world[c].size \in Nat
           /\ (world[c].size = 0 => world[c].bytes = <<>>) /\ IsTree(world[c].tree)
           /\ IsWhole(world[c]) /\ IsChunk(world[c].tree) => IsReadBack(world[c])
    /\ \A name \in DOMAIN disk.levels :
           LET level == disk.levels[name]
           IN  level.end = "complete" /\ Ok(Parsed(level.bytes)) => IsReadBack(level)

ReadTypes ==
    /\ requested \in Int \X Int
    /\ pc \in Places \cup {"locate"}
    /\ decompressed \in Seq(Byte)
    /\ total_out \in Nat

\* Whoever has located a region has located that of the coordinates.
RegionInv ==
    pc = "header" => region = <<Quotient(requested[1], RegionWidth),
                                Quotient(requested[2], RegionWidth)>>

\* What has been read from the region is the chunk of the coordinates.
FileInv ==
    /\ pc \in {"unpack", "inflate", "parse"} =>
           \E c \in DOMAIN world :
               file = world[c] /\ (IsLocatable(requested) => c = requested)
    /\ pc = "extract" /\ IsLocatable(requested) => requested \in DOMAIN world

\* The data that have been inflated, and what the parser gets of them.
BufferInv ==
    /\ pc \in {"locate", "header", "unpack"} => total_out = 0
    /\ pc = "inflate" =>
           /\ file.compression # 3 /\ file.size # 0
           /\ total_out <= Len(decompressed) /\ total_out <= Len(file.bytes)
           /\ \A i \in 1..total_out : decompressed[i] = file.bytes[i]
    /\ pc = "parse" =>
           IF file.compression # 3 /\ file.size = 0
           THEN decompressed = <<>>
           ELSE /\ decompressed = file.bytes
                /\ file.compression = 3 \/ file.end = "complete"

\* There is no half of a chunk: what has thrown leaves an empty one.
ChunkInv ==
    /\ pc # "done" => chunk = emptyChunk /\ exceptions = {}
    /\ pc = "done" /\ exceptions # {} => chunk = emptyChunk
    /\ pc = "done" /\ IsLocatable(requested) /\ requested \notin DOMAIN world =>
           chunk = emptyChunk

\* Of a chunk that the game has saved whole, where the code looks for it,
\* nothing throws, and every part arrives.
IsSound(c) ==
    /\ IsLocatable(c) /\ c \in DOMAIN world
    /\ IsWhole(world[c]) /\ IsChunk(world[c].tree)

StoredInv ==
    IsSound(requested) =>
        LET tree == world[requested].tree
        IN  /\ pc = "extract" => root = tree.value
            /\ pc = "done" => \A part \in Parts : chunk[part] = StoredParts(tree)[part]

IInv == /\ DiskInv /\ StartedIsConfigured /\ LevelIsStored /\ ReadTypes
        /\ RegionInv /\ FileInv /\ BufferInv /\ ChunkInv /\ StoredInv

-----------------------------------------------------------------------------
(* Where a chunk is saved                                                  *)

(* The integers that a width divides into.                                 *)
LEMMA Division ==
    ASSUME NEW n \in Int, NEW w \in Nat \ {0}
    PROVE  /\ n \div w \in Int /\ n % w \in Int
           /\ n = w * (n \div w) + (n % w) /\ 0 <= n % w /\ n % w < w
<1>1. n \div w \in Int /\ n % w \in Int
  OBVIOUS
<1>2. 0 <= n % w /\ n % w < w
  OBVIOUS
<1>3. n = w * (n \div w) + (n % w)
  OBVIOUS
<1> QED  BY <1>1, <1>2, <1>3

(* Two digits to the base of a width are those of one number only.         *)
LEMMA DigitsAreUnique ==
    ASSUME NEW w \in Nat \ {0},
           NEW a \in 0..(w - 1), NEW b \in 0..(w - 1),
           NEW x \in 0..(w - 1), NEW y \in 0..(w - 1),
           a * w + b = x * w + y
    PROVE  a = x /\ b = y
<1>1. ~(a < x)
  <2> SUFFICES ASSUME a + 1 <= x PROVE FALSE
    OBVIOUS
  <2>1. (a + 1) * w <= x * w
    OBVIOUS
  <2>2. (a + 1) * w = a * w + w
    OBVIOUS
  <2> QED  BY <2>1, <2>2
<1>2. ~(x < a)
  <2> SUFFICES ASSUME x + 1 <= a PROVE FALSE
    OBVIOUS
  <2>1. (x + 1) * w <= a * w
    OBVIOUS
  <2>2. (x + 1) * w = x * w + w
    OBVIOUS
  <2> QED  BY <2>1, <2>2
<1> QED  BY <1>1, <1>2

(* A region has one entry for each of its chunks.                          *)
LEMMA PlaceIsUnique ==
    ASSUME NEW c \in Int \X Int, NEW d \in Int \X Int,
           RegionOf(c) = RegionOf(d), IndexOf(c) = IndexOf(d)
    PROVE  c = d
<1> DEFINE w == RegionWidth
<1>1. w \in Nat \ {0}
  BY RegionWidthAssumption
<1>2. /\ c[1] \in Int /\ c[2] \in Int /\ c = <<c[1], c[2]>>
      /\ d[1] \in Int /\ d[2] \in Int /\ d = <<d[1], d[2]>>
  OBVIOUS
<1>3. c[1] \div w = d[1] \div w /\ c[2] \div w = d[2] \div w
  BY DEF RegionOf
<1>4. (c[2] % w) * w + (c[1] % w) = (d[2] % w) * w + (d[1] % w)
  BY DEF IndexOf
<1> HIDE DEF w
<1>5. /\ c[1] % w \in 0..(w - 1) /\ c[2] % w \in 0..(w - 1)
      /\ d[1] % w \in 0..(w - 1) /\ d[2] % w \in 0..(w - 1)
  BY <1>1, <1>2, Division
<1>6. \A a, b, x, y \in 0..(w - 1) : a * w + b = x * w + y => a = x /\ b = y
  BY <1>1, DigitsAreUnique
<1>7. c[1] % w = d[1] % w /\ c[2] % w = d[2] % w
  BY <1>4, <1>5, <1>6
<1>8. \A m, n \in Int : m \div w = n \div w /\ m % w = n % w => m = n
  BY <1>1, Division
<1> QED  BY <1>2, <1>3, <1>7, <1>8

(* The division of the code is the right one where it leaves no remainder  *)
(* or nothing is negative.                                                 *)
LEMMA QuotientIsDivision ==
    ASSUME NEW n \in Int, NEW w \in Nat \ {0}, n >= 0 \/ n % w = 0
    PROVE  Quotient(n, w) = n \div w
<1>1. CASE n >= 0
  BY <1>1 DEF Quotient
<1>2. CASE n < 0 /\ n % w = 0
  <2> DEFINE q == n \div w
  <2>1. q \in Int /\ n = w * q
    BY <1>2, Division
  <2>2. -n = w * (-q) /\ -q \in Int /\ -n \in Int
    BY <2>1
  <2>3. (-n) \div w = -q
    BY <2>2
  <2> QED  BY <1>2, <2>1, <2>3 DEF Quotient
<1> QED  BY <1>1, <1>2

(* The path of a chunk's region is the one that the code looks for.        *)
LEMMA RegionIsFound ==
    ASSUME NEW c \in Int \X Int, IsLocatable(c)
    PROVE  <<Quotient(c[1], RegionWidth), Quotient(c[2], RegionWidth)>> = RegionOf(c)
<1>1. /\ c[1] \in Int /\ c[2] \in Int
      /\ c[1] >= 0 \/ c[1] % RegionWidth = 0
      /\ c[2] >= 0 \/ c[2] % RegionWidth = 0
  BY DEF IsLocatable
<1>2. /\ Quotient(c[1], RegionWidth) = c[1] \div RegionWidth
      /\ Quotient(c[2], RegionWidth) = c[2] \div RegionWidth
  BY <1>1, RegionWidthAssumption, QuotientIsDivision
<1> QED  BY <1>2 DEF RegionOf

-----------------------------------------------------------------------------
(* The buffer of decompressZlib                                            *)

(* A beginning that is as long as the whole is the whole.                  *)
LEMMA WholeBeginning ==
    ASSUME NEW S, NEW data \in Seq(S), NEW buffer \in Seq(S),
           Len(data) <= Len(buffer),
           \A i \in 1..Len(data) : buffer[i] = data[i]
    PROVE  SubSeq(buffer, 1, Len(data)) = data
<1>1. /\ Len(data) \in Nat /\ Len(buffer) \in Nat
      /\ SubSeq(buffer, 1, Len(data)) \in Seq(S)
      /\ Len(SubSeq(buffer, 1, Len(data))) = Len(data)
      /\ \A i \in 1..Len(data) : SubSeq(buffer, 1, Len(data))[i] = buffer[i]
  OBVIOUS
<1> QED  BY <1>1, SeqEqual

(* A buffer begins with zeros.                                             *)
LEMMA NewBuffer ==
    ASSUME NEW n \in Nat
    PROVE  [i \in 1..n |-> 0] \in Seq(Byte)
<1>1. [i \in 1..n |-> 0] \in [1..n -> Byte]
  BY DEF Byte
<1> QED  BY <1>1

(* What one call of inflate adds fits, and continues what there was.       *)
LEMMA InflateFills ==
    ASSUME IInv, pc = "inflate",
           NEW n, n = total_out + InflatedBytes
    PROVE  /\ n \in Nat /\ total_out <= n
           /\ n <= Len(decompressed) /\ n <= Len(file.bytes)
           /\ Filled \in Seq(Byte) /\ Len(Filled) = Len(decompressed)
           /\ \A i \in 1..n : Filled[i] = file.bytes[i]
<1>1. /\ file.bytes \in Seq(Byte) /\ decompressed \in Seq(Byte)
      /\ total_out \in Nat
      /\ total_out <= Len(decompressed) /\ total_out <= Len(file.bytes)
      /\ \A i \in 1..total_out : decompressed[i] = file.bytes[i]
  BY DEF IInv, DiskInv, ReadTypes, FileInv, BufferInv
<1>2. /\ n \in Nat /\ total_out <= n
      /\ n <= Len(decompressed) /\ n <= Len(file.bytes)
  BY <1>1 DEF InflatedBytes
<1>3. \A i \in DOMAIN decompressed :
          Filled[i] = IF i \in (total_out + 1)..n
                      THEN file.bytes[i] ELSE decompressed[i]
  BY DEF Filled
<1>4. \A i \in DOMAIN decompressed : Filled[i] \in Byte
  BY <1>1, <1>2, <1>3
<1>5. Filled \in Seq(Byte) /\ Len(Filled) = Len(decompressed)
  <2>1. Filled \in [1..Len(decompressed) -> Byte]
    BY <1>1, <1>4 DEF Filled
  <2> QED  BY <1>1, <2>1
<1>6. \A i \in 1..n : Filled[i] = file.bytes[i]
  BY <1>1, <1>2, <1>3
<1> QED  BY <1>2, <1>5, <1>6

(* A larger buffer begins as the smaller one did.                          *)
LEMMA DoubledBegins ==
    ASSUME NEW buffer \in Seq(Byte)
    PROVE  /\ Doubled(buffer) \in Seq(Byte)
           /\ Len(Doubled(buffer)) >= Len(buffer)
           /\ \A i \in 1..Len(buffer) : Doubled(buffer)[i] = buffer[i]
<1> DEFINE zeros == [i \in DOMAIN buffer |-> 0]
<1>1. zeros \in Seq(Byte)
  <2>1. zeros \in [1..Len(buffer) -> Byte]
    BY DEF Byte
  <2> QED  BY <2>1
<1> HIDE DEF zeros
<1>2. Doubled(buffer) = buffer \o zeros
  BY DEF Doubled, zeros
<1> QED  BY <1>1, <1>2

-----------------------------------------------------------------------------
(* The tags of a tree                                                       *)

(* The tag of a name in a compound.                                        *)
Child(tag, key) ==
    IF tag.type = "compound" /\ Name[key] \in DOMAIN tag.value
    THEN tag.value[Name[key]] ELSE Missing

(* The tag behind a path of one key is the child of that name.             *)
LEMMA AtOne ==
    ASSUME NEW tag, NEW k
    PROVE  At(tag, <<k>>) = Child(tag, k)
<1> DEFINE path == <<k>>
           step(i, before) ==
               IF before.type = "compound" /\ Name[path[i]] \in DOMAIN before.value
               THEN before.value[Name[path[i]]] ELSE Missing
           reached[i \in 0..Len(path)] ==
               IF i = 0 THEN tag ELSE step(i, reached[i - 1])
           IsReached(g) == g = [i \in 0..Len(path) |->
                                    IF i = 0 THEN tag ELSE step(i, g[i - 1])]
           f == [i \in 0..Len(path) |-> IF i = 0 THEN tag ELSE Child(tag, k)]
<1>1. Len(path) = 1 /\ path[1] = k
  OBVIOUS
<1>2. At(tag, path) = reached[Len(path)]
  BY DEF At
<1>3. \A before : step(1, before) = Child(before, k)
  BY DEF Child
<1> HIDE DEF path, step
<1>4. f[0] = tag /\ f[1] = Child(tag, k)
  BY <1>1
<1>5. IsReached(f)
  <2>1. \A i \in 0..Len(path) : i = 0 \/ i = 1
    BY <1>1
  <2>2. \A i \in 0..Len(path) : f[i] = IF i = 0 THEN tag ELSE step(i, f[i - 1])
    BY <1>3, <1>4, <2>1
  <2> HIDE DEF f
  <2>3. f = [i \in 0..Len(path) |-> f[i]]
    BY DEF f
  <2> QED  BY <2>2, <2>3
<1> HIDE DEF f
<1>6. IsReached(reached)
  BY <1>5
<1> HIDE DEF reached
<1>7. reached[0] = tag /\ reached[1] = step(1, reached[0])
  BY <1>1, <1>6
<1> QED  BY <1>1, <1>2, <1>3, <1>7 DEF path

(* That behind a path of two keys is the child of a child.                 *)
LEMMA AtTwo ==
    ASSUME NEW tag, NEW k, NEW l
    PROVE  At(tag, <<k, l>>) = Child(Child(tag, k), l)
<1> DEFINE path == <<k, l>>
           step(i, before) ==
               IF before.type = "compound" /\ Name[path[i]] \in DOMAIN before.value
               THEN before.value[Name[path[i]]] ELSE Missing
           reached[i \in 0..Len(path)] ==
               IF i = 0 THEN tag ELSE step(i, reached[i - 1])
           IsReached(g) == g = [i \in 0..Len(path) |->
                                    IF i = 0 THEN tag ELSE step(i, g[i - 1])]
           f == [i \in 0..Len(path) |-> IF i = 0 THEN tag
                                        ELSE IF i = 1 THEN Child(tag, k)
                                        ELSE Child(Child(tag, k), l)]
<1>1. Len(path) = 2 /\ path[1] = k /\ path[2] = l
  OBVIOUS
<1>2. At(tag, path) = reached[Len(path)]
  BY DEF At
<1>3. \A before :
          step(1, before) = Child(before, k) /\ step(2, before) = Child(before, l)
  BY DEF Child
<1> HIDE DEF path, step
<1>4. f[0] = tag /\ f[1] = Child(tag, k) /\ f[2] = Child(Child(tag, k), l)
  BY <1>1
<1>5. IsReached(f)
  <2>1. \A i \in 0..Len(path) : i = 0 \/ i = 1 \/ i = 2
    BY <1>1
  <2>2. \A i \in 0..Len(path) : f[i] = IF i = 0 THEN tag ELSE step(i, f[i - 1])
    BY <1>3, <1>4, <2>1
  <2> HIDE DEF f
  <2>3. f = [i \in 0..Len(path) |-> f[i]]
    BY DEF f
  <2> QED  BY <2>2, <2>3
<1> HIDE DEF f
<1>6. IsReached(reached)
  BY <1>5
<1> HIDE DEF reached
<1>7. /\ reached[0] = tag /\ reached[1] = step(1, reached[0])
      /\ reached[2] = step(2, reached[1])
  BY <1>1, <1>6
<1> QED  BY <1>1, <1>2, <1>3, <1>7 DEF path

(* What contains, at and get make of a path of one key.                    *)
LEMMA GetOne ==
    ASSUME NEW part, part # "none", NEW compound, NEW k, NEW t
    PROVE  Get(part, compound, <<k>>, <<t>>) =
               IF Name[k] \notin DOMAIN compound THEN Piece("none", <<>>)
               ELSE IF compound[Name[k]].type # t THEN BadAccess
               ELSE Piece(part, compound[Name[k]].value)
<1> DEFINE path == <<k>>
           types == <<t>>
           start == [ok |-> TRUE, part |-> part, value |-> compound]
           step(i, before) ==
               LET tag == before.value[Name[path[i]]]
               IN  IF ~before.ok \/ before.part = "none" THEN before
                   ELSE IF Name[path[i]] \notin DOMAIN before.value
                   THEN Piece("none", <<>>)
                   ELSE IF tag.type # types[i] THEN BadAccess
                   ELSE Piece(part, tag.value)
           reached[i \in 0..Len(path)] ==
               IF i = 0 THEN start ELSE step(i, reached[i - 1])
           IsReached(g) == g = [i \in 0..Len(path) |->
                                    IF i = 0 THEN start ELSE step(i, g[i - 1])]
           f == [i \in 0..Len(path) |-> IF i = 0 THEN start ELSE step(1, start)]
<1>1. Len(path) = 1 /\ path[1] = k /\ types[1] = t
  OBVIOUS
<1>2. Get(part, compound, path, types) = reached[Len(path)]
  BY DEF Get
<1>3. step(1, start) =
               IF Name[k] \notin DOMAIN compound THEN Piece("none", <<>>)
               ELSE IF compound[Name[k]].type # t THEN BadAccess
               ELSE Piece(part, compound[Name[k]].value)
  BY <1>1
<1> HIDE DEF path, types, step, start
<1>4. f[0] = start /\ f[1] = step(1, start)
  BY <1>1
<1>5. IsReached(f)
  <2>1. \A i \in 0..Len(path) : i = 0 \/ i = 1
    BY <1>1
  <2>2. \A i \in 0..Len(path) : f[i] = IF i = 0 THEN start ELSE step(i, f[i - 1])
    BY <1>4, <2>1
  <2> HIDE DEF f
  <2>3. f = [i \in 0..Len(path) |-> f[i]]
    BY DEF f
  <2> QED  BY <2>2, <2>3
<1> HIDE DEF f
<1>6. IsReached(reached)
  BY <1>5
<1> HIDE DEF reached
<1>7. reached[0] = start /\ reached[1] = step(1, reached[0])
  BY <1>1, <1>6
<1> QED  BY <1>1, <1>2, <1>3, <1>7 DEF path, types

(* Along two keys, the second is looked for in what the first leads to.    *)
LEMMA GetTwo ==
    ASSUME NEW part, part # "none", NEW compound, NEW k, NEW l, NEW t, NEW u
    PROVE  Get(part, compound, <<k, l>>, <<t, u>>) =
               IF Name[k] \notin DOMAIN compound THEN Piece("none", <<>>)
               ELSE IF compound[Name[k]].type # t THEN BadAccess
               ELSE Get(part, compound[Name[k]].value, <<l>>, <<u>>)
<1> DEFINE path == <<k, l>>
           types == <<t, u>>
           start == [ok |-> TRUE, part |-> part, value |-> compound]
           step(i, before) ==
               LET tag == before.value[Name[path[i]]]
               IN  IF ~before.ok \/ before.part = "none" THEN before
                   ELSE IF Name[path[i]] \notin DOMAIN before.value
                   THEN Piece("none", <<>>)
                   ELSE IF tag.type # types[i] THEN BadAccess
                   ELSE Piece(part, tag.value)
           reached[i \in 0..Len(path)] ==
               IF i = 0 THEN start ELSE step(i, reached[i - 1])
           IsReached(g) == g = [i \in 0..Len(path) |->
                                    IF i = 0 THEN start ELSE step(i, g[i - 1])]
           f == [i \in 0..Len(path) |-> IF i = 0 THEN start
                                        ELSE IF i = 1 THEN step(1, start)
                                        ELSE step(2, step(1, start))]
           child == compound[Name[k]].value
<1>1. Len(path) = 2 /\ path[1] = k /\ types[1] = t /\ path[2] = l /\ types[2] = u
  OBVIOUS
<1>2. Get(part, compound, path, types) = reached[Len(path)]
  BY DEF Get
<1>3. step(1, start) =
               IF Name[k] \notin DOMAIN compound THEN Piece("none", <<>>)
               ELSE IF compound[Name[k]].type # t THEN BadAccess
               ELSE Piece(part, child)
  BY <1>1
<1>4. /\ step(2, Piece("none", <<>>)) = Piece("none", <<>>)
      /\ step(2, BadAccess) = BadAccess
      /\ step(2, Piece(part, child)) = Get(part, child, <<l>>, <<u>>)
  <2> HIDE DEF child
  <2>1. /\ step(2, Piece("none", <<>>)) = Piece("none", <<>>)
        /\ step(2, BadAccess) = BadAccess
    BY DEF Piece, BadAccess
  <2>2. step(2, Piece(part, child)) =
               IF Name[l] \notin DOMAIN child THEN Piece("none", <<>>)
               ELSE IF child[Name[l]].type # u THEN BadAccess
               ELSE Piece(part, child[Name[l]].value)
    BY <1>1 DEF Piece
  <2> HIDE DEF step
  <2> QED  BY <2>1, <2>2, GetOne
<1> HIDE DEF path, types, step, start
<1>5. f[0] = start /\ f[1] = step(1, start) /\ f[2] = step(2, step(1, start))
  BY <1>1
<1>6. IsReached(f)
  <2>1. \A i \in 0..Len(path) : i = 0 \/ i = 1 \/ i = 2
    BY <1>1
  <2>2. \A i \in 0..Len(path) : f[i] = IF i = 0 THEN start ELSE step(i, f[i - 1])
    BY <1>5, <2>1
  <2> HIDE DEF f
  <2>3. f = [i \in 0..Len(path) |-> f[i]]
    BY DEF f
  <2> QED  BY <2>2, <2>3
<1> HIDE DEF f
<1>7. IsReached(reached)
  BY <1>6
<1> HIDE DEF reached
<1>8. /\ reached[0] = start /\ reached[1] = step(1, reached[0])
      /\ reached[2] = step(2, reached[1])
  BY <1>1, <1>7
<1>9. Get(part, compound, <<k, l>>, <<t, u>>) = step(2, step(1, start))
  BY <1>1, <1>2, <1>8 DEF path, types
<1> HIDE DEF child
<1>10. CASE Name[k] \notin DOMAIN compound
  BY <1>3, <1>4, <1>9, <1>10
<1>11. CASE Name[k] \in DOMAIN compound /\ compound[Name[k]].type # t
  BY <1>3, <1>4, <1>9, <1>11
<1>12. CASE Name[k] \in DOMAIN compound /\ compound[Name[k]].type = t
  BY <1>3, <1>4, <1>9, <1>12 DEF child
<1> QED  BY <1>10, <1>11, <1>12

-----------------------------------------------------------------------------
(* The pieces of an extraction                                             *)

(* The order of copying matters, not the grouping.                         *)
LEMMA Regrouped ==
    \A a, b, c \in Seq(Int) : (a \o b) \o c = a \o (b \o c)
OBVIOUS

(* Sequences are functions of that domain.                                 *)
LEMMA FunctionIsSeq ==
    ASSUME NEW S, NEW n \in Nat, NEW s \in [1..n -> S]
    PROVE  s \in Seq(S)
OBVIOUS

(* What a sequence of pieces makes of a part, from what it has had.        *)
IsGathered(f, pieces, part, had) ==
    /\ f[0] = had
    /\ \A i \in 1..Len(pieces) :
           f[i] = IF pieces[i].part = part THEN f[i - 1] \o pieces[i].value
                  ELSE f[i - 1]

(* None of them throws, and together they copy v to the end of the part.   *)
Gives(pieces, part, v) ==
    /\ \A i \in 1..Len(pieces) :
           pieces[i].ok /\ (pieces[i].part = part => pieces[i].value \in Seq(Int))
    /\ \A had \in Seq(Int) : \A f :
           IsGathered(f, pieces, part, had) => f[Len(pieces)] = had \o v

(* No pieces, nothing copied.                                              *)
LEMMA GivesNothing ==
    ASSUME NEW part
    PROVE  Gives(<<>>, part, <<>>)
<1>1. Len(<<>>) = 0
  OBVIOUS
<1>2. \A had \in Seq(Int) : had \o <<>> = had
  BY ConcatEmptySeq
<1> QED  BY <1>1, <1>2 DEF Gives, IsGathered

(* One piece copies its value, or is of another part.                      *)
LEMMA GivesOne ==
    ASSUME NEW piece, piece.ok, NEW part, NEW v \in Seq(Int),
           \/ piece.part = part /\ piece.value = v
           \/ piece.part # part /\ v = <<>>
    PROVE  Gives(<<piece>>, part, v)
<1>1. Len(<<piece>>) = 1 /\ <<piece>>[1] = piece
  OBVIOUS
<1>2. \A had \in Seq(Int) : had \o <<>> = had
  BY ConcatEmptySeq
<1>3. ASSUME NEW had \in Seq(Int), NEW f, IsGathered(f, <<piece>>, part, had)
      PROVE  f[1] = had \o v
  <2>1. f[0] = had /\ f[1] = IF piece.part = part THEN f[0] \o piece.value ELSE f[0]
    BY <1>1, <1>3 DEF IsGathered
  <2> QED  BY <1>2, <2>1
<1> QED  BY <1>1, <1>3 DEF Gives

(* Pieces and then others copy what both copy, in that order.              *)
LEMMA GivesBoth ==
    ASSUME NEW S, NEW s \in Seq(S), NEW t \in Seq(S),
           NEW part, NEW v \in Seq(Int), NEW w \in Seq(Int),
           Gives(s, part, v), Gives(t, part, w)
    PROVE  Gives(s \o t, part, v \o w)
<1> DEFINE st == s \o t
           m == Len(s)
           n == Len(t)
<1>1. /\ m \in Nat /\ n \in Nat /\ Len(st) = m + n
      /\ \A i \in 1..m : st[i] = s[i]
      /\ \A i \in 1..n : st[m + i] = t[i]
  <2>1. /\ Len(st) = Len(s) + Len(t)
        /\ \A i \in 1..(Len(s) + Len(t)) :
               st[i] = IF i <= Len(s) THEN s[i] ELSE t[i - Len(s)]
    BY ConcatProperties
  <2>2. m \in Nat /\ n \in Nat
    BY LenProperties
  <2> HIDE DEF st
  <2>3. ASSUME NEW i \in 1..n PROVE st[m + i] = t[i]
    <3>1. m + i \in 1..(m + n) /\ ~(m + i <= m) /\ (m + i) - m = i
      BY <2>2
    <3> QED  BY <2>1, <3>1
  <2> QED  BY <2>1, <2>2, <2>3
<1> HIDE DEF st, m, n
<1>2. ASSUME NEW i \in 1..Len(st)
      PROVE  st[i].ok /\ (st[i].part = part => st[i].value \in Seq(Int))
  <2>1. CASE i \in 1..m
    BY <1>1, <2>1 DEF Gives, m
  <2>2. CASE i \notin 1..m
    <3>1. i - m \in 1..n /\ st[i] = st[m + (i - m)]
      BY <1>1, <2>2
    <3> QED  BY <1>1, <3>1 DEF Gives, n
  <2> QED  BY <2>1, <2>2
<1>3. ASSUME NEW had \in Seq(Int), NEW f, IsGathered(f, st, part, had)
      PROVE  f[Len(st)] = had \o (v \o w)
  <2> DEFINE g == [i \in 0..n |-> f[m + i]]
  <2>1. IsGathered(f, s, part, had)
    <3>1. \A i \in 1..m : i \in 1..Len(st)
      BY <1>1
    <3> QED  BY <1>1, <1>3, <3>1 DEF IsGathered, m
  <2>2. f[m] = had \o v
    BY <2>1 DEF Gives, m
  <2>3. had \o v \in Seq(Int)
    BY ConcatProperties
  <2>4. IsGathered(g, t, part, had \o v)
    <3>1. g[0] = had \o v
      BY <1>1, <2>2
    <3>2. ASSUME NEW i \in 1..n
          PROVE  g[i] = IF t[i].part = part THEN g[i - 1] \o t[i].value
                        ELSE g[i - 1]
      <4>1. /\ m + i \in 1..Len(st) /\ (m + i) - 1 = m + (i - 1)
            /\ i \in 0..n /\ i - 1 \in 0..n
        BY <1>1
      <4>2. g[i] = f[m + i] /\ g[i - 1] = f[(m + i) - 1] /\ st[m + i] = t[i]
        BY <1>1, <4>1
      <4> HIDE DEF g
      <4> QED  BY <1>3, <4>1, <4>2 DEF IsGathered
    <3> HIDE DEF g
    <3> QED  BY <3>1, <3>2 DEF IsGathered, n
  <2>5. g[n] = (had \o v) \o w
    <3> HIDE DEF g
    <3> QED  BY <2>3, <2>4 DEF Gives, n
  <2>6. g[n] = f[Len(st)]
    BY <1>1
  <2>7. (had \o v) \o w = had \o (v \o w)
    BY Regrouped
  <2> HIDE DEF g
  <2> QED  BY <2>5, <2>6, <2>7
<1>4. Gives(st, part, v \o w)
  BY <1>2, <1>3 DEF Gives
<1> QED  BY <1>4 DEF st

(* FlattenSeq by its equations.                                            *)
LEMMA FlattenProperties ==
    ASSUME NEW S, NEW s \in Seq(Seq(S)), s # <<>>
    PROVE  \E f \in [1..Len(s) -> Seq(S)] :
               /\ f[1] = s[1] /\ FlattenSeq(s) = f[Len(s)]
               /\ \A i \in 2..Len(s) : f[i] = f[i - 1] \o s[i]
<1> DEFINE N == Len(s)
           n == N - 1
           step == [p \in (1..n) \X Seq(S) |-> p[2] \o s[p[1] + 1]]
<1>1. N \in Nat \ {0} /\ n \in Nat /\ \A i \in 1..N : s[i] \in Seq(S)
  BY LenProperties, EmptySeq, ElementOfSeq
<1>2. step \in [(1..n) \X Seq(S) -> Seq(S)]
  <2> SUFFICES ASSUME NEW i \in 1..n, NEW t \in Seq(S) PROVE t \o s[i + 1] \in Seq(S)
    OBVIOUS
  <2>1. s[i + 1] \in Seq(S)
    BY <1>1
  <2> QED  BY <2>1, ConcatProperties
<1>3. PICK g \in [0..n -> Seq(S)] : IsIteration(g, n, s[1], step)
  <2>1. s[1] \in Seq(S)
    BY <1>1
  <2> HIDE DEF step, n
  <2> QED  BY <1>1, <1>2, <2>1, Iteration
<1>4. \A i \in 1..n : g[i] = g[i - 1] \o s[i + 1]
  <2> SUFFICES ASSUME NEW i \in 1..n PROVE g[i] = g[i - 1] \o s[i + 1]
    OBVIOUS
  <2>1. g[i] = step[<<i, g[i - 1]>>]
    BY <1>3 DEF IsIteration
  <2>2. i - 1 \in 0..n
    BY <1>1
  <2> HIDE DEF n
  <2>3. g[i - 1] \in Seq(S)
    BY <1>3, <2>2
  <2> QED  BY <2>1, <2>3
<1> DEFINE f == [i \in 1..N |-> g[i - 1]]
           flatten[i \in 1..N] == IF i = 1 THEN s[i] ELSE flatten[i - 1] \o s[i]
           IsFlat(h) == h = [i \in 1..N |-> IF i = 1 THEN s[i] ELSE h[i - 1] \o s[i]]
<1>5. f \in [1..N -> Seq(S)] /\ f[1] = s[1] /\ \A i \in 2..N : f[i] = f[i - 1] \o s[i]
  <2>1. \A i \in 1..N : i - 1 \in 0..n /\ f[i] = g[i - 1]
    BY <1>1
  <2>2. f \in [1..N -> Seq(S)]
    BY <1>3, <2>1
  <2>3. f[1] = s[1]
    BY <1>1, <1>3, <2>1 DEF IsIteration
  <2>4. ASSUME NEW i \in 2..N PROVE f[i] = f[i - 1] \o s[i]
    <3>1. i \in 1..N /\ i - 1 \in 1..N /\ i - 1 \in 1..n /\ (i - 1) + 1 = i
      BY <1>1
    <3>2. g[i - 1] = g[(i - 1) - 1] \o s[(i - 1) + 1]
      BY <1>4, <3>1
    <3> HIDE DEF f, n, N
    <3> QED  BY <2>1, <3>1, <3>2
  <2> QED  BY <2>2, <2>3, <2>4
<1> HIDE DEF n, step
<1>6. IsFlat(f)
  <2>1. \A i \in 1..N : f[i] = IF i = 1 THEN s[i] ELSE f[i - 1] \o s[i]
    <3> HIDE DEF f
    <3>1. \A i \in 1..N : i = 1 \/ i \in 2..N
      BY <1>1
    <3> QED  BY <1>5, <3>1
  <2> HIDE DEF f
  <2> QED  BY <1>5, <2>1
<1> HIDE DEF f
<1>7. IsFlat(flatten)
  BY <1>6
<1>8. FlattenSeq(s) = flatten[N]
  BY <1>1 DEF FlattenSeq
<1> HIDE DEF flatten
<1>9. \A i \in 0..n : flatten[i + 1] = f[i + 1]
  <2> DEFINE Same == {i \in 0..n : flatten[i + 1] = f[i + 1]}
  <2>1. 0 \in Same
    BY <1>1, <1>5, <1>7 DEF n
  <2>2. ASSUME NEW i \in 0..(n - 1), i \in Same PROVE i + 1 \in Same
    <3> DEFINE j == (i + 1) + 1
    <3>1. j \in 1..N /\ j \in 2..N /\ j # 1 /\ j - 1 = i + 1 /\ i + 1 \in 0..n
      BY <1>1 DEF n
    <3>2. flatten[i + 1] = f[i + 1]
      BY <2>2
    <3> HIDE DEF j, N
    <3>3. flatten[j] = flatten[j - 1] \o s[j]
      BY <1>7, <3>1
    <3>4. f[j] = f[j - 1] \o s[j]
      BY <1>5, <3>1
    <3>5. flatten[j] = f[j]
      BY <3>1, <3>2, <3>3, <3>4
    <3> QED  BY <3>1, <3>5 DEF j
  <2>3. 0..n \subseteq Same
    <3> HIDE DEF Same
    <3> QED  BY <1>1, <2>1, <2>2, Induction
  <2> QED  BY <2>3
<1>10. FlattenSeq(s) = f[N]
  <2>1. n \in 0..n /\ n + 1 = N
    BY <1>1 DEF n
  <2> HIDE DEF N
  <2> QED  BY <1>8, <1>9, <2>1
<1> QED  BY <1>5, <1>10

(* Of no sequences there is nothing in turn.                               *)
LEMMA FlattenEmpty == FlattenSeq(<<>>) = <<>>
BY DEF FlattenSeq

(* What each of several sequences of pieces gives, all of them give in     *)
(* turn.                                                                   *)
LEMMA GivesInTurn ==
    ASSUME NEW S, NEW s \in Seq(Seq(S)), NEW vs \in Seq(Seq(Int)), Len(s) = Len(vs),
           NEW part, \A i \in 1..Len(s) : Gives(s[i], part, vs[i])
    PROVE  /\ FlattenSeq(s) \in Seq(S) /\ FlattenSeq(vs) \in Seq(Int)
           /\ Gives(FlattenSeq(s), part, FlattenSeq(vs))
<1>1. CASE s = <<>>
  <2>1. vs = <<>>
    BY <1>1, EmptySeq
  <2>2. FlattenSeq(s) = <<>> /\ FlattenSeq(vs) = <<>>
    BY <1>1, <2>1, FlattenEmpty
  <2>3. Gives(FlattenSeq(s), part, FlattenSeq(vs))
    BY <2>2, GivesNothing
  <2>4. <<>> \in Seq(S) /\ <<>> \in Seq(Int)
    OBVIOUS
  <2> QED  BY <2>2, <2>3, <2>4
<1>2. CASE s # <<>>
  <2> DEFINE N == Len(s)
             n == N - 1
  <2>1. N \in Nat \ {0} /\ Len(vs) = N /\ vs # <<>> /\ n \in Nat /\ n + 1 = N
    BY <1>2, EmptySeq, LenProperties
  <2>2. PICK f \in [1..N -> Seq(S)] :
            /\ f[1] = s[1] /\ FlattenSeq(s) = f[N]
            /\ \A i \in 2..N : f[i] = f[i - 1] \o s[i]
    BY <1>2, FlattenProperties
  <2>3. PICK g \in [1..N -> Seq(Int)] :
            /\ g[1] = vs[1] /\ FlattenSeq(vs) = g[N]
            /\ \A i \in 2..N : g[i] = g[i - 1] \o vs[i]
    <3>1. \E g \in [1..Len(vs) -> Seq(Int)] :
              /\ g[1] = vs[1] /\ FlattenSeq(vs) = g[Len(vs)]
              /\ \A i \in 2..Len(vs) : g[i] = g[i - 1] \o vs[i]
      BY <2>1, FlattenProperties
    <3> HIDE DEF N
    <3> QED  BY <2>1, <3>1
  <2>4. \A i \in 1..N :
            s[i] \in Seq(S) /\ vs[i] \in Seq(Int) /\ Gives(s[i], part, vs[i])
    BY <2>1, ElementOfSeq
  <2> HIDE DEF N, n
  <2> DEFINE Given == {i \in 0..n : Gives(f[i + 1], part, g[i + 1])}
  <2>5. 0 \in Given
    BY <2>1, <2>2, <2>3, <2>4
  <2>6. ASSUME NEW i \in 0..(n - 1), i \in Given PROVE i + 1 \in Given
    <3> DEFINE j == (i + 1) + 1
    <3>1. j \in 1..N /\ j \in 2..N /\ j - 1 = i + 1 /\ j - 1 \in 1..N /\ i + 1 \in 0..n
      BY <2>1
    <3>2. Gives(f[j - 1], part, g[j - 1])
      BY <2>6, <3>1
    <3> HIDE DEF j
    <3>3. Gives(f[j - 1] \o s[j], part, g[j - 1] \o vs[j])
      BY <2>2, <2>3, <2>4, <3>1, <3>2, GivesBoth
    <3>4. Gives(f[j], part, g[j])
      BY <2>2, <2>3, <3>1, <3>3
    <3> QED  BY <3>1, <3>4 DEF j
  <2>7. 0..n \subseteq Given
    <3> HIDE DEF Given
    <3> QED  BY <2>1, <2>5, <2>6, Induction
  <2>8. Gives(f[N], part, g[N])
    <3>1. n \in 0..n
      BY <2>1
    <3> QED  BY <2>1, <2>7, <3>1
  <2>9. N \in 1..N
    BY <2>1
  <2> QED  BY <2>2, <2>3, <2>8, <2>9
<1> QED  BY <1>1, <1>2

(* What a compound holds are tags, and Missing is none.                    *)
HasTags(tag) ==
    tag.type = "compound" =>
        \A name \in DOMAIN tag.value : tag.value[name].type # "missing"

(* A piece that does not throw, and copies v to its part if there is one.  *)
Copies(piece, part, v) ==
    /\ piece.ok
    /\ \/ piece.part = part /\ piece.value = v
       \/ piece.part = "none" /\ v = <<>>

(* A key that leads to a tag of the type, or to none, gives the value of it. *)
LEMMA PieceOne ==
    ASSUME NEW part, part # "none", NEW tag, tag.type = "compound", HasTags(tag),
           NEW k, NEW t, t # "missing", At(tag, <<k>>).type \in {t, "missing"}
    PROVE  Copies(Get(part, tag.value, <<k>>, <<t>>), part, ValueAt(tag, <<k>>, t))
<1>1. At(tag, <<k>>) = Child(tag, k)
  BY AtOne
<1>2. Get(part, tag.value, <<k>>, <<t>>) =
               IF Name[k] \notin DOMAIN tag.value THEN Piece("none", <<>>)
               ELSE IF tag.value[Name[k]].type # t THEN BadAccess
               ELSE Piece(part, tag.value[Name[k]].value)
  BY GetOne
<1>3. CASE Name[k] \notin DOMAIN tag.value
  <2>1. At(tag, <<k>>).type = "missing"
    BY <1>1, <1>3 DEF Child, Missing
  <2> QED  BY <1>2, <1>3, <2>1 DEF Copies, ValueAt, Piece
<1>4. CASE Name[k] \in DOMAIN tag.value
  <2>1. At(tag, <<k>>) = tag.value[Name[k]] /\ At(tag, <<k>>).type # "missing"
    BY <1>1, <1>4 DEF Child, HasTags
  <2> QED  BY <1>2, <1>4, <2>1 DEF Copies, ValueAt, Piece
<1> QED  BY <1>3, <1>4

(* So do two keys.                                                         *)
LEMMA PieceTwo ==
    \A part, tag, k, l, t :
        /\ part # "none" /\ t # "missing" /\ tag.type = "compound" /\ HasTags(tag)
        /\ At(tag, <<k>>).type \in {"compound", "missing"} /\ HasTags(At(tag, <<k>>))
        /\ At(tag, <<k, l>>).type \in {t, "missing"}
        => Copies(Get(part, tag.value, <<k, l>>, <<"compound", t>>), part,
                  ValueAt(tag, <<k, l>>, t))
<1> SUFFICES
      ASSUME NEW part, part # "none", NEW tag, tag.type = "compound", HasTags(tag),
             NEW k, At(tag, <<k>>).type \in {"compound", "missing"},
             HasTags(At(tag, <<k>>)),
             NEW l, NEW t, t # "missing", At(tag, <<k, l>>).type \in {t, "missing"}
      PROVE  Copies(Get(part, tag.value, <<k, l>>, <<"compound", t>>), part,
                    ValueAt(tag, <<k, l>>, t))
  OBVIOUS
<1> DEFINE child == Child(tag, k)
<1>1. At(tag, <<k>>) = child /\ At(tag, <<k, l>>) = Child(child, l)
  BY AtOne, AtTwo
<1>2. Get(part, tag.value, <<k, l>>, <<"compound", t>>) =
               IF Name[k] \notin DOMAIN tag.value THEN Piece("none", <<>>)
               ELSE IF tag.value[Name[k]].type # "compound" THEN BadAccess
               ELSE Get(part, tag.value[Name[k]].value, <<l>>, <<t>>)
  BY GetTwo
<1>3. CASE Name[k] \notin DOMAIN tag.value
  <2>1. Child(child, l).type = "missing"
    BY <1>3 DEF Child, Missing
  <2> QED  BY <1>1, <1>2, <1>3, <2>1 DEF Copies, ValueAt, Piece
<1>4. CASE Name[k] \in DOMAIN tag.value
  <2>1. child = tag.value[Name[k]] /\ child.type = "compound"
    BY <1>1, <1>4 DEF Child, HasTags
  <2>2. At(child, <<l>>) = Child(child, l)
    BY AtOne
  <2> HIDE DEF child
  <2>3. HasTags(child) /\ At(child, <<l>>).type \in {t, "missing"}
    BY <1>1, <2>2
  <2>4. Copies(Get(part, child.value, <<l>>, <<t>>), part, ValueAt(child, <<l>>, t))
    BY <2>1, <2>3, PieceOne
  <2>5. ValueAt(child, <<l>>, t) = ValueAt(tag, <<k, l>>, t)
    BY <1>1, <2>2 DEF ValueAt
  <2>6. Get(part, tag.value, <<k, l>>, <<"compound", t>>)
            = Get(part, child.value, <<l>>, <<t>>)
    BY <1>2, <1>4, <2>1
  <2> QED  BY <2>4, <2>5, <2>6
<1> QED  BY <1>3, <1>4

(* What one piece copies, part by part.                                    *)
LEMMA CopyGives ==
    ASSUME NEW piece, NEW part, NEW v, Copies(piece, part, v),
           part \in Parts => v \in Seq(Int), NEW q \in Parts
    PROVE  Gives(<<piece>>, q, IF q = part THEN v ELSE <<>>)
<1>1. <<>> \in Seq(Int) /\ "none" \notin Parts
  BY DEF Parts
<1>2. CASE q = part
  <2>1. /\ piece.ok
        /\ \/ piece.part = part /\ piece.value = v
           \/ piece.part # part /\ v = <<>>
    BY <1>1, <1>2 DEF Copies
  <2> QED  BY <1>2, <2>1, GivesOne
<1>3. CASE q # part
  <2>1. piece.ok /\ piece.part # q
    BY <1>1, <1>3 DEF Copies
  <2>2. Gives(<<piece>>, q, <<>>)
    BY <1>1, <2>1, GivesOne
  <2> QED  BY <1>3, <2>2
<1> QED  BY <1>2, <1>3

(* Four sequences of one element are one of four.                          *)
LEMMA FourInTurn ==
    ASSUME NEW a, NEW b, NEW c, NEW d
    PROVE  (<<a>> \o <<b>>) \o (<<c>> \o <<d>>) = <<a, b, c, d>>
<1> DEFINE S == {a, b, c, d}
<1>1. \A x \in S, y \in S : <<x>> \o <<y>> \in Seq(S) /\ <<x>> \o <<y>> = <<x, y>>
  <2> SUFFICES ASSUME NEW x \in S, NEW y \in S
               PROVE  <<x>> \o <<y>> \in Seq(S) /\ <<x>> \o <<y>> = <<x, y>>
    OBVIOUS
  <2>1. <<x>> \in Seq(S) /\ <<y>> \in Seq(S) /\ <<x, y>> \in Seq(S)
    OBVIOUS
  <2> HIDE DEF S
  <2>2. /\ <<x>> \o <<y>> \in Seq(S) /\ Len(<<x>> \o <<y>>) = 2
        /\ (<<x>> \o <<y>>)[1] = x /\ (<<x>> \o <<y>>)[2] = y
    BY <2>1, ConcatProperties
  <2>3. Len(<<x, y>>) = 2 /\ <<x, y>>[1] = x /\ <<x, y>>[2] = y
    OBVIOUS
  <2>4. \A i \in 1..2 : i = 1 \/ i = 2
    OBVIOUS
  <2>5. \A i \in 1..2 : (<<x>> \o <<y>>)[i] = <<x, y>>[i]
    BY <2>2, <2>3, <2>4
  <2>6. <<x>> \o <<y>> = <<x, y>>
    BY <2>1, <2>2, <2>3, <2>5, SeqEqual
  <2> QED  BY <2>2, <2>6
<1>2. /\ <<a>> \o <<b>> = <<a, b>> /\ <<c>> \o <<d>> = <<c, d>>
      /\ <<a, b>> \in Seq(S) /\ <<c, d>> \in Seq(S) /\ <<a, b, c, d>> \in Seq(S)
  BY <1>1
<1> HIDE DEF S
<1> DEFINE e == <<a, b>> \o <<c, d>>
           f == <<a, b, c, d>>
<1>3. /\ e \in Seq(S) /\ Len(e) = 4 /\ e[1] = a /\ e[2] = b /\ e[3] = c /\ e[4] = d
  <2>1. /\ e \in Seq(S) /\ Len(e) = Len(<<a, b>>) + Len(<<c, d>>)
        /\ \A i \in 1..(Len(<<a, b>>) + Len(<<c, d>>)) :
               e[i] = IF i <= Len(<<a, b>>) THEN <<a, b>>[i]
                      ELSE <<c, d>>[i - Len(<<a, b>>)]
    BY <1>2, ConcatProperties
  <2>2. Len(<<a, b>>) = 2 /\ Len(<<c, d>>) = 2
    OBVIOUS
  <2> HIDE DEF e
  <2> QED  BY <2>1, <2>2
<1>4. Len(f) = 4 /\ f[1] = a /\ f[2] = b /\ f[3] = c /\ f[4] = d
  OBVIOUS
<1>5. \A i \in 1..4 : i = 1 \/ i = 2 \/ i = 3 \/ i = 4
  OBVIOUS
<1>6. f \in Seq(S)
  BY <1>2
<1> HIDE DEF e, f
<1>7. \A i \in 1..4 : e[i] = f[i]
  BY <1>3, <1>4, <1>5
<1>8. e = f
  BY <1>3, <1>4, <1>6, <1>7, SeqEqual
<1> QED  BY <1>2, <1>8 DEF e, f

(* Sequences of one set are sequences of a larger one.                     *)
LEMMA SeqGrows ==
    ASSUME NEW S, NEW T, S \subseteq T, NEW s \in Seq(S)
    PROVE  s \in Seq(T)
<1>1. s \in [1..Len(s) -> S] /\ Len(s) \in Nat
  OBVIOUS
<1>2. s \in [1..Len(s) -> T]
  BY <1>1
<1> QED  BY <1>1, <1>2

(* Nothing in turn is nothing.                                             *)
LEMMA FlattenNothing ==
    ASSUME NEW n \in Nat
    PROVE  FlattenSeq([i \in 1..n |-> <<>>]) = <<>>
<1> DEFINE s == [i \in 1..n |-> <<>>]
<1>1. s \in [1..n -> Seq(Int)]
  BY EmptySeq
<1>2. s \in Seq(Seq(Int)) /\ Len(s) = n
  BY <1>1
<1>3. CASE n = 0
  <2>1. s = <<>>
    BY <1>2, <1>3, EmptySeq
  <2> HIDE DEF s
  <2>2. FlattenSeq(s) = <<>>
    BY <2>1, FlattenEmpty
  <2> QED  BY <2>2 DEF s
<1>4. CASE n # 0
  <2>1. s # <<>>
    BY <1>2, <1>4
  <2>2. \A i \in 1..n : s[i] = <<>>
    OBVIOUS
  <2> HIDE DEF s
  <2>3. PICK f \in [1..n -> Seq(Int)] :
            /\ f[1] = s[1] /\ FlattenSeq(s) = f[n]
            /\ \A i \in 2..n : f[i] = f[i - 1] \o s[i]
    <3>1. \E f \in [1..Len(s) -> Seq(Int)] :
            /\ f[1] = s[1] /\ FlattenSeq(s) = f[Len(s)]
            /\ \A i \in 2..Len(s) : f[i] = f[i - 1] \o s[i]
      BY <1>2, <2>1, FlattenProperties
    <3> QED  BY <1>2, <3>1
  <2> DEFINE m == n - 1
             Empty == {i \in 0..m : f[i + 1] = <<>>}
  <2>4. m \in Nat /\ m + 1 = n
    BY <1>4
  <2>5. 0 \in Empty
    BY <2>2, <2>3, <2>4
  <2>6. ASSUME NEW i \in 0..(m - 1), i \in Empty PROVE i + 1 \in Empty
    <3> DEFINE j == (i + 1) + 1
    <3>1. j \in 2..n /\ j - 1 = i + 1 /\ i + 1 \in 0..m /\ j \in 1..n
      BY <2>4
    <3>2. f[j - 1] = <<>> /\ s[j] = <<>> /\ f[j] = f[j - 1] \o s[j]
      BY <2>2, <2>3, <2>6, <3>1
    <3>3. <<>> \o <<>> = <<>>
      OBVIOUS
    <3> HIDE DEF j
    <3>4. f[j] = <<>>
      BY <3>2, <3>3
    <3> QED  BY <3>1, <3>4 DEF j
  <2>7. 0..m \subseteq Empty
    <3> HIDE DEF Empty, m
    <3> QED  BY <2>4, <2>5, <2>6, Induction
  <2>8. f[n] = <<>>
    <3>1. m \in 0..m
      BY <2>4
    <3> QED  BY <2>4, <2>7, <3>1
  <2>9. FlattenSeq(s) = <<>>
    BY <2>3, <2>8
  <2> QED  BY <2>9 DEF s
<1> QED  BY <1>3, <1>4

-----------------------------------------------------------------------------
(* What is extracted from the tree of a chunk                              *)

(* What is said of a tag that has the game's types, IsChunk, and is made   *)
(* of tags, IsTree.                                                        *)
IsSection(section) ==
    /\ section.type = "compound" /\ HasTags(section)
    /\ At(section, <<"Y">>).type \in {"byte", "missing"}
    /\ \A part \in {"SkyLight", "BlockLight"} :
           /\ At(section, <<part>>).type \in {"byte_array", "missing"}
           /\ ValueAt(section, <<part>>, "byte_array") \in Seq(Int)
    /\ \A part \in {"block_states", "biomes"} :
           /\ At(section, <<part>>).type \in {"compound", "missing"}
           /\ HasTags(At(section, <<part>>))
           /\ At(section, <<part, "data">>).type \in {"long_array", "missing"}
           /\ ValueAt(section, <<part, "data">>, "long_array") \in Seq(Int)

(* What a section has for a part, in its blocks and in its biomes.         *)
OfSection(section, q) ==
    CASE q = "blockData" -> ValueAt(section, <<"block_states", "data">>, "long_array")
      [] q = "skyLight" -> ValueAt(section, <<"SkyLight">>, "byte_array")
      [] q = "blockLight" -> ValueAt(section, <<"BlockLight">>, "byte_array")
      [] OTHER -> <<>>

OfBiomes(section, q) ==
    IF q = "biomeData" THEN ValueAt(section, <<"biomes", "data">>, "long_array")
    ELSE <<>>

(* A section gives its blocks and its light, each to the part of it.       *)
LEMMA SectionGives ==
    ASSUME NEW section, IsSection(section), NEW q \in Parts
    PROVE  /\ Gives(extractSection(section.value), q, OfSection(section, q))
           /\ OfSection(section, q) \in Seq(Int)
<1> DEFINE value == section.value
           a == Get("Y", value, <<"Y">>, <<"byte">>)
           b == Get("blockData", value, <<"block_states", "data">>,
                    <<"compound", "long_array">>)
           c == Get("skyLight", value, <<"SkyLight">>, <<"byte_array">>)
           d == Get("blockLight", value, <<"BlockLight">>, <<"byte_array">>)
           blocks == ValueAt(section, <<"block_states", "data">>, "long_array")
           sky == ValueAt(section, <<"SkyLight">>, "byte_array")
           light == ValueAt(section, <<"BlockLight">>, "byte_array")
           ofBlocks == IF q = "blockData" THEN blocks ELSE <<>>
           ofSky == IF q = "skyLight" THEN sky ELSE <<>>
           ofLight == IF q = "blockLight" THEN light ELSE <<>>
<1>1. extractSection(value) = <<a, b, c, d>>
  BY DEF extractSection, extractBlockStatesFromSection
<1>2. Copies(a, "Y", ValueAt(section, <<"Y">>, "byte"))
  <2>1. /\ "Y" # "none" /\ "byte" # "missing"
        /\ section.type = "compound" /\ HasTags(section)
        /\ At(section, <<"Y">>).type \in {"byte", "missing"}
    BY DEF IsSection
  <2> QED  BY <2>1, PieceOne
<1>3. Copies(b, "blockData", blocks)
  <2>1. /\ "blockData" # "none" /\ "long_array" # "missing"
        /\ section.type = "compound" /\ HasTags(section)
        /\ At(section, <<"block_states">>).type \in {"compound", "missing"}
        /\ HasTags(At(section, <<"block_states">>))
        /\ At(section, <<"block_states", "data">>).type \in {"long_array", "missing"}
    BY DEF IsSection
  <2> QED  BY <2>1, PieceTwo, Zenon
<1>4. Copies(c, "skyLight", sky) /\ Copies(d, "blockLight", light)
  <2>1. /\ "skyLight" # "none" /\ "blockLight" # "none" /\ "byte_array" # "missing"
        /\ section.type = "compound" /\ HasTags(section)
        /\ At(section, <<"SkyLight">>).type \in {"byte_array", "missing"}
        /\ At(section, <<"BlockLight">>).type \in {"byte_array", "missing"}
    BY DEF IsSection
  <2> QED  BY <2>1, PieceOne
<1>5. blocks \in Seq(Int) /\ sky \in Seq(Int) /\ light \in Seq(Int) /\ <<>> \in Seq(Int)
  BY EmptySeq DEF IsSection
<1>6. OfSection(section, q) = CASE q = "blockData" -> blocks
                                [] q = "skyLight" -> sky
                                [] q = "blockLight" -> light
                                [] OTHER -> <<>>
  BY DEF OfSection
<1> HIDE DEF value, a, b, c, d, blocks, sky, light
<1>7. /\ Gives(<<a>>, q, <<>>) /\ Gives(<<b>>, q, ofBlocks)
      /\ Gives(<<c>>, q, ofSky) /\ Gives(<<d>>, q, ofLight)
  <2>1. Gives(<<a>>, q, IF q = "Y" THEN ValueAt(section, <<"Y">>, "byte") ELSE <<>>)
    <3>1. "Y" \notin Parts
      BY DEF Parts
    <3> QED  BY <1>2, <3>1, CopyGives
  <2>2. q # "Y"
    BY DEF Parts
  <2>3. Gives(<<a>>, q, <<>>)
    BY <2>1, <2>2
  <2>4. Gives(<<b>>, q, ofBlocks)
    BY <1>3, <1>5, CopyGives
  <2>5. Gives(<<c>>, q, ofSky)
    BY <1>4, <1>5, CopyGives
  <2>6. Gives(<<d>>, q, ofLight)
    BY <1>4, <1>5, CopyGives
  <2> QED  BY <2>3, <2>4, <2>5, <2>6
<1>8. ofBlocks \in Seq(Int) /\ ofSky \in Seq(Int) /\ ofLight \in Seq(Int)
  BY <1>5
<1>9. (<<>> \o ofBlocks) \o (ofSky \o ofLight) = OfSection(section, q)
  <2>1. \A s \in Seq(Int) : <<>> \o s = s /\ s \o <<>> = s
    BY ConcatEmptySeq
  <2> QED  BY <1>5, <1>6, <2>1
<1> HIDE DEF ofBlocks, ofSky, ofLight
<1> DEFINE S == {a, b, c, d}
<1>10. <<a>> \in Seq(S) /\ <<b>> \in Seq(S) /\ <<c>> \in Seq(S) /\ <<d>> \in Seq(S)
  OBVIOUS
<1> HIDE DEF S
<1>11. /\ Gives(<<a>> \o <<b>>, q, <<>> \o ofBlocks)
       /\ Gives(<<c>> \o <<d>>, q, ofSky \o ofLight)
  BY <1>5, <1>7, <1>8, <1>10, GivesBoth
<1>12. /\ <<a>> \o <<b>> \in Seq(S) /\ <<c>> \o <<d>> \in Seq(S)
       /\ <<>> \o ofBlocks \in Seq(Int) /\ ofSky \o ofLight \in Seq(Int)
  BY <1>5, <1>8, <1>10, ConcatProperties
<1>13. Gives((<<a>> \o <<b>>) \o (<<c>> \o <<d>>), q,
             (<<>> \o ofBlocks) \o (ofSky \o ofLight))
  BY <1>11, <1>12, GivesBoth
<1>14. (<<a>> \o <<b>>) \o (<<c>> \o <<d>>) = <<a, b, c, d>>
  BY FourInTurn
<1>15. Gives(extractSection(value), q, OfSection(section, q))
  BY <1>1, <1>9, <1>13, <1>14
<1>16. OfSection(section, q) \in Seq(Int)
  BY <1>5, <1>6
<1> QED  BY <1>15, <1>16 DEF value

(* In the second pass it gives its biomes.                                 *)
LEMMA BiomesGive ==
    ASSUME NEW section, IsSection(section), NEW q \in Parts
    PROVE  /\ Gives(extractBiomes(section.value), q, OfBiomes(section, q))
           /\ OfBiomes(section, q) \in Seq(Int)
<1> DEFINE v == ValueAt(section, <<"biomes", "data">>, "long_array")
           a == Get("biomeData", section.value, <<"biomes", "data">>,
                    <<"compound", "long_array">>)
<1>1. /\ "biomeData" # "none" /\ "long_array" # "missing"
      /\ section.type = "compound" /\ HasTags(section)
      /\ At(section, <<"biomes">>).type \in {"compound", "missing"}
      /\ HasTags(At(section, <<"biomes">>))
      /\ At(section, <<"biomes", "data">>).type \in {"long_array", "missing"}
      /\ v \in Seq(Int)
  BY DEF IsSection
<1>2. Copies(a, "biomeData", v)
  BY <1>1, PieceTwo, Zenon
<1>3. /\ extractBiomes(section.value) = <<a>>
      /\ OfBiomes(section, q) = IF q = "biomeData" THEN v ELSE <<>>
  BY DEF extractBiomes, OfBiomes
<1> HIDE DEF a, v
<1>4. Gives(<<a>>, q, IF q = "biomeData" THEN v ELSE <<>>)
  BY <1>1, <1>2, CopyGives
<1>5. <<>> \in Seq(Int)
  OBVIOUS
<1> QED  BY <1>1, <1>3, <1>4, <1>5

(* The tree of a chunk in the game's format.                               *)
IsStored(tree) == tree.type = "compound" /\ IsChunk(tree) /\ IsTree(tree)

(* Pieces that give v to a part.                                           *)
AreFor(pieces, q, v) ==
    v \in Seq(Int) /\ (\E S : pieces \in Seq(S)) /\ Gives(pieces, q, v)

(* One group of pieces after another gives what both give.                 *)
LEMMA AreForBoth ==
    ASSUME NEW s, NEW t, NEW q, NEW v, NEW w, AreFor(s, q, v), AreFor(t, q, w)
    PROVE  AreFor(s \o t, q, v \o w)
<1>1. PICK S : s \in Seq(S)
  BY DEF AreFor
<1>2. PICK T : t \in Seq(T)
  BY DEF AreFor
<1> DEFINE U == S \cup T
<1>3. S \subseteq U /\ T \subseteq U
  OBVIOUS
<1> HIDE DEF U
<1>4. s \in Seq(U) /\ t \in Seq(U)
  BY <1>1, <1>2, <1>3, SeqGrows
<1>5. v \in Seq(Int) /\ w \in Seq(Int) /\ Gives(s, q, v) /\ Gives(t, q, w)
  BY DEF AreFor
<1>6. Gives(s \o t, q, v \o w)
  BY <1>4, <1>5, GivesBoth
<1>7. s \o t \in Seq(U) /\ v \o w \in Seq(Int)
  BY <1>4, <1>5, ConcatProperties
<1> QED  BY <1>6, <1>7 DEF AreFor

(* The sections of a chunk in the format are sections in the format.       *)
LEMMA StoredSections ==
    ASSUME NEW tree, IsStored(tree)
    PROVE  /\ Len(Sections(tree)) \in Nat
           /\ DOMAIN Sections(tree) = 1..Len(Sections(tree))
           /\ \A i \in 1..Len(Sections(tree)) : IsSection(Sections(tree)[i])
<1> DEFINE sections == Sections(tree)
<1>1. IsChunk(tree) /\ IsTree(tree)
  BY DEF IsStored
<1>2. sections = [i \in 1..Len(sections) |-> sections[i]] /\ Len(sections) \in Nat
  BY <1>1 DEF IsTree
<1>3. DOMAIN sections = 1..Len(sections)
  <2> HIDE DEF sections
  <2>1. DOMAIN [i \in 1..Len(sections) |-> sections[i]] = 1..Len(sections)
    OBVIOUS
  <2> QED  BY <1>2, <2>1
<1>4. ASSUME NEW i \in DOMAIN sections PROVE IsSection(sections[i])
  <2>1. /\ HasTags(sections[i])
        /\ \A part \in {"block_states", "biomes"} :
               /\ HasTags(At(sections[i], <<part>>))
               /\ ValueAt(sections[i], <<part, "data">>, "long_array") \in Seq(Int)
        /\ \A part \in {"SkyLight", "BlockLight"} :
               ValueAt(sections[i], <<part>>, "byte_array") \in Seq(Int)
    BY <1>1, <1>4 DEF IsTree, HasTags, Missing
  <2>2. /\ sections[i].type = "compound"
        /\ At(sections[i], <<"Y">>).type \in {"byte", "missing"}
        /\ At(sections[i], <<"SkyLight">>).type \in {"byte_array", "missing"}
        /\ At(sections[i], <<"BlockLight">>).type \in {"byte_array", "missing"}
        /\ \A part \in {"block_states", "biomes"} :
               /\ At(sections[i], <<part>>).type \in {"compound", "missing"}
               /\ At(sections[i], <<part, "data">>).type \in {"long_array", "missing"}
    BY <1>1, <1>4 DEF IsChunk
  <2> HIDE DEF sections
  <2> QED  BY <2>1, <2>2 DEF IsSection
<1> QED  BY <1>2, <1>3, <1>4

(* What the sections of a chunk have for a part.                           *)
OfEach(tree, q) ==
    [i \in DOMAIN Sections(tree) |-> OfSection(Sections(tree)[i], q)]
BiomesOfEach(tree, q) ==
    [i \in DOMAIN Sections(tree) |-> OfBiomes(Sections(tree)[i], q)]

(* The pieces over the sections: the list, if there is one.                *)
LEMMA SectionsPiece ==
    ASSUME NEW tree, IsStored(tree), NEW q \in Parts
    PROVE  LET piece == Get("sections", tree.value, <<"sections">>, <<"list">>)
           IN  IF piece.part = "sections" THEN piece.value = Sections(tree)
               ELSE Len(Sections(tree)) = 0 /\ Gives(<<piece>>, q, <<>>)
<1> DEFINE piece == Get("sections", tree.value, <<"sections">>, <<"list">>)
<1>1. Copies(piece, "sections", Sections(tree))
  <2>1. /\ "sections" # "none" /\ "list" # "missing" /\ tree.type = "compound"
        /\ HasTags(tree) /\ At(tree, <<"sections">>).type \in {"list", "missing"}
    BY DEF IsStored, IsChunk, IsTree, HasTags, Missing
  <2>2. Sections(tree) = ValueAt(tree, <<"sections">>, "list")
    BY DEF Sections
  <2> QED  BY <2>1, <2>2, PieceOne
<1> HIDE DEF piece
<1>2. CASE piece.part = "sections"
  <2>1. piece.value = Sections(tree)
    BY <1>1, <1>2 DEF Copies
  <2> QED  BY <1>2, <2>1 DEF piece
<1>3. CASE piece.part # "sections"
  <2>1. piece.ok /\ piece.part = "none" /\ Sections(tree) = <<>>
    BY <1>1, <1>3 DEF Copies
  <2>2. piece.part # q /\ <<>> \in Seq(Int)
    BY <2>1, EmptySeq DEF Parts
  <2>3. Gives(<<piece>>, q, <<>>)
    BY <2>1, <2>2, GivesOne
  <2>4. Len(Sections(tree)) = 0
    BY <2>1
  <2> QED  BY <1>3, <2>3, <2>4 DEF piece
<1> QED  BY <1>2, <1>3

(* What is extracted from each section, in turn, if there is a list of     *)
(* them.                                                                   *)
LEMMA PiecesOfSections ==
    ASSUME NEW tree, IsStored(tree), NEW q \in Parts,
           NEW extracted, NEW vs, DOMAIN vs = DOMAIN Sections(tree),
           vs = [i \in DOMAIN vs |-> vs[i]],
           \A i \in DOMAIN vs : AreFor(extracted[i], q, vs[i]),
           NEW pieces,
           LET piece == Get("sections", tree.value, <<"sections">>, <<"list">>)
           IN  pieces = IF piece.part = "sections"
                        THEN FlattenSeq([i \in DOMAIN piece.value |->
                                 IF piece.value[i].type = "compound" THEN extracted[i]
                                 ELSE <<BadAccess>>])
                        ELSE <<piece>>
    PROVE  AreFor(pieces, q, FlattenSeq(vs))
<1> DEFINE list == Sections(tree)
           n == Len(list)
           piece == Get("sections", tree.value, <<"sections">>, <<"list">>)
           all == [i \in 1..n |-> extracted[i]]
           indices == UNION {DOMAIN extracted[i] : i \in 1..n}
           S == {extracted[i][j] : i \in 1..n, j \in indices}
<1>1. n \in Nat /\ DOMAIN list = 1..n /\ \A i \in 1..n : IsSection(list[i])
  BY StoredSections
<1>2. IF piece.part = "sections" THEN piece.value = list
      ELSE n = 0 /\ Gives(<<piece>>, q, <<>>)
  BY SectionsPiece
<1>3. pieces = IF piece.part = "sections"
               THEN FlattenSeq([i \in DOMAIN piece.value |->
                        IF piece.value[i].type = "compound" THEN extracted[i]
                        ELSE <<BadAccess>>])
               ELSE <<piece>>
  OBVIOUS
<1>4. DOMAIN vs = 1..n
  BY <1>1
<1> HIDE DEF list, n, piece
<1>5. all \in Seq(Seq(S)) /\ Len(all) = n
  <2>1. ASSUME NEW i \in 1..n PROVE extracted[i] \in Seq(S)
    <3>1. PICK T : extracted[i] \in Seq(T)
      BY <1>4 DEF AreFor
    <3>2. \A j \in 1..Len(extracted[i]) : extracted[i][j] \in S
      BY <3>1
    <3> HIDE DEF S
    <3>3. Len(extracted[i]) \in Nat /\ extracted[i] \in [1..Len(extracted[i]) -> T]
      BY <3>1
    <3>4. extracted[i] \in [1..Len(extracted[i]) -> S]
      BY <3>2, <3>3
    <3> QED  BY <3>3, <3>4, FunctionIsSeq
  <2> HIDE DEF S
  <2>2. all \in [1..n -> Seq(S)]
    BY <2>1
  <2> QED  BY <1>1, <2>2
<1> HIDE DEF S
<1>6. vs \in Seq(Seq(Int)) /\ Len(vs) = n
  <2>1. \A i \in 1..n : vs[i] \in Seq(Int)
    BY <1>4 DEF AreFor
  <2>2. vs \in [1..n -> Seq(Int)]
    BY <1>4, <2>1
  <2> QED  BY <1>1, <2>2
<1>7. \A i \in 1..n : Gives(all[i], q, vs[i])
  BY <1>4 DEF AreFor
<1> HIDE DEF all
<1>8. /\ FlattenSeq(all) \in Seq(S) /\ FlattenSeq(vs) \in Seq(Int)
      /\ Gives(FlattenSeq(all), q, FlattenSeq(vs))
  BY <1>5, <1>6, <1>7, GivesInTurn
<1>9. CASE piece.part = "sections"
  <2>1. piece.value = list /\ \A i \in 1..n : list[i].type = "compound"
    BY <1>1, <1>2, <1>9 DEF IsSection
  <2>2. all = [i \in DOMAIN piece.value |->
                   IF piece.value[i].type = "compound" THEN extracted[i]
                   ELSE <<BadAccess>>]
    BY <1>1, <2>1 DEF all
  <2>3. pieces = FlattenSeq(all)
    BY <1>3, <1>9, <2>2
  <2> QED  BY <1>8, <2>3 DEF AreFor
<1>10. CASE piece.part # "sections"
  <2>1. n = 0 /\ Gives(<<piece>>, q, <<>>) /\ pieces = <<piece>>
    BY <1>2, <1>3, <1>10
  <2>2. vs = <<>>
    BY <1>6, <2>1, EmptySeq
  <2>3. FlattenSeq(vs) = <<>>
    BY <2>2, FlattenEmpty
  <2>4. <<piece>> \in Seq({piece}) /\ <<>> \in Seq(Int)
    OBVIOUS
  <2> QED  BY <2>1, <2>3, <2>4 DEF AreFor
<1> QED  BY <1>9, <1>10

(* The first pass: the blocks and the light of every section.              *)
LEMMA BlocksOfSections ==
    ASSUME NEW tree, IsStored(tree), NEW q \in Parts
    PROVE  AreFor(extractSectionsData(tree.value), q, FlattenSeq(OfEach(tree, q)))
<1> DEFINE list == Sections(tree)
           vs == OfEach(tree, q)
           extracted == [i \in DOMAIN list |-> extractSection(list[i].value)]
           piece == Get("sections", tree.value, <<"sections">>, <<"list">>)
<1>1. vs = [i \in DOMAIN list |-> OfSection(list[i], q)]
  BY DEF OfEach
<1>2. \A i \in DOMAIN list : IsSection(list[i])
  BY StoredSections
<1>3. extractSectionsData(tree.value) =
          IF piece.part = "sections"
          THEN FlattenSeq([i \in DOMAIN piece.value |->
                   IF piece.value[i].type = "compound"
                   THEN extractSection(piece.value[i].value) ELSE <<BadAccess>>])
          ELSE <<piece>>
  BY DEF extractSectionsData, OverSections, ForEach
<1>4. piece.part = "sections" => piece.value = list
  BY SectionsPiece
<1>5. ASSUME NEW i \in DOMAIN list
      PROVE  AreFor(extractSection(list[i].value), q, OfSection(list[i], q))
  <2> DEFINE e == extractSection(list[i].value)
  <2>1. e \in Seq({e[1], e[2], e[3], e[4]})
    BY DEF extractSection
  <2>2. Gives(e, q, OfSection(list[i], q)) /\ OfSection(list[i], q) \in Seq(Int)
    BY <1>2, SectionGives
  <2> HIDE DEF e
  <2>3. AreFor(e, q, OfSection(list[i], q))
    BY <2>1, <2>2 DEF AreFor
  <2> QED  BY <2>3 DEF e
<1> HIDE DEF piece, vs, list
<1>6. \A i \in DOMAIN list : AreFor(extracted[i], q, vs[i])
  BY <1>1, <1>5
<1>7. extractSectionsData(tree.value) =
          IF piece.part = "sections"
          THEN FlattenSeq([i \in DOMAIN piece.value |->
                   IF piece.value[i].type = "compound" THEN extracted[i]
                   ELSE <<BadAccess>>])
          ELSE <<piece>>
  BY <1>3, <1>4
<1>8. DOMAIN vs = DOMAIN list /\ vs = [i \in DOMAIN vs |-> vs[i]]
  BY <1>1
<1> HIDE DEF extracted
<1> QED  BY <1>6, <1>7, <1>8, PiecesOfSections DEF piece, vs, list

(* The second pass: the biomes of every section.                           *)
LEMMA BiomesOfSections ==
    ASSUME NEW tree, IsStored(tree), NEW q \in Parts
    PROVE  AreFor(extractBiomesFromSections(tree.value), q,
                  FlattenSeq(BiomesOfEach(tree, q)))
<1> DEFINE list == Sections(tree)
           vs == BiomesOfEach(tree, q)
           extracted == [i \in DOMAIN list |-> extractBiomes(list[i].value)]
           piece == Get("sections", tree.value, <<"sections">>, <<"list">>)
<1>1. vs = [i \in DOMAIN list |-> OfBiomes(list[i], q)]
  BY DEF BiomesOfEach
<1>2. \A i \in DOMAIN list : IsSection(list[i])
  BY StoredSections
<1>3. extractBiomesFromSections(tree.value) =
          IF piece.part = "sections"
          THEN FlattenSeq([i \in DOMAIN piece.value |->
                   IF piece.value[i].type = "compound"
                   THEN extractBiomes(piece.value[i].value) ELSE <<BadAccess>>])
          ELSE <<piece>>
  BY DEF extractBiomesFromSections, OverSections, ForEach
<1>4. piece.part = "sections" => piece.value = list
  BY SectionsPiece
<1>5. ASSUME NEW i \in DOMAIN list
      PROVE  AreFor(extractBiomes(list[i].value), q, OfBiomes(list[i], q))
  <2> DEFINE e == extractBiomes(list[i].value)
  <2>1. e \in Seq({e[1]})
    BY DEF extractBiomes
  <2>2. Gives(e, q, OfBiomes(list[i], q)) /\ OfBiomes(list[i], q) \in Seq(Int)
    BY <1>2, BiomesGive
  <2> HIDE DEF e
  <2>3. AreFor(e, q, OfBiomes(list[i], q))
    BY <2>1, <2>2 DEF AreFor
  <2> QED  BY <2>3 DEF e
<1> HIDE DEF piece, vs, list
<1>6. \A i \in DOMAIN list : AreFor(extracted[i], q, vs[i])
  BY <1>1, <1>5
<1>7. extractBiomesFromSections(tree.value) =
          IF piece.part = "sections"
          THEN FlattenSeq([i \in DOMAIN piece.value |->
                   IF piece.value[i].type = "compound" THEN extracted[i]
                   ELSE <<BadAccess>>])
          ELSE <<piece>>
  BY <1>3, <1>4
<1>8. DOMAIN vs = DOMAIN list /\ vs = [i \in DOMAIN vs |-> vs[i]]
  BY <1>1
<1> HIDE DEF extracted
<1> QED  BY <1>6, <1>7, <1>8, PiecesOfSections DEF piece, vs, list

(* The heightmaps and the block entities are no lists of compounds.        *)
LEMMA OthersOfTree ==
    ASSUME NEW tree, IsStored(tree), NEW q \in Parts
    PROVE  /\ AreFor(extractHeightmaps(tree.value), q,
                     IF q = "heightmaps" THEN StoredParts(tree).heightmaps ELSE <<>>)
           /\ AreFor(extractBlockEntities(tree.value), q, <<>>)
<1> DEFINE v == ValueAt(tree, <<"Heightmaps", "MOTION_BLOCKING">>, "long_array")
           w == ValueAt(tree, <<"block_entities">>, "list")
           a == Get("heightmaps", tree.value, <<"Heightmaps", "MOTION_BLOCKING">>,
                    <<"compound", "long_array">>)
           b == Get("block_entities", tree.value, <<"block_entities">>, <<"list">>)
<1>1. /\ tree.type = "compound" /\ HasTags(tree)
      /\ At(tree, <<"Heightmaps">>).type \in {"compound", "missing"}
      /\ HasTags(At(tree, <<"Heightmaps">>))
      /\ At(tree, <<"Heightmaps", "MOTION_BLOCKING">>).type \in {"long_array", "missing"}
      /\ At(tree, <<"block_entities">>).type \in {"list", "missing"}
      /\ v \in Seq(Int) /\ <<>> \in Seq(Int)
  BY EmptySeq DEF IsStored, IsChunk, IsTree, HasTags, Missing
<1>2. /\ "heightmaps" # "none" /\ "long_array" # "missing"
      /\ "block_entities" # "none" /\ "list" # "missing"
      /\ "block_entities" \notin Parts
  BY DEF Parts
<1>3. Copies(a, "heightmaps", v)
  BY <1>1, <1>2, PieceTwo, Zenon
<1>4. Copies(b, "block_entities", w)
  BY <1>1, <1>2, PieceOne
<1>5. /\ extractHeightmaps(tree.value) = <<a>>
      /\ extractBlockEntities(tree.value) = <<b>>
      /\ StoredParts(tree).heightmaps = v
  BY DEF extractHeightmaps, extractBlockEntities, StoredParts
<1> HIDE DEF a, b, v, w
<1>6. Gives(<<a>>, q, IF q = "heightmaps" THEN v ELSE <<>>)
  BY <1>1, <1>3, CopyGives
<1>7. Gives(<<b>>, q, <<>>)
  <2>1. Gives(<<b>>, q, IF q = "block_entities" THEN w ELSE <<>>)
    BY <1>2, <1>4, CopyGives
  <2> QED  BY <1>2, <2>1
<1>8. <<a>> \in Seq({a}) /\ <<b>> \in Seq({b})
  OBVIOUS
<1> QED  BY <1>1, <1>5, <1>6, <1>7, <1>8 DEF AreFor

(* Sections that have nothing for a part give it nothing.                  *)
LEMMA PartsOfSections ==
    ASSUME NEW tree, IsStored(tree), NEW q \in Parts
    PROVE  FlattenSeq(OfEach(tree, q))
               \o ((IF q = "heightmaps" THEN StoredParts(tree).heightmaps ELSE <<>>)
                    \o FlattenSeq(BiomesOfEach(tree, q)))
           = StoredParts(tree)[q]
<1> DEFINE list == Sections(tree)
           n == Len(list)
           blocks == FlattenSeq(OfEach(tree, q))
           biomes == FlattenSeq(BiomesOfEach(tree, q))
           heightmaps == StoredParts(tree).heightmaps
<1>1. n \in Nat /\ DOMAIN list = 1..n
  BY StoredSections
<1>2. /\ OfEach(tree, q) = [i \in 1..n |-> OfSection(list[i], q)]
      /\ BiomesOfEach(tree, q) = [i \in 1..n |-> OfBiomes(list[i], q)]
  BY <1>1 DEF OfEach, BiomesOfEach
<1>3. q \in {"blockData", "skyLight", "blockLight"} =>
          blocks = StoredParts(tree)[q]
  <2>1. CASE q = "blockData"
    BY <1>1, <2>1 DEF OfEach, OfSection, StoredParts, OfSections
  <2>2. CASE q = "skyLight"
    BY <1>1, <2>2 DEF OfEach, OfSection, StoredParts, OfSections
  <2>3. CASE q = "blockLight"
    BY <1>1, <2>3 DEF OfEach, OfSection, StoredParts, OfSections
  <2> QED  BY <2>1, <2>2, <2>3
<1>4. q \in {"biomeData", "heightmaps"} => blocks = <<>>
  <2> SUFFICES ASSUME q \in {"biomeData", "heightmaps"} PROVE blocks = <<>>
    OBVIOUS
  <2>1. OfEach(tree, q) = [i \in 1..n |-> <<>>]
    BY <1>2 DEF OfSection
  <2> HIDE DEF n
  <2> QED  BY <1>1, <2>1, FlattenNothing
<1>5. q = "biomeData" => biomes = StoredParts(tree)[q]
  BY DEF BiomesOfEach, OfBiomes, StoredParts, OfSections
<1>6. q # "biomeData" => biomes = <<>>
  <2> SUFFICES ASSUME q # "biomeData" PROVE biomes = <<>>
    OBVIOUS
  <2>1. BiomesOfEach(tree, q) = [i \in 1..n |-> <<>>]
    BY <1>2 DEF OfBiomes
  <2> HIDE DEF n
  <2> QED  BY <1>1, <2>1, FlattenNothing
<1>7. blocks \in Seq(Int) /\ biomes \in Seq(Int) /\ heightmaps \in Seq(Int)
  <2>1. "heightmaps" \in Parts
    BY DEF Parts
  <2>2. heightmaps \in Seq(Int)
    BY <2>1, OthersOfTree DEF AreFor
  <2> QED  BY <2>2, BlocksOfSections, BiomesOfSections DEF AreFor
<1>8. q \in {"blockData", "skyLight", "blockLight", "biomeData", "heightmaps"}
  BY DEF Parts
<1>9. \A s \in Seq(Int) : <<>> \o s = s /\ s \o <<>> = s
  BY ConcatEmptySeq
<1>10. <<>> \in Seq(Int) /\ (q = "heightmaps" => heightmaps = StoredParts(tree)[q])
  BY DEF StoredParts
<1> HIDE DEF blocks, biomes, heightmaps
<1>11. blocks \o ((IF q = "heightmaps" THEN heightmaps ELSE <<>>) \o biomes)
       = StoredParts(tree)[q]
  BY <1>3, <1>4, <1>5, <1>6, <1>7, <1>8, <1>9, <1>10
<1> QED  BY <1>11 DEF blocks, biomes, heightmaps

(* generateEmptyChunk leaves every part empty.                             *)
LEMMA EmptyChunk ==
    /\ DOMAIN emptyChunk = {"x", "z"} \cup Parts
    /\ \A q \in Parts : emptyChunk[q] = <<>>
    /\ emptyChunk.x = requested[1] /\ emptyChunk.z = requested[2]
BY DEF emptyChunk, Parts

(* The fold over the pieces, when none of them throws: what each part gets *)
(* is what the pieces give it.                                             *)
LEMMA AllTaken ==
    ASSUME NEW tree, requested \in Int \X Int,
           NEW q \in Parts, NEW v, NEW any,
           NEW pieces \in Seq(any),
           pieces = extractSectionsData(tree) \o extractHeightmaps(tree)
                    \o extractBiomesFromSections(tree) \o extractBlockEntities(tree),
           \A part \in Parts : \E w : Gives(pieces, part, w),
           Gives(pieces, q, v), v \in Seq(Int)
    PROVE  extractChunkDataFromNBT(tree)[q] = v
<1> DEFINE n == Len(pieces)
           IsTaken(i) == \A k \in 1..i : pieces[k].ok
           next(before, i) ==
               LET part == pieces[i].part
               IN  IF IsTaken(i) /\ part \in Parts
                   THEN [before EXCEPT ![part] = Appended(@, pieces[i].value)]
                   ELSE before
           taken[i \in 0..n] == IF i = 0 THEN emptyChunk ELSE next(taken[i - 1], i)
           IsFold(g) ==
               g = [i \in 0..n |-> IF i = 0 THEN emptyChunk ELSE next(g[i - 1], i)]
           keys == {"x", "z"} \cup Parts
           S == {r \in [keys -> Int \cup Seq(Int)] : \A p \in Parts : r[p] \in Seq(Int)}
           step == [p \in (1..n) \X S |-> next(p[2], p[1])]
<1>1. n \in Nat
  BY LenProperties
<1>2. emptyChunk \in S
  <2>1. requested[1] \in Int /\ requested[2] \in Int /\ <<>> \in Seq(Int)
    BY EmptySeq
  <2>2. emptyChunk = [key \in keys |-> emptyChunk[key]]
    BY DEF emptyChunk, Parts
  <2>3. \A key \in keys : emptyChunk[key] \in Int \cup Seq(Int)
    BY <2>1, EmptyChunk
  <2>4. \A p \in Parts : emptyChunk[p] \in Seq(Int)
    BY <2>1, EmptyChunk
  <2> HIDE DEF keys
  <2>5. emptyChunk \in [keys -> Int \cup Seq(Int)]
    BY <2>2, <2>3
  <2> QED  BY <2>4, <2>5
<1>3. ASSUME NEW i \in 1..n
      PROVE  IsTaken(i) /\ (pieces[i].part \in Parts => pieces[i].value \in Seq(Int))
  <2>1. \A k \in 1..n : pieces[k].ok
    BY DEF Gives
  <2>2. i \in 1..n /\ 1..i \subseteq 1..n
    BY <1>1
  <2>3. \A part \in Parts : pieces[i].part = part => pieces[i].value \in Seq(Int)
    BY DEF Gives
  <2> QED  BY <2>1, <2>2, <2>3
<1>4. ASSUME NEW i \in 1..n, NEW r \in S
      PROVE  /\ next(r, i) \in S
             /\ next(r, i)[q] = IF pieces[i].part = q THEN r[q] \o pieces[i].value
                                ELSE r[q]
  <2> DEFINE part == pieces[i].part
             value == pieces[i].value
  <2>1. next(r, i) = IF part \in Parts THEN [r EXCEPT ![part] = r[part] \o value] ELSE r
    BY <1>3 DEF Appended
  <2>2. part \in Parts => value \in Seq(Int)
    BY <1>3
  <2> HIDE DEF part, value, next
  <2>3. CASE part \notin Parts
    BY <2>1, <2>3 DEF part
  <2>4. CASE part \in Parts
    <3>1. r[part] \in Seq(Int) /\ value \in Seq(Int)
      BY <2>2, <2>4
    <3>2. r[part] \o value \in Seq(Int)
      BY <3>1, ConcatProperties
    <3> DEFINE longer == r[part] \o value
    <3>3. next(r, i) = [r EXCEPT ![part] = longer]
      BY <2>1, <2>4
    <3>4. part \in keys /\ q \in keys /\ r \in [keys -> Int \cup Seq(Int)]
      BY <2>4
    <3> HIDE DEF longer, keys
    <3>5. next(r, i) \in [keys -> Int \cup Seq(Int)]
      BY <3>2, <3>3, <3>4 DEF longer
    <3>6. \A p \in Parts : next(r, i)[p] = IF p = part THEN longer ELSE r[p]
      <4>1. Parts \subseteq keys
        BY DEF keys
      <4> QED  BY <3>3, <3>4, <4>1
    <3>7. next(r, i) \in S
      BY <3>2, <3>5, <3>6 DEF longer
    <3> QED  BY <3>6, <3>7 DEF longer, part, value
  <2> QED  BY <2>3, <2>4
<1> HIDE DEF next, S, keys
<1>5. step \in [(1..n) \X S -> S]
  BY <1>4
<1>6. PICK f \in [0..n -> S] : IsIteration(f, n, emptyChunk, step)
  <2> HIDE DEF step, n
  <2> QED  BY <1>1, <1>2, <1>5, Iteration
<1>7. IsFold(f)
  <2>1. ASSUME NEW i \in 0..n
        PROVE  f[i] = IF i = 0 THEN emptyChunk ELSE next(f[i - 1], i)
    <3>1. CASE i = 0
      BY <1>6, <3>1 DEF IsIteration
    <3>2. CASE i # 0
      <4>1. i \in 1..n /\ i - 1 \in 0..n
        BY <1>1, <3>2
      <4>2. f[i - 1] \in S /\ f[i] = step[<<i, f[i - 1]>>]
        BY <1>6, <4>1 DEF IsIteration
      <4> QED  BY <3>2, <4>1, <4>2
    <3> QED  BY <3>1, <3>2
  <2>2. f = [i \in 0..n |-> f[i]]
    BY <1>6
  <2> HIDE DEF n
  <2> QED  BY <2>1, <2>2
<1>8. IsFold(taken)
  BY <1>7
<1>9. extractChunkDataFromNBT(tree) = taken[n]
  BY DEF extractChunkDataFromNBT, next
<1> HIDE DEF taken, n, step
<1>10. 0..n \subseteq {i \in 0..n : taken[i] \in S}
  <2> DEFINE Good == {i \in 0..n : taken[i] \in S}
  <2>1. 0 \in Good
    BY <1>1, <1>2, <1>8
  <2>2. ASSUME NEW i \in 0..(n - 1), i \in Good PROVE i + 1 \in Good
    <3> DEFINE j == i + 1
    <3>1. j \in 1..n /\ j \in 0..n /\ j - 1 = i /\ j # 0
      BY <1>1
    <3> HIDE DEF j
    <3>2. taken[j] = next(taken[j - 1], j) /\ taken[j - 1] \in S
      BY <1>8, <2>2, <3>1
    <3>3. taken[j] \in S
      BY <1>4, <3>1, <3>2
    <3> QED  BY <3>1, <3>3 DEF j
  <2> HIDE DEF Good
  <2>3. 0..n \subseteq Good
    BY <1>1, <2>1, <2>2, Induction
  <2> QED  BY <2>3 DEF Good
<1> DEFINE h == [i \in 0..n |-> taken[i][q]]
<1>11. IsGathered(h, pieces, q, <<>>)
  <2>1. h[0] = <<>>
    BY <1>1, <1>8, EmptyChunk
  <2>2. ASSUME NEW i \in 1..n
        PROVE  h[i] = IF pieces[i].part = q THEN h[i - 1] \o pieces[i].value
                      ELSE h[i - 1]
    <3>1. i \in 0..n /\ i - 1 \in 0..n /\ i # 0
      BY <1>1
    <3>2. taken[i] = next(taken[i - 1], i) /\ taken[i - 1] \in S
      BY <1>8, <1>10, <3>1
    <3>3. h[i] = taken[i][q] /\ h[i - 1] = taken[i - 1][q]
      BY <3>1
    <3> HIDE DEF h
    <3> QED  BY <1>4, <3>2, <3>3
  <2> HIDE DEF h
  <2> QED  BY <2>1, <2>2 DEF IsGathered, n
<1>12. h[n] = <<>> \o v
  <2> HIDE DEF h
  <2>1. <<>> \in Seq(Int)
    BY EmptySeq
  <2> QED  BY <1>11, <2>1 DEF Gives, n
<1>13. <<>> \o v = v
  BY ConcatEmptySeq
<1>14. h[n] = taken[n][q]
  BY <1>1
<1> HIDE DEF h
<1> QED  BY <1>9, <1>12, <1>13, <1>14

(* From the tree of a chunk in the format, every part is extracted as it is *)
(* stored: all sections, in order, nothing twice and nothing else.         *)
LEMMA ExtractedIsStored ==
    ASSUME requested \in Int \X Int, NEW tree, IsStored(tree)
    PROVE  \A q \in Parts :
               extractChunkDataFromNBT(tree.value)[q] = StoredParts(tree)[q]
<1> DEFINE nbtRoot == tree.value
           a == extractSectionsData(nbtRoot)
           b == extractHeightmaps(nbtRoot)
           c == extractBiomesFromSections(nbtRoot)
           d == extractBlockEntities(nbtRoot)
           pieces == a \o b \o c \o d
           heightmaps(q) ==
               IF q = "heightmaps" THEN StoredParts(tree).heightmaps ELSE <<>>
           blocks(q) == FlattenSeq(OfEach(tree, q))
           biomes(q) == FlattenSeq(BiomesOfEach(tree, q))
<1>1. ASSUME NEW q \in Parts PROVE AreFor(pieces, q, StoredParts(tree)[q])
  <2>1. /\ AreFor(a, q, blocks(q)) /\ AreFor(b, q, heightmaps(q))
        /\ AreFor(c, q, biomes(q)) /\ AreFor(d, q, <<>>)
    BY BlocksOfSections, OthersOfTree, BiomesOfSections
  <2>2. blocks(q) \o (heightmaps(q) \o biomes(q)) = StoredParts(tree)[q]
    BY PartsOfSections
  <2> HIDE DEF a, b, c, d, blocks, heightmaps, biomes
  <2>3. AreFor(a \o b, q, blocks(q) \o heightmaps(q))
    BY <2>1, AreForBoth
  <2>4. AreFor((a \o b) \o c, q, (blocks(q) \o heightmaps(q)) \o biomes(q))
    BY <2>1, <2>3, AreForBoth
  <2>5. AreFor(((a \o b) \o c) \o d, q,
               ((blocks(q) \o heightmaps(q)) \o biomes(q)) \o <<>>)
    BY <2>1, <2>4, AreForBoth
  <2>6. ((blocks(q) \o heightmaps(q)) \o biomes(q)) \o <<>> = StoredParts(tree)[q]
    <3>1. /\ blocks(q) \in Seq(Int) /\ heightmaps(q) \in Seq(Int)
          /\ biomes(q) \in Seq(Int)
          /\ (blocks(q) \o heightmaps(q)) \o biomes(q) \in Seq(Int)
      BY <2>1, <2>4 DEF AreFor
    <3>2. (blocks(q) \o heightmaps(q)) \o biomes(q)
              = blocks(q) \o (heightmaps(q) \o biomes(q))
      BY <3>1, Regrouped
    <3>3. \A s \in Seq(Int) : s \o <<>> = s
      BY ConcatEmptySeq
    <3> QED  BY <2>2, <3>1, <3>2, <3>3
  <2> QED  BY <2>5, <2>6
<1> SUFFICES ASSUME NEW q \in Parts
             PROVE  extractChunkDataFromNBT(nbtRoot)[q] = StoredParts(tree)[q]
  OBVIOUS
<1>2. pieces = extractSectionsData(nbtRoot) \o extractHeightmaps(nbtRoot)
               \o extractBiomesFromSections(nbtRoot) \o extractBlockEntities(nbtRoot)
  OBVIOUS
<1> HIDE DEF pieces, nbtRoot
<1>3. PICK S : pieces \in Seq(S)
  BY <1>1 DEF AreFor
<1>4. \A part \in Parts : \E w : Gives(pieces, part, w)
  BY <1>1 DEF AreFor
<1>5. Gives(pieces, q, StoredParts(tree)[q]) /\ StoredParts(tree)[q] \in Seq(Int)
  BY <1>1 DEF AreFor
<1> QED  BY <1>2, <1>3, <1>4, <1>5, AllTaken

-----------------------------------------------------------------------------
(* The start                                                               *)

(* Nothing has been read, located or set when the program starts.          *)
LEMMA InvariantInit == StartInit => IInv
<1> SUFFICES ASSUME StartInit PROVE IInv
  OBVIOUS
<1>1. PICK d \in Disks : /\ world = d.world
                         /\ disk = [config |-> d.config, levels |-> d.levels]
  BY DEF StartInit
<1>2. DiskInv
  <2>1. d.config.state = "json" =>
            d.config.values = [i \in DOMAIN Settings |-> d.config.values[i]]
    BY DisksAssumption
  <2>2. ASSUME NEW c \in DOMAIN d.world
        PROVE  /\ c \in Int \X Int
               /\ d.world[c].bytes \in Seq(Byte) /\ d.world[c].size \in Nat
               /\ (d.world[c].size = 0 => d.world[c].bytes = <<>>)
               /\ IsTree(d.world[c].tree)
    BY DisksAssumption DEF Byte
  <2>3. /\ \A c \in DOMAIN d.world :
               IsWhole(d.world[c]) /\ IsChunk(d.world[c].tree) => IsReadBack(d.world[c])
        /\ \A name \in DOMAIN d.levels :
               LET level == d.levels[name]
               IN  level.end = "complete" /\ Ok(Parsed(level.bytes)) => IsReadBack(level)
    BY ParserAssumption
  <2> QED  BY <1>1, <2>1, <2>2, <2>3 DEF DiskInv
<1>3. StartedIsConfigured /\ LevelIsStored
  BY DEF StartInit, StartedIsConfigured, LevelIsStored
<1>4. ReadTypes
  BY DEF StartInit, Init, ReadTypes
<1>5. RegionInv /\ FileInv /\ BufferInv /\ ChunkInv /\ StoredInv
  BY DEF StartInit, Init, RegionInv, FileInv, BufferInv, ChunkInv, StoredInv
<1> QED  BY <1>2, <1>3, <1>4, <1>5 DEF IInv

(* A request goes on only in the steps of fetchChunk.                      *)
LEMMA ReadingUnchanged ==
    ASSUME IInv, UNCHANGED <<vars, disk>>
    PROVE  /\ DiskInv' /\ ReadTypes' /\ RegionInv' /\ FileInv' /\ BufferInv'
           /\ ChunkInv' /\ StoredInv'
<1>1. UNCHANGED <<emptyChunk, IsLocatable(requested)>>
  BY DEF vars, emptyChunk, IsLocatable
<1>2. DiskInv' /\ ReadTypes'
  BY DEF IInv, vars, DiskInv, ReadTypes
<1>3. RegionInv' /\ FileInv'
  BY <1>1 DEF IInv, vars, RegionInv, FileInv
<1>4. BufferInv' /\ ChunkInv'
  BY <1>1 DEF IInv, vars, BufferInv, ChunkInv
<1>5. StoredInv'
  BY <1>1 DEF IInv, vars, StoredInv, IsSound
<1> QED  BY <1>2, <1>3, <1>4, <1>5

(* The file has replaced what Config() had set before the start goes on.   *)
LEMMA loadConfigStep ==
    ASSUME IInv, loadConfig
    PROVE  IInv'
<1>1. /\ DiskInv' /\ ReadTypes' /\ RegionInv' /\ FileInv' /\ BufferInv'
      /\ ChunkInv' /\ StoredInv'
  BY ReadingUnchanged DEF loadConfig
<1>2. StartedIsConfigured'
  <2> DEFINE values == disk.config.values
  <2> SUFFICES ASSUME stage' \notin {"config", "failed"}
               PROVE  disk.config.state = "json" /\ settings' = values
    BY DEF StartedIsConfigured, loadConfig
  <2>1. /\ disk.config.state = "json" /\ AllSet(values)
        /\ settings' = Loaded(values)
    BY DEF loadConfig, Fails
  <2>2. values = [i \in DOMAIN Settings |-> values[i]]
    BY <2>1 DEF IInv, DiskInv
  <2>3. DOMAIN Settings = 1..9 /\ Len(Settings) = 9
    BY DEF Settings
  <2> HIDE DEF values
  <2>4. \A i \in DOMAIN Settings : IsSet(i, values)
    BY <2>1, <2>3 DEF AllSet, IsSet
  <2>5. Loaded(values) = [i \in DOMAIN Settings |-> values[i]]
    BY <2>4 DEF Loaded
  <2> QED  BY <2>1, <2>2, <2>5
<1>3. LevelIsStored'
  BY DEF loadConfig, Fails, LevelIsStored
<1> QED  BY <1>1, <1>2, <1>3 DEF IInv

(* What a tag that is read back has for a key is what getTagValue finds.   *)
LEMMA LevelIsRead ==
    ASSUME NEW level, IsReadBack(level), NEW tree, tree = Parsed(level.bytes),
           HasData(tree), NEW key \in DOMAIN LevelTypes
    PROVE  LET saved == At(level.tree, <<"Data", key>>)
           IN  getTagValues(tree.value[Name["Data"]].value)[key]
                   = IF saved.type = TagTypeOf(LevelTypes[key])
                     THEN AsMember(LevelTypes[key], saved.value)
                     ELSE Unassigned(LevelTypes[key])
<1> DEFINE data == tree.value[Name["Data"]]
           saved == At(level.tree, <<"Data", key>>)
<1>1. /\ level.tree.type = "compound" /\ tree.value = level.tree.value
      /\ Name["Data"] \in DOMAIN tree.value /\ data.type = "compound"
  BY DEF IsReadBack, HasData
<1>2. saved = Child(Child(level.tree, "Data"), key)
  BY AtTwo
<1>3. Child(level.tree, "Data") = data
  BY <1>1 DEF Child
<1>4. getTagValues(data.value)[key] = getTagValue(data.value, key)
  BY DEF getTagValues
<1>5. TagTypeOf(LevelTypes[key]) # "missing"
  BY LevelTypesAssumption DEF TagTypeOf
<1> HIDE DEF data, saved
<1>6. CASE Name[key] \in DOMAIN data.value
  <2>1. saved = data.value[Name[key]]
    BY <1>1, <1>2, <1>3, <1>6 DEF Child
  <2> QED  BY <1>4, <1>6, <2>1 DEF getTagValue, data, saved
<1>7. CASE Name[key] \notin DOMAIN data.value
  <2>1. saved.type = "missing"
    BY <1>2, <1>3, <1>7 DEF Child, Missing
  <2> QED  BY <1>4, <1>5, <1>7, <2>1 DEF getTagValue, data, saved
<1> QED  BY <1>6, <1>7

(* The start gets past level.dat with what is in it, and only so.          *)
LEMMA loadLevelDatStores ==
    ASSUME IInv, loadLevelDat
    PROVE  LevelIsStored'
<1> DEFINE name == getWorldName
           level == disk.levels[name]
           tree == levelTree(level)
<1>1. UNCHANGED <<disk, settings>> /\ getWorldName' = name
  BY DEF loadLevelDat, getWorldName
<1> SUFFICES ASSUME stage' \notin {"config", "level", "failed"}
             PROVE  /\ level.end = "complete"
                    /\ \A key \in DOMAIN LevelTypes :
                           LET saved == At(level.tree, <<"Data", key>>)
                           IN  worldData'[key]
                                   = IF saved.type = TagTypeOf(LevelTypes[key])
                                     THEN AsMember(LevelTypes[key], saved.value)
                                     ELSE Unassigned(LevelTypes[key])
  BY <1>1 DEF LevelIsStored
<1>2. /\ name \in DOMAIN disk.levels /\ HasData(tree)
      /\ worldData' = getTagValues(tree.value[Name["Data"]].value)
  BY DEF loadLevelDat, Fails
<1>3. level.end = "complete" /\ tree = Parsed(level.bytes)
  BY <1>2 DEF HasData, levelTree, decompressGzip, Ok, Got, Thrown
<1>4. IsReadBack(level)
  BY <1>2, <1>3 DEF IInv, DiskInv, HasData
<1> HIDE DEF level, tree
<1> QED  BY <1>2, <1>3, <1>4, LevelIsRead

(* Nothing else sets a setting, or a member of _worldData.                 *)
LEMMA StartSteps ==
    ASSUME IInv, loadLevelDat \/ LocateFirst \/ startThreads
    PROVE  IInv'
<1>1. /\ DiskInv' /\ ReadTypes' /\ RegionInv' /\ FileInv' /\ BufferInv'
      /\ ChunkInv' /\ StoredInv'
  BY ReadingUnchanged DEF loadLevelDat, LocateFirst, startThreads
<1>2. StartedIsConfigured'
  BY DEF IInv, StartedIsConfigured, loadLevelDat, LocateFirst, startThreads
<1>3. LevelIsStored'
  <2>1. CASE loadLevelDat
    BY <2>1, loadLevelDatStores
  <2>2. CASE LocateFirst \/ startThreads
    BY <2>2 DEF IInv, LevelIsStored, getWorldName, LocateFirst, startThreads
  <2> QED  BY <2>1, <2>2
<1> QED  BY <1>1, <1>2, <1>3 DEF IInv

-----------------------------------------------------------------------------
(* The steps of fetchChunk                                                 *)

(* What stays as it is while a request is served.                          *)
LEMMA RequestUnchanged ==
    ASSUME IInv, UNCHANGED <<startVars, world, requested>>
    PROVE  /\ DiskInv' /\ StartedIsConfigured' /\ LevelIsStored'
           /\ requested' \in Int \X Int
           /\ emptyChunk' = emptyChunk
           /\ IsLocatable(requested)' = IsLocatable(requested)
           /\ IsSound(requested)' = IsSound(requested)
<1>1. DiskInv' /\ StartedIsConfigured' /\ requested' \in Int \X Int
  BY DEF IInv, startVars, DiskInv, StartedIsConfigured, ReadTypes
<1>4. LevelIsStored'
  BY DEF IInv, startVars, LevelIsStored, getWorldName
<1>5. IsSound(requested)' = IsSound(requested)
  BY DEF IsSound, IsLocatable
<1>2. emptyChunk' = emptyChunk
  BY DEF emptyChunk
<1>3. IsLocatable(requested)' = IsLocatable(requested)
  BY DEF IsLocatable
<1> QED  BY <1>1, <1>2, <1>3, <1>4, <1>5

(* The region is that of the coordinates, if it is found.                  *)
LEMMA LocateStep ==
    ASSUME IInv, locateRegionFileByChunkCoord, UNCHANGED startVars
    PROVE  IInv'
<1> USE DEF locateRegionFileByChunkCoord
<1>1. /\ DiskInv' /\ StartedIsConfigured' /\ LevelIsStored'
      /\ requested' \in Int \X Int /\ emptyChunk' = emptyChunk
      /\ IsLocatable(requested)' = IsLocatable(requested)
      /\ IsSound(requested)' = IsSound(requested)
  BY RequestUnchanged
<1>2. pc = "locate" /\ pc' \in {"header", "done"}
  BY DEF Throw
<1>3. ReadTypes' /\ FileInv' /\ BufferInv'
  BY <1>1, <1>2 DEF IInv, ReadTypes, Places, FileInv, BufferInv
<1>4. RegionInv'
  BY <1>2 DEF RegionInv, Throw
<1>5. ChunkInv'
  BY <1>1, <1>2 DEF IInv, ChunkInv, Throw
<1>6. StoredInv'
  <2>1. ASSUME IsSound(requested) PROVE pc' = "header"
    <3>1. RegionOf(requested) \in Files
      BY <2>1 DEF IsSound, Files
    <3>2. <<Quotient(requested[1], RegionWidth), Quotient(requested[2], RegionWidth)>>
              = RegionOf(requested)
      BY <2>1, RegionIsFound DEF IInv, ReadTypes, IsSound
    <3> QED  BY <3>1, <3>2
  <2> QED  BY <1>1, <2>1 DEF StoredInv
<1> QED  BY <1>1, <1>3, <1>4, <1>5, <1>6 DEF IInv

(* Of the entries in the header, at most one has been used by the game for *)
(* a chunk, and its coordinates are those of the request.                  *)
LEMMA HeaderLeadsToRequested ==
    ASSUME IInv, pc = "header"
    PROVE  /\ \A c \in SavedAt(region, chunkIndex) :
                  c \in DOMAIN world /\ (IsLocatable(requested) => c = requested)
           /\ IsLocatable(requested) /\ requested \in DOMAIN world =>
                  requested \in SavedAt(region, chunkIndex)
<1> DEFINE r == requested
<1>1. r \in Int \X Int /\ \A c \in DOMAIN world : c \in Int \X Int
  BY DEF IInv, ReadTypes, DiskInv
<1>2. chunkIndex = IndexOf(r)
  BY DEF chunkIndex, IndexOf
<1>3. ASSUME IsLocatable(r) PROVE region = RegionOf(r)
  BY <1>1, <1>3, RegionIsFound DEF IInv, RegionInv
<1>4. ASSUME NEW c \in SavedAt(region, chunkIndex)
      PROVE  c \in DOMAIN world /\ (IsLocatable(r) => c = r)
  <2>1. c \in DOMAIN world /\ RegionOf(c) = region /\ IndexOf(c) = IndexOf(r)
    BY <1>2 DEF SavedAt
  <2> QED  BY <1>1, <1>3, <2>1, PlaceIsUnique
<1>5. IsLocatable(r) /\ r \in DOMAIN world => r \in SavedAt(region, chunkIndex)
  BY <1>2, <1>3 DEF SavedAt
<1> QED  BY <1>4, <1>5

(* The file that is read is the requested chunk, where the code divides right. *)
LEMMA ReadRegionStep ==
    ASSUME IInv, ReadRegion, UNCHANGED startVars
    PROVE  IInv'
<1> USE DEF ReadRegion
<1>1. /\ DiskInv' /\ StartedIsConfigured' /\ LevelIsStored'
      /\ requested' \in Int \X Int /\ emptyChunk' = emptyChunk
      /\ IsLocatable(requested)' = IsLocatable(requested)
      /\ IsSound(requested)' = IsSound(requested)
  BY RequestUnchanged
<1>2. pc = "header" /\ pc' \in {"unpack", "done"}
  OBVIOUS
<1>3. /\ \A c \in SavedAt(region, chunkIndex) :
             c \in DOMAIN world /\ (IsLocatable(requested) => c = requested)
      /\ IsLocatable(requested) /\ requested \in DOMAIN world =>
             requested \in SavedAt(region, chunkIndex)
  BY <1>2, HeaderLeadsToRequested
<1>4. ReadTypes' /\ RegionInv' /\ BufferInv'
  BY <1>1, <1>2 DEF IInv, ReadTypes, Places, RegionInv, BufferInv
<1>5. FileInv'
  <2>1. pc' = "unpack" =>
            \E c \in DOMAIN world :
                file' = world[c] /\ (IsLocatable(requested) => c = requested)
    BY <1>3
  <2> QED  BY <1>1, <1>2, <2>1 DEF FileInv
<1>6. ChunkInv'
  BY <1>1, <1>2 DEF IInv, ChunkInv
<1>7. StoredInv'
  <2>1. IsSound(requested) => pc' = "unpack"
    BY <1>3 DEF IsSound
  <2> QED  BY <1>1, <2>1 DEF StoredInv
<1> QED  BY <1>1, <1>4, <1>5, <1>6, <1>7 DEF IInv

(* Data that are not compressed go to the parser as they are.              *)
LEMMA UnpackStep ==
    ASSUME IInv, Unpack, UNCHANGED startVars
    PROVE  IInv'
<1>1. /\ DiskInv' /\ StartedIsConfigured' /\ LevelIsStored'
      /\ requested' \in Int \X Int /\ emptyChunk' = emptyChunk
      /\ IsLocatable(requested)' = IsLocatable(requested)
      /\ IsSound(requested)' = IsSound(requested)
  BY RequestUnchanged DEF Unpack
<1>2. pc = "unpack" /\ pc' \in {"parse", "inflate", "done"}
  BY DEF Unpack, Throw
<1>3. /\ file.bytes \in Seq(Byte) /\ file.size \in Nat /\ total_out = 0
      /\ decompressed \in Seq(Byte)
  BY <1>2 DEF IInv, FileInv, DiskInv, BufferInv, ReadTypes
<1>4. decompressed' \in Seq(Byte) /\ Len(decompressed') \in Nat
  <2>1. \/ decompressed' = file.bytes \/ decompressed' = <<>>
        \/ decompressed' = [i \in 1..(4 * file.size) |-> 0]
        \/ decompressed' = decompressed
    BY DEF Unpack
  <2>2. 4 * file.size \in Nat
    BY <1>3
  <2>3. [i \in 1..(4 * file.size) |-> 0] \in Seq(Byte)
    BY <2>2, NewBuffer
  <2>4. <<>> \in Seq(Byte)
    OBVIOUS
  <2>5. decompressed' \in Seq(Byte)
    BY <1>3, <2>1, <2>3, <2>4, Zenon
  <2> QED  BY <2>5
<1>5. ReadTypes'
  BY <1>1, <1>2, <1>4 DEF Unpack, IInv, ReadTypes, Places
<1>6. RegionInv' /\ FileInv'
  BY <1>1, <1>2 DEF Unpack, IInv, RegionInv, FileInv
<1>7. BufferInv'
  <2>1. CASE pc' = "parse"
    BY <1>2, <2>1 DEF Unpack, BufferInv, Throw
  <2>2. CASE pc' = "inflate"
    BY <1>3, <1>4, <2>2 DEF Unpack, BufferInv, Throw
  <2>3. CASE pc' = "done"
    BY <2>3 DEF BufferInv
  <2> QED  BY <1>2, <2>1, <2>2, <2>3
<1>8. ChunkInv'
  BY <1>1, <1>2 DEF Unpack, IInv, ChunkInv, Throw
<1>9. StoredInv'
  <2>1. ASSUME IsSound(requested) PROVE pc' # "done"
    <3>1. file.compression \in 1..3
      BY <1>2, <2>1 DEF IInv, FileInv, IsSound, IsWhole
    <3> QED  BY <1>2, <3>1 DEF Unpack
  <2> QED  BY <1>1, <1>2, <2>1 DEF StoredInv
<1> QED  BY <1>1, <1>5, <1>6, <1>7, <1>8, <1>9 DEF IInv

(* The loop keeps what has been inflated, when the buffer grows, too, and  *)
(* ends with all of it.                                                    *)
LEMMA InflateStep ==
    ASSUME IInv, Inflate, UNCHANGED startVars
    PROVE  IInv'
<1> DEFINE n == total_out + InflatedBytes
<1>1. /\ DiskInv' /\ StartedIsConfigured' /\ LevelIsStored'
      /\ requested' \in Int \X Int /\ emptyChunk' = emptyChunk
      /\ IsLocatable(requested)' = IsLocatable(requested)
      /\ IsSound(requested)' = IsSound(requested)
  BY RequestUnchanged DEF Inflate
<1>2. /\ pc = "inflate" /\ total_out' = n
      /\ UNCHANGED <<world, requested, region, file, root>>
  BY DEF Inflate
<1>3. /\ n \in Nat /\ total_out <= n
      /\ n <= Len(decompressed) /\ n <= Len(file.bytes)
      /\ Filled \in Seq(Byte) /\ Len(Filled) = Len(decompressed)
      /\ \A i \in 1..n : Filled[i] = file.bytes[i]
  BY <1>2, InflateFills
<1>4. /\ file.bytes \in Seq(Byte) /\ Len(file.bytes) \in Nat
      /\ Len(decompressed) \in Nat
      /\ file.compression # 3 /\ file.size # 0
  BY <1>2 DEF IInv, FileInv, DiskInv, BufferInv, ReadTypes
<1>5. PICK ret \in InflateReturns :
          CASE ret = "Z_STREAM_END" ->
                   /\ decompressed' = SubSeq(Filled, 1, total_out')
                   /\ pc' = "parse"
                   /\ UNCHANGED <<chunk, exceptions>>
            [] ret = "Z_DATA_ERROR" ->
                   /\ Throw("decompression error")
                   /\ decompressed' = Filled
            [] OTHER ->
                   /\ decompressed' = IF total_out' = Len(decompressed)
                                      THEN Doubled(Filled) ELSE Filled
                   /\ UNCHANGED <<pc, chunk, exceptions>>
  BY DEF Inflate
<1>6. ret \in {"Z_OK", "Z_STREAM_END", "Z_DATA_ERROR"}
  BY DEF InflateReturns
<1>7. /\ Doubled(Filled) \in Seq(Byte)
      /\ Len(Doubled(Filled)) \in Nat /\ Len(Doubled(Filled)) >= Len(Filled)
      /\ \A i \in 1..Len(Filled) : Doubled(Filled)[i] = Filled[i]
  BY <1>3, DoubledBegins
<1>8. CASE ret = "Z_STREAM_END"
  <2>1. n = Len(file.bytes) /\ file.end = "complete"
    BY <1>8 DEF InflateReturns
  <2>2. /\ decompressed' = SubSeq(Filled, 1, n) /\ pc' = "parse"
        /\ UNCHANGED <<chunk, exceptions>>
    BY <1>2, <1>5, <1>8
  <2>3. decompressed' = file.bytes
    BY <1>3, <1>4, <2>1, <2>2, WholeBeginning
  <2>4. ReadTypes' /\ BufferInv'
    BY <1>1, <1>2, <1>3, <1>4, <2>1, <2>2, <2>3
    DEF ReadTypes, Places, BufferInv
  <2>5. RegionInv' /\ FileInv' /\ ChunkInv' /\ StoredInv'
    BY <1>1, <1>2, <2>2 DEF IInv, RegionInv, FileInv, ChunkInv, StoredInv
  <2> QED  BY <1>1, <2>4, <2>5 DEF IInv
<1>9. CASE ret = "Z_DATA_ERROR"
  <2>1. /\ decompressed' = Filled /\ pc' = "done" /\ chunk' = emptyChunk
    BY <1>5, <1>9 DEF Throw
  <2>2. ReadTypes' /\ BufferInv'
    BY <1>1, <1>2, <1>3, <2>1 DEF ReadTypes, Places, BufferInv
  <2>3. RegionInv' /\ FileInv' /\ ChunkInv'
    BY <1>1, <1>2, <2>1 DEF IInv, RegionInv, FileInv, ChunkInv
  <2>4. StoredInv'
    <3>1. file.end = "corrupt"
      BY <1>9 DEF InflateReturns
    <3>2. ~ IsSound(requested)
      BY <1>2, <1>4, <3>1 DEF IInv, FileInv, IsSound, IsWhole
    <3> QED  BY <1>1, <3>2 DEF StoredInv
  <2> QED  BY <1>1, <2>2, <2>3, <2>4 DEF IInv
<1>10. CASE ret = "Z_OK"
  <2>1. /\ decompressed' = IF n = Len(decompressed)
                           THEN Doubled(Filled) ELSE Filled
        /\ UNCHANGED <<pc, chunk, exceptions>>
    BY <1>2, <1>5, <1>10
  <2>2. /\ decompressed' \in Seq(Byte) /\ Len(decompressed') \in Nat
        /\ Len(decompressed') >= Len(decompressed)
        /\ \A i \in 1..n : decompressed'[i] = file.bytes[i]
    BY <1>3, <1>4, <1>7, <2>1
  <2>3. ReadTypes'
    BY <1>1, <1>2, <1>3, <2>1, <2>2 DEF ReadTypes, Places
  <2>4. BufferInv'
    BY <1>2, <1>3, <1>4, <2>1, <2>2 DEF BufferInv
  <2>5. RegionInv' /\ FileInv' /\ ChunkInv' /\ StoredInv'
    BY <1>1, <1>2, <2>1 DEF IInv, RegionInv, FileInv, ChunkInv, StoredInv
  <2> QED  BY <1>1, <2>3, <2>4, <2>5 DEF IInv
<1> QED  BY <1>6, <1>8, <1>9, <1>10

(* What a sound chunk is parsed to is the tree that it was saved from.     *)
LEMMA ParseStep ==
    ASSUME IInv, Parse, UNCHANGED startVars
    PROVE  IInv'
<1> USE DEF Parse
<1>1. /\ DiskInv' /\ StartedIsConfigured' /\ LevelIsStored'
      /\ requested' \in Int \X Int /\ emptyChunk' = emptyChunk
      /\ IsLocatable(requested)' = IsLocatable(requested)
      /\ IsSound(requested)' = IsSound(requested)
  BY RequestUnchanged
<1>2. pc = "parse" /\ pc' \in {"extract", "done"}
  BY DEF Throw
<1>3. ReadTypes' /\ RegionInv' /\ FileInv' /\ BufferInv'
  BY <1>1, <1>2
  DEF IInv, ReadTypes, Places, RegionInv, FileInv, BufferInv
<1>4. ChunkInv'
  <2>1. IsLocatable(requested) => requested \in DOMAIN world
    BY <1>2 DEF IInv, FileInv
  <2> QED  BY <1>1, <1>2, <2>1 DEF IInv, ChunkInv, Throw
<1>5. StoredInv'
  <2>1. ASSUME IsSound(requested)
        PROVE  pc' = "extract" /\ root' = world[requested].tree.value
    <3>1. file = world[requested] /\ requested \in DOMAIN world
      BY <1>2, <2>1 DEF IInv, FileInv, IsSound
    <3>2. file.size = 0 => file.bytes = <<>>
      BY <3>1 DEF IInv, DiskInv
    <3>3. decompressed = file.bytes
      BY <1>2, <3>2 DEF IInv, BufferInv
    <3>4. IsReadBack(file)
      BY <2>1, <3>1 DEF IInv, DiskInv, IsSound
    <3>5. Ok(Parsed(decompressed)) /\ Parsed(decompressed).value = file.tree.value
      BY <3>3, <3>4 DEF IsReadBack
    <3> QED  BY <3>1, <3>5
  <2> QED  BY <1>1, <2>1 DEF StoredInv
<1> QED  BY <1>1, <1>3, <1>4, <1>5 DEF IInv

(* The extraction ends the request, of a sound chunk with all of its parts. *)
LEMMA ExtractStep ==
    ASSUME IInv, Extract, UNCHANGED startVars
    PROVE  IInv'
<1> USE DEF Extract
<1>1. /\ DiskInv' /\ StartedIsConfigured' /\ LevelIsStored'
      /\ requested' \in Int \X Int /\ emptyChunk' = emptyChunk
      /\ IsLocatable(requested)' = IsLocatable(requested)
      /\ IsSound(requested)' = IsSound(requested)
  BY RequestUnchanged
<1>2. pc = "extract" /\ pc' = "done"
  OBVIOUS
<1>3. ReadTypes' /\ RegionInv' /\ FileInv' /\ BufferInv'
  BY <1>1, <1>2
  DEF IInv, ReadTypes, Places, RegionInv, FileInv, BufferInv
<1>4. ChunkInv'
  BY <1>1, <1>2 DEF IInv, FileInv, ChunkInv
<1>5. StoredInv'
  <2> DEFINE tree == world[requested].tree
  <2>1. ASSUME IsSound(requested)
        PROVE  \A part \in Parts : chunk'[part] = StoredParts(tree)[part]
    <3>1. root = tree.value
      BY <1>2, <2>1 DEF IInv, StoredInv
    <3>2. IsStored(tree)
      BY <2>1 DEF IInv, DiskInv, IsSound, IsReadBack, IsStored
    <3>3. requested \in Int \X Int
      BY DEF IInv, ReadTypes
    <3>4. chunk' = extractChunkDataFromNBT(tree.value)
      BY <3>1
    <3> HIDE DEF tree
    <3> QED  BY <3>2, <3>3, <3>4, ExtractedIsStored
  <2> QED  BY <1>1, <1>2, <2>1 DEF StoredInv
<1> QED  BY <1>1, <1>3, <1>4, <1>5 DEF IInv

(* A new request starts from nothing.                                      *)
LEMMA FetchStep ==
    ASSUME IInv, sendChunkData
    PROVE  IInv'
<1>1. PICK coordinates \in Coordinates : fetchChunk(coordinates)
  BY DEF sendChunkData
<1>2. DiskInv' /\ StartedIsConfigured'
  BY <1>1 DEF IInv, sendChunkData, startVars, fetchChunk, DiskInv,
              StartedIsConfigured
<1>3. ReadTypes'
  BY <1>1, CoordinatesAssumption DEF fetchChunk, ReadTypes
<1>4. RegionInv' /\ FileInv' /\ BufferInv' /\ ChunkInv' /\ StoredInv'
  BY <1>1 DEF fetchChunk, RegionInv, FileInv, BufferInv, ChunkInv, StoredInv
<1>5. LevelIsStored'
  BY DEF IInv, sendChunkData, startVars, LevelIsStored, getWorldName
<1> QED  BY <1>2, <1>3, <1>4, <1>5 DEF IInv

-----------------------------------------------------------------------------
(* In every state the request, the file and the buffer are where they      *)
(* should be, whatever worlds, levels and configurations are on the disk.  *)
THEOREM InvariantHolds == StartSpec => []IInv
<1>1. IInv /\ [StartNext]_allVars => IInv'
  <2> SUFFICES ASSUME IInv, [StartNext]_allVars PROVE IInv'
    OBVIOUS
  <2>1. CASE loadConfig
    BY <2>1, loadConfigStep
  <2>2. CASE loadLevelDat \/ LocateFirst \/ startThreads
    BY <2>2, StartSteps
  <2>3. CASE Fetches /\ Next /\ UNCHANGED startVars
    BY <2>3, LocateStep, ReadRegionStep, UnpackStep, InflateStep, ParseStep,
       ExtractStep
    DEF Next
  <2>4. CASE sendChunkData
    BY <2>4, FetchStep
  <2>5. CASE UNCHANGED allVars
    <3>1. /\ DiskInv' /\ ReadTypes' /\ RegionInv' /\ FileInv' /\ BufferInv'
          /\ ChunkInv' /\ StoredInv'
      BY <2>5, ReadingUnchanged DEF allVars, startVars
    <3>2. StartedIsConfigured' /\ LevelIsStored'
      BY <2>5
      DEF IInv, allVars, startVars, StartedIsConfigured, LevelIsStored, getWorldName
    <3> QED  BY <3>1, <3>2 DEF IInv
  <2> QED  BY <2>1, <2>2, <2>3, <2>4, <2>5 DEF StartNext
<1> QED  BY InvariantInit, <1>1, PTL DEF StartSpec

(* A server that is past its configuration runs with all that the file     *)
(* says: loadConfig has no exit that leaves a part of the defaults.        *)
THEOREM StartsWithItsConfiguration == StartSpec => []StartedIsConfigured
<1>1. IInv => StartedIsConfigured
  BY DEF IInv
<1> QED  BY InvariantHolds, <1>1, PTL

(* The bytes that fetchChunk gives to the parser are those that the game   *)
(* has saved for the coordinates: of all chunks of all regions that one,   *)
(* complete, and nothing of the buffer behind them.                        *)
THEOREM ParserGetsWhatWasSaved == StartSpec => []ParsedIsStored
<1>1. IInv => ParsedIsStored
  BY DEF IInv, FileInv, BufferInv, ParsedIsStored
<1> QED  BY InvariantHolds, <1>1, PTL

(* A chunk that has not been saved, and one whose reading has thrown, is   *)
(* an empty chunk with the coordinates of the request.                     *)
THEOREM MissingChunksAreEmpty ==
    StartSpec => [](/\ pc = "done"
                    /\ \/ exceptions # {}
                       \/ IsLocatable(requested) /\ requested \notin DOMAIN world
                    => chunk = emptyChunk)
<1>1. IInv => (/\ pc = "done"
               /\ \/ exceptions # {}
                  \/ IsLocatable(requested) /\ requested \notin DOMAIN world
               => chunk = emptyChunk)
  BY DEF IInv, ChunkInv
<1> QED  BY InvariantHolds, <1>1, PTL

(* What level.dat says reaches _worldData: each member has what the game   *)
(* has saved under its key in the world of the configured name, as its own *)
(* type has it, and a file that is cut off lets no server start.           *)
THEOREM LevelReachesWorldData == StartSpec => []LevelIsStored
<1>1. IInv => LevelIsStored
  BY DEF IInv
<1> QED  BY InvariantHolds, <1>1, PTL

(* A chunk that the game has saved is fetched with every part of it, from  *)
(* every section and in order, whatever the width of a region and however  *)
(* often the buffer of decompressZlib has grown; one that it has not saved *)
(* is an empty chunk.                                                      *)
THEOREM ChunksAreFetchedWhole == StartSpec => []FetchedIsStored
<1>1. ASSUME NEW tree PROVE DOMAIN StoredParts(tree) = Parts
  BY DEF StoredParts, Parts
<1>2. IInv => FetchedIsStored
  BY <1>1 DEF IInv, ChunkInv, StoredInv, IsSound, FetchedIsStored
<1> QED  BY InvariantHolds, <1>2, PTL
=============================================================================
