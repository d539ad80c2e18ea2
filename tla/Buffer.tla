------------------------------- MODULE Buffer -------------------------------
(***************************************************************************)
(* Class Buffer: numbers and strings in a sequence of bytes.               *)
(*                                                                         *)
(* A byte has Group + 1 bits (8 in the code): in a VarInt the high one     *)
(* says that more bytes follow, the others are digits, least significant   *)
(* first.  An int has Width bits (32), a long LongBytes bytes (8).  A read *)
(* of `data' at position `pos' gives the value and the new position, or    *)
(* the exception that it throws.                                           *)
(***************************************************************************)
EXTENDS Reads

CONSTANTS Group, Width, LongBytes

ASSUME WidthsAssumption ==
    /\ Group \in Nat \ {0}
    /\ Width \in Nat /\ Width > Group
    /\ LongBytes \in Nat \ {0}

Base == 2^(Group + 1)
Byte == 0..(Base - 1)
MaxInt == 2^(Width - 1) - 1

More(byte) == byte >= 2^Group           \* byte & 0x80
Digit(byte) == byte % 2^Group           \* byte & 0x7F

\* The number that the bytes of a VarInt spell, whatever its size.
Spelled(bytes) ==
    LET upTo[i \in 0..Len(bytes)] ==
            IF i = 0 THEN 0
            ELSE upTo[i - 1] + Digit(bytes[i]) * 2^(Group * (i - 1))
    IN  upTo[Len(bytes)]

-----------------------------------------------------------------------------
(* Reading.                                                                *)

readBytes(n, data, pos) ==
    IF pos + n > Len(data) THEN Thrown("underflow")
    ELSE Got(SubSeq(data, pos + 1, pos + n), pos + n)

\* Mutant: the last byte is never read.
readByteTooCareful(data, pos) ==
    IF pos >= Len(data) - 1 THEN Thrown("underflow")
    ELSE Got(data[pos + 1], pos + 1)

readByte(data, pos) ==
    IF pos >= Len(data) THEN Thrown("underflow")
    ELSE Got(data[pos + 1], pos + 1)

\* The position is checked after each byte, the last one included: a VarInt
\* has fewer bytes than are needed to fill an int.
MaxVarInt == (Width - 1) \div Group

readVarInt(data, pos) ==
    LET ends == {n \in 1..MaxVarInt :
                     pos + n <= Len(data) /\ ~More(data[pos + n])}
        n == CHOOSE k \in ends : \A j \in ends : k <= j
    IN  IF ends # {}
        THEN Got(Signed(Spelled(SubSeq(data, pos + 1, pos + n)), Width), pos + n)
        ELSE Thrown(IF Len(data) - pos <= MaxVarInt THEN "underflow"
                    ELSE "VarInt too big")

\* Mutant: the bytes of the string stay in front of the next field.
readStringStays(maxLength, data, pos) ==
    LET len == readVarInt(data, pos)
        bytes == readBytes(len.value, data, len.pos)
    IN  IF ~Ok(len) THEN len
        ELSE IF len.value > maxLength THEN Thrown("String length exceeds")
        ELSE IF Ok(bytes) THEN Got(bytes.value, len.pos) ELSE bytes

readString(maxLength, data, pos) ==
    LET len == readVarInt(data, pos)
    IN  IF ~Ok(len) THEN len
        ELSE IF len.value > maxLength THEN Thrown("String length exceeds")
        ELSE readBytes(len.value, data, len.pos)

\* The most significant byte first; the two operands of | in readUShort may
\* be evaluated in either order, and the only reader drops the result.
readUShort(data, pos) ==
    LET bytes == readBytes(2, data, pos)
    IN  IF Ok(bytes) THEN Got("dropped", bytes.pos) ELSE bytes

readLong(data, pos) ==
    LET bytes == readBytes(LongBytes, data, pos)
    IN  IF ~Ok(bytes) THEN bytes
        ELSE Got(Signed(BigEndian(bytes.value, Base), LongBytes * (Group + 1)),
                 bytes.pos)

-----------------------------------------------------------------------------
(* Writing.                                                                *)

\* Called with sizes, ids and constants only, which are natural numbers: the
\* shift of a negative one would never reach zero.
writeVarInt(value) ==
    LET bytes[v \in 0..MaxInt] ==
            IF v < 2^Group THEN <<v>>
            ELSE <<Digit(v) + 2^Group>> \o bytes[v \div 2^Group]
    IN  bytes[value]

getVarintSize(value) ==
    CHOOSE n \in 1..Width : /\ value < 2^(Group * n)
                            /\ n > 1 => value >= 2^(Group * (n - 1))

writeString(str) == writeVarInt(Len(str)) \o str

\* So many bytes of a number, the most significant one first: the shifts of a
\* negative number keep its sign, and & with the low byte gives the remainder.
BigEndianBytes(n, value) ==
    [i \in 1..n |-> (value \div Base^(n - i)) % Base]

writeLong(value) == BigEndianBytes(LongBytes, value)

IntBytes == Width \div (Group + 1)

writeInt(value) == BigEndianBytes(IntBytes, value)

writeBool(value) == <<IF value THEN 1 ELSE 0>>
=============================================================================
