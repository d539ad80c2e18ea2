------------------------------- MODULE Reads --------------------------------
(* What a read of a sequence of bytes at a position gives: the value and    *)
(* the new position, or the exception that it throws.                       *)
EXTENDS Integers, Sequences, SequencesExt

Got(value, pos) == [thrown |-> "none", value |-> value, pos |-> pos]
Thrown(exception) == [thrown |-> exception, value |-> 0, pos |-> 0]
Ok(r) == r.thrown = "none"

\* What is in memory that nothing has been written to, or behind the data.
Unknown == -1

\* What an integer of so many bits makes of n.
Signed(n, bits) ==
    LET u == n % 2^bits
    IN  IF u >= 2^(bits - 1) THEN u - 2^bits ELSE u

\* Bytes as digits, the most significant one first.
BigEndian(bytes, base) ==
    LET upTo[i \in 0..Len(bytes)] ==
            IF i = 0 THEN 0 ELSE upTo[i - 1] * base + bytes[i]
    IN  upTo[Len(bytes)]
=============================================================================
