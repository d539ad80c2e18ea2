------------------------------ MODULE MCCodec -------------------------------
EXTENDS Codec

\* Three bits a digit: ids 0 to 7 are one byte, lengths from 8 on two.
MCJson == <<1, 2, 3, 4, 5, 6, 7>>
MCUuid == <<5, 15>>
MCFixedReplies == [loginAcknowledged |-> <<<<6, 1>>>>,
                   knownPacks |-> <<<<7, 2>>, <<7, 3, 9>>, <<5>>, <<3>>>>,
                   acknowledgeFinish |-> <<<<2, 9>>, <<4>>>>,
                   confirmTeleportation |-> <<<<3, 0>>>>]
MCVarInts == {0, 63}
MCStrings == {<<>>, <<9, 9>>}
MCLongs == {-128, 100}
MCFillers == {<<9, 8, 7>>}
\* No room for an id; size -1; a size that is too long, one that is the least
\* int; an unknown packet; a body that ends too early for its field; one that
\* never comes.
MCGarbage == {<<0, 0>>, <<15, 15, 7>>, <<8, 8, 8, 0>>, <<8, 8, 2, 0>>,
              <<1, 5>>, <<3, 0, 2, 1>>, <<4, 0, 1>>}
MCWideVarInts == {64, 127, -1}

\* What the theorems about Codec assume of the client is so, but for fifth_byte.
ASSUME MCReadable == VarInts # MCWideVarInts => IsReadable /\ IsSendable
=============================================================================
