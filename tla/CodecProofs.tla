----------------------------- MODULE CodecProofs -----------------------------
(***************************************************************************)
(* What holds of Codec for any widths of numbers, whatever the client      *)
(* writes and in whatever pieces it arrives.                               *)
(***************************************************************************)
EXTENDS Codec, CommonLemmas

-----------------------------------------------------------------------------
(* Powers of two, and remainders.                                          *)

(* The place of a digit is below the bound up to which powers are known.   *)
LEMMA Places ==
    ASSUME NEW k \in 0..Width
    PROVE  Group * k \in 0..(Group * Width)
BY WidthsAssumption

(* Powers of two are natural numbers, greater than their exponents.        *)
LEMMA Powers ==
    \A n \in 0..(Group * Width) : 2^n \in Nat /\ n < 2^n
<1> DEFINE N == Group * Width
           S == {n \in 0..N : 2^n \in Nat /\ n < 2^n}
<1>1. N \in Nat
  BY WidthsAssumption
<1>2. 0 \in S
  BY <1>1, PowersAssumption
<1>3. ASSUME NEW n \in 0..(N - 1), n \in S
      PROVE  n + 1 \in S
  <2> DEFINE m == n + 1
  <2>1. m \in 1..N /\ m - 1 = n
    BY <1>1
  <2>2. 2^m = 2 * 2^n
    BY <2>1, PowersAssumption
  <2>3. 2^n \in Nat /\ n < 2^n
    BY <1>3
  <2>4. 2^m \in Nat /\ m < 2^m
    BY <2>2, <2>3
  <2> QED  BY <2>1, <2>4
<1>4. 0..N \subseteq S
  <2> HIDE DEF S
  <2> QED  BY <1>1, <1>2, <1>3, Induction
<1> QED  BY <1>4

(* The powers that the code computes with.                                 *)
LEMMA Halves ==
    /\ 2^Width \in Nat /\ 2^(Width - 1) \in Nat
    /\ 2^Width = 2 * 2^(Width - 1) /\ Width <= 2^(Width - 1)
    /\ 2^Group \in Nat \ {0} /\ Base = 2 * 2^Group
<1>1. Width \in 1..(Group * Width) /\ Group + 1 \in 1..(Group * Width)
  BY WidthsAssumption
<1>2. 2^Width = 2 * 2^(Width - 1) /\ 2^(Group + 1) = 2 * 2^((Group + 1) - 1)
  BY <1>1, PowersAssumption
<1>3. (Group + 1) - 1 = Group
  BY WidthsAssumption
<1>4. Width - 1 \in 0..(Group * Width) /\ Group \in 0..(Group * Width)
  BY <1>1, WidthsAssumption
<1> QED  BY <1>1, <1>2, <1>3, <1>4, Powers, WidthsAssumption DEF Base

(* Powers of two grow with their exponents.                                *)
LEMMA PowersGrow ==
    ASSUME NEW a \in 0..(Group * Width), NEW b \in a..(Group * Width)
    PROVE  2^a <= 2^b
<1> DEFINE N == Group * Width
           S == {d \in 0..(N - a) : 2^a <= 2^(a + d)}
<1>1. N \in Nat /\ a \in 0..N /\ b \in a..N
  BY WidthsAssumption
<1>2. N - a \in Nat /\ 2^a \in Nat
  BY <1>1, Powers
<1>3. 0 \in S
  BY <1>1, <1>2
<1>4. ASSUME NEW d \in 0..((N - a) - 1), d \in S
      PROVE  d + 1 \in S
  <2> DEFINE m == a + (d + 1)
  <2>1. m \in 1..N /\ m - 1 = a + d /\ a + d \in 0..N
    BY <1>1
  <2>2. 2^m = 2 * 2^(a + d)
    BY <2>1, PowersAssumption
  <2>3. 2^(a + d) \in Nat /\ 2^a <= 2^(a + d)
    BY <1>4, <2>1, Powers
  <2>4. 2^a <= 2^m
    BY <1>2, <2>2, <2>3
  <2> QED  BY <1>1, <2>4
<1>5. 0..(N - a) \subseteq S
  <2> HIDE DEF S, N
  <2> QED  BY <1>2, <1>3, <1>4, Induction
<1>6. b - a \in 0..(N - a) /\ a + (b - a) = b
  BY <1>1
<1> QED  BY <1>5, <1>6

(* The weights of the bytes of a long are positive.                        *)
LEMMA BasePowers ==
    \A n \in 0..LongBytes : Base^n \in Nat \ {0}
<1> DEFINE S == {n \in 0..LongBytes : Base^n \in Nat \ {0}}
<1>1. LongBytes \in Nat /\ Base \in Nat \ {0}
  BY Halves, WidthsAssumption
<1>2. 0 \in S
  BY <1>1, PowersAssumption
<1>3. ASSUME NEW n \in 0..(LongBytes - 1), n \in S
      PROVE  n + 1 \in S
  <2> DEFINE m == n + 1
  <2>1. m \in 1..LongBytes /\ m - 1 = n
    BY <1>1
  <2>2. Base^m = Base * Base^n
    BY <2>1, PowersAssumption
  <2>3. Base^n \in Nat \ {0}
    BY <1>3
  <2>4. Base^m \in Nat \ {0}
    BY <1>1, <2>2, <2>3
  <2> QED  BY <2>1, <2>4
<1>4. 0..LongBytes \subseteq S
  <2> HIDE DEF S
  <2> QED  BY <1>1, <1>2, <1>3, Induction
<1> QED  BY <1>4

(* A number is its quotient, multiplied, and its remainder.                *)
LEMMA Remainder ==
    ASSUME NEW n \in Int, NEW w \in Nat \ {0}
    PROVE  /\ n \div w \in Int /\ n % w \in 0..(w - 1)
           /\ n = w * (n \div w) + (n % w)
<1>1. n \div w \in Int /\ n % w \in Int
  OBVIOUS
<1>2. 0 <= (n % w) /\ (n % w) < w
  OBVIOUS
<1>3. n = w * (n \div w) + (n % w)
  OBVIOUS
<1> QED  BY <1>1, <1>2, <1>3

(* Only one quotient leaves a remainder.                                   *)
LEMMA RemainderIsUnique ==
    ASSUME NEW n \in Int, NEW w \in Nat \ {0}, NEW q \in Int, NEW r \in 0..(w - 1),
           n = w * q + r
    PROVE  n \div w = q /\ n % w = r
<1> DEFINE p == n \div w
           s == n % w
<1>1. p \in Int /\ s \in 0..(w - 1) /\ n = w * p + s
  BY Remainder
<1> HIDE DEF p, s
<1>2. w * (p - q) = r - s
  BY <1>1
<1>3. -w < r - s /\ r - s < w
  BY <1>1
<1>4. ~(p - q >= 1)
  <2>1. p - q >= 1 => w * (p - q) >= w
    BY <1>1
  <2> QED  BY <1>2, <1>3, <2>1, <1>1
<1>5. ~(p - q <= -1)
  <2>1. p - q <= -1 => w * (p - q) <= -w
    BY <1>1
  <2> QED  BY <1>2, <1>3, <2>1, <1>1
<1>6. p = q
  BY <1>1, <1>4, <1>5
<1>7. s = r
  BY <1>1, <1>6
<1> QED  BY <1>6, <1>7 DEF p, s

(* The remainder of a sum may be taken before it, too.                     *)
LEMMA RemainderOfSum ==
    ASSUME NEW a \in Int, NEW b \in Int, NEW w \in Nat \ {0}
    PROVE  ((a % w) + b) % w = (a + b) % w
<1> DEFINE c == (a % w) + b
<1>1. /\ a \div w \in Int /\ a % w \in 0..(w - 1) /\ a = w * (a \div w) + (a % w)
  BY Remainder
<1>2. /\ c \in Int
  BY <1>1
<1>3. c \div w \in Int /\ c % w \in 0..(w - 1) /\ c = w * (c \div w) + (c % w)
  BY <1>2, Remainder
<1> DEFINE q == (a \div w) + (c \div w)
<1>4. q \in Int /\ a + b = w * q + (c % w)
  BY <1>1, <1>3
<1>5. (a + b) % w = c % w
  <2> HIDE DEF q, c
  <2>1. a + b \in Int
    OBVIOUS
  <2> QED  BY <1>3, <1>4, <2>1, RemainderIsUnique
<1> QED  BY <1>5

(* What Signed makes of a number: one of those of that width with the same *)
(* remainder, the number itself if it is one of them.                      *)
LEMMA SignedProperties ==
    ASSUME NEW n \in Int
    PROVE  /\ Signed(n, Width) \in -(2^(Width - 1))..(2^(Width - 1) - 1)
           /\ n \in -(2^(Width - 1))..(2^(Width - 1) - 1) => Signed(n, Width) = n
           /\ n < -(2^(Width - 1)) /\ n >= -(2^Width) => Signed(n, Width) = n + 2^Width
           /\ Signed(n % 2^Width, Width) = Signed(n, Width)
<1> DEFINE H == 2^(Width - 1)
           M == 2^Width
<1>1. M \in Nat /\ H \in Nat \ {0} /\ M = 2 * H
  BY Halves, WidthsAssumption
<1>2. Signed(n, Width) = IF (n % M) >= H THEN (n % M) - M ELSE (n % M)
  BY DEF Signed
<1>3. Signed(n % M, Width) = IF ((n % M) % M) >= H THEN ((n % M) % M) - M ELSE ((n % M) % M)
  BY DEF Signed
<1> HIDE DEF M, H
<1>4. (n % M) \in 0..(M - 1)
  BY <1>1, Remainder
<1>5. ((n % M) % M) = (n % M)
  <2> DEFINE r == n % M
  <2>1. r = M * 0 + r /\ r \in 0..(M - 1) /\ r \in Int /\ 0 \in Int
    BY <1>1, <1>4
  <2> HIDE DEF r
  <2>2. r % M = r
    BY <1>1, <2>1, RemainderIsUnique
  <2> QED  BY <2>2 DEF r
<1>6. ASSUME n \in 0..(M - 1) PROVE (n % M) = n
  <2>1. n = M * 0 + n
    BY <1>1
  <2> QED  BY <1>1, <1>6, <2>1, RemainderIsUnique
<1>7. ASSUME n < 0, n >= -M PROVE (n % M) = n + M
  <2>1. n = M * (-1) + (n + M) /\ n + M \in 0..(M - 1) /\ -1 \in Int
    BY <1>1, <1>7
  <2> QED  BY <1>1, <2>1, RemainderIsUnique
<1>8. Signed(n, Width) \in -H..(H - 1)
  BY <1>1, <1>2, <1>4
<1>9. n \in -H..(H - 1) => Signed(n, Width) = n
  BY <1>1, <1>2, <1>6, <1>7
<1>10. n < -H /\ n >= -M => Signed(n, Width) = n + M
  BY <1>1, <1>2, <1>7
<1>11. Signed(n % M, Width) = Signed(n, Width)
  BY <1>2, <1>3, <1>5
<1> QED  BY <1>8, <1>9, <1>10, <1>11 DEF M, H

-----------------------------------------------------------------------------
(* The number that a VarInt spells.                                        *)

(* A digit has the bits of a group.                                        *)
LEMMA DigitType ==
    ASSUME NEW b \in Int
    PROVE  Digit(b) \in Nat /\ Digit(b) < 2^Group
<1> DEFINE w == 2^Group
<1>1. w \in Nat \ {0}
  BY Halves
<1>2. Digit(b) = b % w
  BY DEF Digit
<1> HIDE DEF w
<1>3. Digit(b) \in 0..(w - 1)
  BY <1>1, <1>2, Remainder
<1> QED  BY <1>1, <1>3 DEF w

(* Spelled by its equations: what one more byte adds.                      *)
LEMMA SpelledProperties ==
    ASSUME NEW bytes \in Seq(Int), Len(bytes) <= Width
    PROVE  \E f \in [0..Len(bytes) -> Nat] :
               /\ f[0] = 0 /\ Spelled(bytes) = f[Len(bytes)]
               /\ \A i \in 1..Len(bytes) :
                      f[i] = f[i - 1] + Digit(bytes[i]) * 2^(Group * (i - 1))
<1> DEFINE N == Len(bytes)
           term(i) == Digit(bytes[i]) * 2^(Group * (i - 1))
           step == [p \in (1..N) \X Nat |-> p[2] + term(p[1])]
<1>1. N \in Nat
  BY LenProperties
<1>2. ASSUME NEW i \in 1..N PROVE term(i) \in Nat
  <2>1. i - 1 \in 0..Width
    BY <1>1, WidthsAssumption
  <2>2. 2^(Group * (i - 1)) \in Nat
    BY <2>1, Places, Powers
  <2>3. Digit(bytes[i]) \in Nat
    <3>1. bytes[i] \in Int
      BY ElementOfSeq
    <3> QED  BY <3>1, DigitType
  <2> HIDE DEF term
  <2>4. \A a, b \in Nat : a * b \in Nat
    OBVIOUS
  <2> QED  BY <2>2, <2>3, <2>4 DEF term
<1>3. step \in [(1..N) \X Nat -> Nat]
  <2> HIDE DEF term, N
  <2> QED  BY <1>2
<1>4. PICK f \in [0..N -> Nat] : IsIteration(f, N, 0, step)
  <2> HIDE DEF step, N
  <2> QED  BY <1>1, <1>3, Iteration
<1>5. f[0] = 0
  BY <1>4 DEF IsIteration
<1>6. \A i \in 1..N : f[i] = f[i - 1] + term(i)
  <2> SUFFICES ASSUME NEW i \in 1..N PROVE f[i] = f[i - 1] + term(i)
    OBVIOUS
  <2>1. f[i] = step[<<i, f[i - 1]>>]
    BY <1>4 DEF IsIteration
  <2> HIDE DEF term, N
  <2>2. f[i - 1] \in Nat
    BY <1>1, <1>4
  <2> QED  BY <2>1, <2>2
<1> DEFINE upTo[i \in 0..N] == IF i = 0 THEN 0 ELSE upTo[i - 1] + term(i)
           IsUpTo(g) == g = [i \in 0..N |-> IF i = 0 THEN 0 ELSE g[i - 1] + term(i)]
<1>7. IsUpTo(f)
  <2> HIDE DEF term, N
  <2> QED  BY <1>1, <1>4, <1>5, <1>6
<1>8. IsUpTo(upTo)
  <2> HIDE DEF term, N
  <2> QED  BY <1>7
<1>9. \A i \in 0..N : upTo[i] = f[i]
  <2> HIDE DEF term, N, upTo
  <2>1. upTo[0] = f[0]
    BY <1>1, <1>5, <1>8
  <2>2. ASSUME NEW i \in 1..N, upTo[i - 1] = f[i - 1] PROVE upTo[i] = f[i]
    BY <1>1, <1>6, <1>8, <2>2
  <2>3. SameSteps(upTo, f, N)
    BY <2>1, <2>2 DEF SameSteps
  <2> QED  BY <1>1, <2>3, SameIteration
<1>10. Spelled(bytes) = upTo[N]
  BY DEF Spelled
<1>11. Spelled(bytes) = f[N]
  <2> HIDE DEF upTo
  <2> QED  BY <1>1, <1>9, <1>10
<1> QED  BY <1>4, <1>5, <1>6, <1>11

(* No bytes spell 0, and one more is one digit more.                       *)
LEMMA SpelledEmpty == Spelled(<<>>) = 0
<1>1. <<>> \in Seq(Int) /\ Len(<<>>) = 0 /\ 0 <= Width
  BY WidthsAssumption
<1>2. PICK f \in [0..Len(<<>>) -> Nat] : f[0] = 0 /\ Spelled(<<>>) = f[Len(<<>>)]
  BY <1>1, SpelledProperties
<1> QED  BY <1>1, <1>2

(* A byte more adds its digit at its place.                                *)
LEMMA SpelledAppend ==
    ASSUME NEW bytes \in Seq(Int), Len(bytes) < Width, NEW b \in Int
    PROVE  /\ Spelled(bytes) \in Nat
           /\ Spelled(Append(bytes, b)) =
                  Spelled(bytes) + Digit(b) * 2^(Group * Len(bytes))
<1> DEFINE more == Append(bytes, b)
           N == Len(bytes)
<1>1. /\ more \in Seq(Int) /\ Len(more) = N + 1 /\ more[N + 1] = b
      /\ \A i \in 1..N : more[i] = bytes[i]
      /\ N \in Nat /\ N <= Width /\ N + 1 <= Width
  BY AppendProperties, LenProperties, WidthsAssumption
<1>2. PICK f \in [0..N -> Nat] :
          /\ f[0] = 0 /\ Spelled(bytes) = f[N]
          /\ \A i \in 1..N : f[i] = f[i - 1] + Digit(bytes[i]) * 2^(Group * (i - 1))
  BY <1>1, SpelledProperties
<1>3. PICK g \in [0..Len(more) -> Nat] :
          /\ g[0] = 0 /\ Spelled(more) = g[Len(more)]
          /\ \A i \in 1..Len(more) :
                 g[i] = g[i - 1] + Digit(more[i]) * 2^(Group * (i - 1))
  <2> HIDE DEF more
  <2> QED  BY <1>1, SpelledProperties
<1> HIDE DEF more, N
<1>4. \A i \in 0..N : g[i] = f[i]
  <2>1. ASSUME NEW i \in 1..N, g[i - 1] = f[i - 1] PROVE g[i] = f[i]
    BY <1>1, <1>2, <1>3, <2>1
  <2>2. N \in Nat /\ g[0] = f[0]
    BY <1>1, <1>2, <1>3
  <2>3. SameSteps(g, f, N)
    BY <2>1, <2>2 DEF SameSteps
  <2> QED  BY <2>2, <2>3, SameIteration
<1>5. g[N + 1] = g[N] + Digit(b) * 2^(Group * N)
  <2>1. N + 1 \in 1..Len(more) /\ (N + 1) - 1 = N
    BY <1>1
  <2>2. g[N + 1] = g[(N + 1) - 1] + Digit(more[N + 1]) * 2^(Group * ((N + 1) - 1))
    BY <1>3, <2>1
  <2> QED  BY <1>1, <2>1, <2>2
<1>6. f[N] \in Nat /\ g[N] = f[N]
  BY <1>1, <1>2, <1>4
<1> QED  BY <1>1, <1>2, <1>3, <1>5, <1>6 DEF more, N

-----------------------------------------------------------------------------
(* Pieces of the stream.                                                   *)

(* The length and the elements of a piece of a sequence.                   *)
LEMMA Piece ==
    ASSUME NEW S, NEW s \in Seq(S), NEW a \in 0..Len(s), NEW b \in a..Len(s)
    PROVE  /\ SubSeq(s, a + 1, b) \in Seq(S) /\ Len(SubSeq(s, a + 1, b)) = b - a
           /\ \A i \in 1..(b - a) : SubSeq(s, a + 1, b)[i] = s[a + i]
<1>1. CASE a = b
  BY <1>1, SubSeqProperties, LenProperties, EmptySeq
<1>2. CASE a < b
  BY <1>2, SubSeqProperties, LenProperties
<1> QED  BY <1>1, <1>2, LenProperties

(* One more byte of it.                                                    *)
LEMMA LongerPiece ==
    ASSUME NEW S, NEW s \in Seq(S), NEW a \in 0..Len(s), NEW b \in a..(Len(s) - 1)
    PROVE  SubSeq(s, a + 1, b + 1) = Append(SubSeq(s, a + 1, b), s[b + 1])
<1> DEFINE short == SubSeq(s, a + 1, b)
           long == SubSeq(s, a + 1, b + 1)
           more == Append(short, s[b + 1])
<1>1. Len(s) \in Nat /\ b \in a..Len(s) /\ b + 1 \in a..Len(s) /\ s[b + 1] \in S
  BY LenProperties, ElementOfSeq
<1>2. /\ short \in Seq(S) /\ Len(short) = b - a
      /\ \A i \in 1..(b - a) : short[i] = s[a + i]
  BY <1>1, Piece
<1>3. /\ long \in Seq(S) /\ Len(long) = (b + 1) - a
      /\ \A i \in 1..((b + 1) - a) : long[i] = s[a + i]
  <2> DEFINE c == b + 1
  <2>1. c \in a..Len(s)
    BY <1>1
  <2> HIDE DEF c
  <2>2. /\ SubSeq(s, a + 1, c) \in Seq(S) /\ Len(SubSeq(s, a + 1, c)) = c - a
        /\ \A i \in 1..(c - a) : SubSeq(s, a + 1, c)[i] = s[a + i]
    BY <2>1, Piece
  <2> QED  BY <2>2 DEF c
<1> HIDE DEF short, long
<1>4. /\ more \in Seq(S) /\ Len(more) = (b - a) + 1
      /\ \A i \in 1..(b - a) : more[i] = short[i]
      /\ more[(b - a) + 1] = s[b + 1]
  BY <1>1, <1>2, AppendProperties
<1>5. \A i \in 1..Len(long) : long[i] = more[i]
  <2> HIDE DEF more
  <2>1. \A i \in 1..(b - a) : long[i] = more[i]
    BY <1>1, <1>2, <1>3, <1>4
  <2>2. long[(b - a) + 1] = more[(b - a) + 1]
    <3>1. (b - a) + 1 \in 1..((b + 1) - a) /\ a + ((b - a) + 1) = b + 1
      BY <1>1
    <3> QED  BY <1>3, <1>4, <3>1
  <2>3. \A i \in 1..Len(long) : i \in 1..(b - a) \/ i = (b - a) + 1
    BY <1>1, <1>3
  <2> QED  BY <2>1, <2>2, <2>3
<1>6. long = more
  <2> HIDE DEF more
  <2>1. Len(long) = Len(more)
    BY <1>1, <1>3, <1>4
  <2> QED  BY <1>3, <1>4, <1>5, <2>1, SeqEqual
<1> QED  BY <1>6 DEF short, long, more

(* What is written behind it changes no piece.                             *)
LEMMA SamePiece ==
    ASSUME NEW S, NEW s \in Seq(S), NEW t \in Seq(S),
           NEW a \in 0..Len(s), NEW b \in a..Len(s)
    PROVE  SubSeq(s \o t, a + 1, b) = SubSeq(s, a + 1, b)
<1>1. /\ s \o t \in Seq(S) /\ Len(s \o t) = Len(s) + Len(t)
      /\ \A i \in 1..Len(s) : (s \o t)[i] = s[i]
      /\ Len(s) \in Nat /\ Len(t) \in Nat
  BY ConcatProperties, LenProperties
<1> DEFINE st == s \o t
           long == SubSeq(st, a + 1, b)
           short == SubSeq(s, a + 1, b)
<1> HIDE DEF st
<1>2. a \in 0..Len(st) /\ b \in a..Len(st) /\ st \in Seq(S)
  BY <1>1 DEF st
<1>3. /\ long \in Seq(S) /\ Len(long) = b - a /\ \A i \in 1..(b - a) : long[i] = st[a + i]
  BY <1>2, Piece
<1>4. /\ short \in Seq(S) /\ Len(short) = b - a /\ \A i \in 1..(b - a) : short[i] = s[a + i]
  BY Piece
<1>5. \A i \in 1..Len(long) : long[i] = short[i]
  BY <1>1, <1>3, <1>4 DEF st
<1>6. long = short
  <2> HIDE DEF long, short
  <2> QED  BY <1>3, <1>4, <1>5, SeqEqual
<1> QED  BY <1>6 DEF st

-----------------------------------------------------------------------------
(* What the client writes are bytes.                                       *)

(* A quotient of a number below w * p by p is a number below w.            *)
LEMMA QuotientBound ==
    ASSUME NEW w \in Nat \ {0}, NEW p \in Nat \ {0}, NEW n \in Nat, n < w * p
    PROVE  n \div p \in 0..(w - 1)
<1> DEFINE q == n \div p
           r == n % p
<1>1. q \in Int /\ r \in 0..(p - 1) /\ n = p * q + r
  BY Remainder
<1> HIDE DEF q, r
<1>2. ~(q <= -1)
  <2>1. q <= -1 => p * q <= -p
    BY <1>1
  <2> QED  BY <1>1, <2>1
<1>3. ~(q >= w)
  <2>1. q >= w => p * q >= p * w
    BY <1>1
  <2>2. p * w = w * p
    OBVIOUS
  <2> QED  BY <1>1, <2>1, <2>2
<1>4. q \in 0..(w - 1)
  BY <1>1, <1>2, <1>3
<1> QED  BY <1>4 DEF q

(* The fewest bytes in which a number fits.                                *)
LEMMA ShortestProperties ==
    ASSUME NEW v \in Int
    PROVE  /\ ShortestVarInt(v) \in 1..Width
           /\ (v % 2^Width) < 2^(Group * ShortestVarInt(v))
           /\ \A k \in 1..(ShortestVarInt(v) - 1) : (v % 2^Width) >= 2^(Group * k)
<1> DEFINE u == v % 2^Width
           T == {n \in 1..Width : u < 2^(Group * n)}
           Fits(n) == /\ u < 2^(Group * n)
                      /\ \A k \in 1..(n - 1) : u >= 2^(Group * k)
<1>1. Width \in Nat \ {0} /\ 2^Width \in Nat \ {0}
  BY Halves, WidthsAssumption
<1>2. u \in Nat /\ u < 2^Width
  <2> DEFINE M == 2^Width
  <2>1. M \in Nat \ {0}
    BY <1>1
  <2> HIDE DEF M
  <2>2. v % M \in 0..(M - 1)
    BY <2>1, Remainder
  <2>3. v % M \in Nat /\ (v % M) < M
    BY <2>1, <2>2
  <2> QED  BY <2>3 DEF M
<1> HIDE DEF u
<1>3. Width \in T
  <2>1. Width \in 0..(Group * Width) /\ Group * Width \in Width..(Group * Width)
    BY WidthsAssumption
  <2>2. 2^Width <= 2^(Group * Width) /\ 2^(Group * Width) \in Nat
    BY <2>1, PowersGrow, Powers
  <2> QED  BY <1>1, <1>2, <2>2
<1>4. PICK n \in T : \A k \in T : n <= k
  <2>1. T \subseteq Nat /\ T # {}
    BY <1>3
  <2> HIDE DEF T
  <2> QED  BY <2>1, LeastNumber
<1>5. n \in 1..Width /\ Fits(n)
  <2>1. ASSUME NEW k \in 1..(n - 1) PROVE u >= 2^(Group * k)
    <3>1. k \in 1..Width /\ k \notin T
      <4>1. n \in 1..Width /\ k < n /\ k \in 1..Width
        BY <1>1, <1>4
      <4> HIDE DEF T
      <4> QED  BY <1>4, <4>1
    <3>2. 2^(Group * k) \in Nat
      <4>1. k \in 0..Width
        BY <3>1
      <4> QED  BY <4>1, Places, Powers
    <3> QED  BY <1>2, <3>1, <3>2
  <2> QED  BY <1>4, <2>1
<1>6. ShortestVarInt(v) = CHOOSE k \in 1..Width : Fits(k)
  BY DEF ShortestVarInt, u
<1>7. ShortestVarInt(v) \in 1..Width /\ Fits(ShortestVarInt(v))
  <2> HIDE DEF Fits
  <2> QED  BY <1>5, <1>6
<1> QED  BY <1>7 DEF u

(* What Padded writes are as many bytes as it is asked for.                *)
LEMMA PaddedType ==
    ASSUME NEW v \in Int, NEW n \in 0..(Width + 1)
    PROVE  Padded(v, n) \in Seq(Byte) /\ Len(Padded(v, n)) = n
<1> DEFINE u == v % 2^Width
           d(i) == (u \div 2^(Group * (i - 1))) % 2^Group
           byte(i) == d(i) + (IF i < n THEN 2^Group ELSE 0)
<1>1. n \in Nat /\ 2^Width \in Nat \ {0} /\ 2^Group \in Nat \ {0} /\ Base = 2 * 2^Group
  BY Halves, WidthsAssumption
<1>2. u \in Int
  <2> DEFINE M == 2^Width
  <2> HIDE DEF M
  <2>1. M \in Nat \ {0}
    BY <1>1 DEF M
  <2>2. v % M \in Int
    BY <2>1, Remainder
  <2> QED  BY <2>2 DEF M
<1>3. ASSUME NEW i \in 1..n PROVE byte(i) \in Byte
  <2> DEFINE p == 2^(Group * (i - 1))
             w == 2^Group
  <2>1. i - 1 \in 0..Width
    BY <1>1, WidthsAssumption
  <2>2. p \in Nat \ {0}
    BY <2>1, Places, Powers
  <2>3. w \in Nat \ {0} /\ Base = 2 * w
    BY <1>1
  <2> HIDE DEF p, w, u
  <2>4. u \div p \in Int
    BY <1>2, <2>2, Remainder
  <2>5. ((u \div p) % w) \in 0..(w - 1)
    <3> DEFINE q == u \div p
    <3>1. q \in Int
      BY <2>4
    <3> HIDE DEF q
    <3>2. q % w \in 0..(w - 1)
      BY <2>3, <3>1, Remainder
    <3> QED  BY <3>2 DEF q
  <2>6. byte(i) = ((u \div p) % w) + (IF i < n THEN w ELSE 0)
    BY DEF p, w
  <2> HIDE DEF byte
  <2> QED  BY <2>3, <2>5, <2>6 DEF Byte
<1>4. Padded(v, n) = [i \in 1..n |-> byte(i)]
  BY DEF Padded
<1>5. [i \in 1..n |-> byte(i)] \in [1..n -> Byte]
  <2> HIDE DEF byte
  <2> QED  BY <1>3
<1> QED  BY <1>1, <1>4, <1>5, SeqDef, LenProperties

(* A client's VarInt is made of bytes, of one at least.                    *)
LEMMA ClientVarIntType ==
    ASSUME NEW v \in Int
    PROVE  ClientVarInt(v) \in Seq(Byte) /\ Len(ClientVarInt(v)) \in 1..Width
<1>1. ShortestVarInt(v) \in 1..Width
  BY ShortestProperties
<1>2. ShortestVarInt(v) \in 0..(Width + 1)
  BY <1>1, WidthsAssumption
<1> QED  BY <1>1, <1>2, PaddedType DEF ClientVarInt

(* Bytes behind bytes are bytes.                                           *)
LEMMA BytesAppended ==
    ASSUME NEW s \in Seq(Byte), NEW t \in Seq(Byte)
    PROVE  /\ s \o t \in Seq(Byte) /\ Len(s \o t) = Len(s) + Len(t)
           /\ Len(s) \in Nat /\ Len(t) \in Nat
BY ConcatProperties, LenProperties

(* A client's string is made of bytes.                                     *)
LEMMA ClientStringType ==
    ASSUME NEW s \in Seq(Byte)
    PROVE  ClientString(s) \in Seq(Byte)
<1>1. Len(s) \in Int
  BY LenProperties
<1>2. ClientVarInt(Len(s)) \in Seq(Byte)
  BY <1>1, ClientVarIntType
<1> QED  BY <1>2, BytesAppended DEF ClientString

(* A client's long is made of its number of bytes.                         *)
LEMMA ClientLongType ==
    ASSUME NEW v \in Int
    PROVE  ClientLong(v) \in Seq(Byte) /\ Len(ClientLong(v)) = LongBytes
<1> DEFINE byte(i) == (v % Base^(LongBytes - i + 1)) \div Base^(LongBytes - i)
<1>1. LongBytes \in Nat /\ Base \in Nat \ {0}
  BY Halves, WidthsAssumption
<1>2. ASSUME NEW i \in 1..LongBytes PROVE byte(i) \in Byte
  <2> DEFINE k == LongBytes - i
             p == Base^k
             M == Base^(k + 1)
  <2>1. k \in 0..LongBytes /\ k + 1 \in 1..LongBytes /\ (k + 1) - 1 = k
    BY <1>1
  <2>2. p \in Nat \ {0} /\ M \in Nat \ {0} /\ M = Base * p
    BY <2>1, BasePowers, PowersAssumption
  <2>3. byte(i) = (v % M) \div p
    OBVIOUS
  <2> DEFINE r == v % M
  <2> HIDE DEF p, M, byte
  <2>4. r \in 0..(M - 1)
    BY <2>2, Remainder
  <2>5. r \in Nat /\ r < Base * p
    BY <2>2, <2>4
  <2>6. byte(i) = r \div p
    BY <2>3
  <2> HIDE DEF r
  <2> QED  BY <1>1, <2>2, <2>5, <2>6, QuotientBound DEF Byte
<1>3. ClientLong(v) = [i \in 1..LongBytes |-> byte(i)]
  BY DEF ClientLong
<1>4. [i \in 1..LongBytes |-> byte(i)] \in [1..LongBytes -> Byte]
  <2> HIDE DEF byte
  <2> QED  BY <1>2
<1> QED  BY <1>1, <1>3, <1>4, SeqDef, LenProperties

(* The bytes that the messages of a client have as they stand.             *)
LEMMA SmallBytes ==
    /\ {0, 1, 2, 3} \subseteq Byte
    /\ <<>> \in Seq(Byte) /\ <<2>> \in Seq(Byte)
    /\ <<0, 1>> \in Seq(Byte) /\ <<1, 3>> \in Seq(Byte) /\ <<1, 0>> \in Seq(Byte)
<1>1. Group \in 0..(Group * Width) /\ Group >= 1
  BY WidthsAssumption
<1>2. Group < 2^Group /\ 2^Group \in Nat
  BY <1>1, Powers
<1>3. {0, 1, 2, 3} \subseteq Byte
  BY <1>1, <1>2, Halves DEF Byte
<1> QED  BY <1>3

(* Every message of the client is a sequence of bytes, its id at least.    *)
LEMMA MessageType ==
    ASSUME NEW m \in ClientMessages
    PROVE  m.bytes \in Seq(Byte)
<1> DEFINE B == Seq(Byte)
<1>1. \A s \in Strings : s \in B /\ ClientString(s) \in B
  BY ValuesAssumption, ClientStringType
<1>2. \A v \in VarInts : ClientVarInt(v) \in B
  BY ValuesAssumption, ClientVarIntType
<1>3. \A id \in 0..8 : ClientVarInt(id) \in B
  BY ClientVarIntType
<1>4. \A v \in Longs : ClientLong(v) \in B
  BY ValuesAssumption, ClientLongType
<1>5. \A f \in Fillers : f \in B
  BY ValuesAssumption
<1>6. \A s, t \in B : s \o t \in B
  BY BytesAppended
<1>7. <<>> \in B /\ <<2>> \in B /\ <<1, 3>> \in B /\ <<1, 0>> \in B /\ Port \in B
  BY SmallBytes DEF Port
<1> HIDE DEF B
<1>8. \A from, handler, fields, to :
          \A id \in 0..8, body \in B :
              Message(from, id, handler, fields, body, to).bytes \in B
  BY <1>3, <1>6 DEF Message
<1>9. 0 \in 0..8 /\ 1 \in 0..8 /\ 2 \in 0..8 /\ 3 \in 0..8 /\ 7 \in 0..8 /\ 8 \in 0..8
  OBVIOUS
<1>10. CASE m \in Handshakes
  <2>1. PICK v \in VarInts, a \in Strings, n \in {1, 2} :
            m = Message("Handshake", 0, "handshake", <<v, a, "dropped", n>>,
                        ClientVarInt(v) \o ClientString(a) \o Port \o ClientVarInt(n),
                        IF n = 1 THEN "Status" ELSE "Login")
    BY <1>10 DEF Handshakes
  <2>2. ClientVarInt(n) \in B
    BY <1>3
  <2>3. ClientVarInt(v) \o ClientString(a) \o Port \o ClientVarInt(n) \in B
    BY <1>1, <1>2, <1>6, <1>7, <2>2
  <2> QED  BY <1>8, <1>9, <2>1, <2>3 DEF B
<1>11. CASE m \in StatusMessages
  BY <1>4, <1>7, <1>8, <1>9, <1>11 DEF StatusMessages, B
<1>12. CASE m \in LoginMessages
  BY <1>1, <1>5, <1>7, <1>8, <1>9, <1>12 DEF LoginMessages, B
<1>13. CASE m \in ConfigurationMessages
  <2>1. ASSUME NEW s \in Strings, NEW v \in VarInts
        PROVE  InformationMessage(s, v).bytes \in B
    <3>1. ClientString(s) \o <<2>> \o ClientVarInt(v) \o <<1, 3>>
          \o ClientVarInt(0) \o <<1, 0>> \in B
      BY <1>1, <1>2, <1>3, <1>6, <1>7, <1>9
    <3> QED  BY <1>8, <1>9, <3>1 DEF InformationMessage
  <2>2. ASSUME NEW s \in Strings, NEW t \in Strings
        PROVE  PacksMessage(s, t).bytes \in B
    <3>1. ClientVarInt(1) \o ClientString(s) \o ClientString(t) \o ClientString(s) \in B
      BY <1>1, <1>3, <1>6, <1>9
    <3> QED  BY <1>8, <1>9, <3>1 DEF PacksMessage
  <2>3. ASSUME NEW f \in Fillers
        PROVE  Message("Configuration", 8, "ignored", <<>>, f, "Configuration").bytes \in B
    BY <1>5, <1>8, <1>9
  <2>4. Message("Configuration", 3, "acknowledgeFinish", <<>>, <<>>, "Play").bytes \in B
    BY <1>7, <1>8, <1>9
  <2> QED  BY <1>13, <2>1, <2>2, <2>3, <2>4 DEF ConfigurationMessages, B
<1>14. CASE m \in PlayMessages
  BY <1>2, <1>8, <1>9, <1>14 DEF PlayMessages, B
<1> QED  BY <1>10, <1>11, <1>12, <1>13, <1>14 DEF ClientMessages

-----------------------------------------------------------------------------
(* The invariant: where the receiver is in the stream.                     *)

Ints == -(2^(Width - 1))..(2^(Width - 1) - 1)

PacketRecords == [at : Nat, id : Ints, size : Ints, data : Seq(Byte)]

TypeInv ==
    /\ stream \in Seq(Byte)
    /\ consumed \in 0..Len(stream)
    /\ reader \in [at : {"size", "id", "body"}, value : 0..(2^Width - 1),
                   bytes : 0..(Width - 1), size : Ints, id : Ints, left : Nat]
    /\ packets \in Seq(PacketRecords)
    /\ incoming \in Seq(PacketRecords)

\* A VarInt with the value v between two positions of the stream.
VarIntLies(a, b, v) == a < b /\ IsVarInt(SubSeq(stream, a + 1, b), v)

\* Packets start where the one before has ended, which makes the end of all
\* of them the start of the next.
StartOf(i) == IF i = 1 THEN 0 ELSE packets[i - 1].at

NextStart == StartOf(Len(packets) + 1)

\* A VarInt has begun behind a position, and has not ended.
VarIntBegun(a) ==
    /\ a + reader.bytes = consumed
    /\ Group * reader.bytes < Width
    /\ \A k \in (a + 1)..consumed : More(stream[k])
    /\ reader.value = Spelled(SubSeq(stream, a + 1, consumed)) % 2^Width

\* What is read of the body, and what is left, is as long as the size says.
BodyBegun(q, r) ==
    /\ q < r /\ r <= consumed
    /\ VarIntLies(q, r, reader.id)
    /\ r = q + reader.bytes + 1
    /\ reader.left > 0
    /\ reader.left + (consumed - r) = remaining

ReaderInv ==
    /\ NextStart \in 0..consumed
    /\ reader.at = "size" => VarIntBegun(NextStart)
    /\ reader.at = "id" =>
           \E q \in 0..consumed : VarIntLies(NextStart, q, reader.size) /\ VarIntBegun(q)
    /\ reader.at = "body" =>
           \E q, r \in 0..consumed :
               VarIntLies(NextStart, q, reader.size) /\ BodyBegun(q, r)

\* Everything that has been written would fit into a packet.  Beyond it the
\* int may overflow from which a packet's size has been subtracted, and a packet
\* of negative size be taken for one of some 2^(Width - 1) bytes.
IsShort == Len(stream) + Width < 2^(Width - 1)

\* A packet begins with its size, and lies where PacketsCoverStream says.
SizeLies(i) == \E q \in 0..consumed : VarIntLies(StartOf(i), q, packets[i].size)

IsCovered(i) ==
    \E q, r \in 0..consumed :
        /\ VarIntLies(StartOf(i), q, packets[i].size)
        /\ VarIntLies(q, r, packets[i].id)
        /\ r <= packets[i].at
        /\ packets[i].size = packets[i].at - q
        /\ packets[i].data = SubSeq(stream, r + 1, packets[i].at)

PacketsInv ==
    \A i \in 1..Len(packets) :
        /\ StartOf(i) \in 0..consumed /\ packets[i].at \in 0..consumed
        /\ StartOf(i) < packets[i].at
        /\ SizeLies(i)
        /\ packets[i].size >= 0 => IsCovered(i)
        /\ IsShort => packets[i].size >= 0

IInv == TypeInv /\ ReaderInv /\ PacketsInv

-----------------------------------------------------------------------------
(* Reading a VarInt.                                                       *)

(* Bytes are integers.                                                     *)
LEMMA BytesAreInts ==
    \A s \in Seq(Byte) : s \in Seq(Int)
<1> SUFFICES ASSUME NEW s \in Seq(Byte) PROVE s \in Seq(Int)
  OBVIOUS
<1>1. \A i \in 1..Len(s) : s[i] \in Int
  BY Halves, ElementOfSeq DEF Byte
<1>2. s = [i \in 1..Len(s) |-> s[i]] /\ Len(s) \in Nat
  BY LenProperties
<1>3. [i \in 1..Len(s) |-> s[i]] \in [1..Len(s) -> Int]
  BY <1>1
<1> QED  BY <1>2, <1>3, SeqDef

(* The byte that is read next adds its digit to those of the VarInt that   *)
(* has begun.                                                              *)
LEMMA NextByte ==
    ASSUME TypeInv, NEW a, a \in 0..consumed, VarIntBegun(a), consumed < Len(stream)
    PROVE  /\ consumed + 1 \in 1..Len(stream) /\ stream[consumed + 1] \in Int
           /\ Accumulated \in 0..(2^Width - 1)
           /\ Accumulated = Spelled(SubSeq(stream, a + 1, consumed + 1)) % 2^Width
           /\ VarintValue = Signed(Spelled(SubSeq(stream, a + 1, consumed + 1)), Width)
           /\ VarintValue \in Ints
<1> DEFINE M == 2^Width
           short == SubSeq(stream, a + 1, consumed)
           long == SubSeq(stream, a + 1, consumed + 1)
           b == stream[consumed + 1]
           term == Digit(b) * 2^(Group * reader.bytes)
<1>1. /\ stream \in Seq(Byte) /\ Len(stream) \in Nat /\ consumed \in 0..(Len(stream) - 1)
      /\ a \in 0..Len(stream) /\ consumed \in a..(Len(stream) - 1)
      /\ consumed \in a..Len(stream)
  BY LenProperties DEF TypeInv
<1>2. /\ consumed + 1 \in 1..Len(stream) /\ b \in Int
  <2>1. consumed + 1 \in 1..Len(stream)
    BY <1>1
  <2>2. stream \in Seq(Int)
    BY <1>1, BytesAreInts
  <2> QED  BY <2>1, <2>2, ElementOfSeq
<1>3. short \in Seq(Int) /\ Len(short) = reader.bytes /\ Len(short) < Width
  <2>1. short \in Seq(Byte) /\ Len(short) = consumed - a
    BY <1>1, Piece
  <2>2. reader.bytes \in 0..(Width - 1) /\ a + reader.bytes = consumed
    BY DEF TypeInv, VarIntBegun
  <2> HIDE DEF short
  <2> QED  BY <1>1, <2>1, <2>2, BytesAreInts, WidthsAssumption
<1>4. long = Append(short, b)
  BY <1>1, LongerPiece
<1>5. Spelled(short) \in Nat /\ Spelled(long) = Spelled(short) + term
  <2> HIDE DEF short, b
  <2>1. /\ Spelled(short) \in Nat
        /\ Spelled(Append(short, b)) = Spelled(short) + Digit(b) * 2^(Group * Len(short))
    BY <1>2, <1>3, SpelledAppend
  <2> QED  BY <1>3, <1>4, <2>1
<1>6. term \in Nat
  <2>1. reader.bytes \in 0..Width
    BY WidthsAssumption DEF TypeInv
  <2>2. 2^(Group * reader.bytes) \in Nat
    BY <2>1, Places, Powers
  <2>3. Digit(b) \in Nat
    BY <1>2, DigitType
  <2>4. \A x, y \in Nat : x * y \in Nat
    OBVIOUS
  <2> HIDE DEF b
  <2> QED  BY <2>2, <2>3, <2>4
<1>7. M \in Nat \ {0}
  BY Halves, WidthsAssumption
<1>8. Accumulated = (reader.value + term) % M
  BY DEF Accumulated
<1>9. reader.value = Spelled(short) % M
  BY DEF VarIntBegun
<1>10. VarintValue = Signed(Accumulated, Width)
  BY DEF VarintValue
<1> DEFINE x == Spelled(short)
<1> HIDE DEF M, term, long, short
<1>11. x \in Int /\ term \in Int
  BY <1>5, <1>6
<1>12. Accumulated = Spelled(long) % M
  <2> HIDE DEF x
  <2>1. ((x % M) + term) % M = (x + term) % M
    BY <1>7, <1>11, RemainderOfSum
  <2> QED  BY <1>5, <1>8, <1>9, <2>1 DEF x
<1>13. Spelled(long) \in Int
  BY <1>5, <1>11
<1>14. Accumulated \in 0..(M - 1)
  <2> DEFINE y == Spelled(long)
  <2>1. y \in Int
    BY <1>13
  <2> HIDE DEF y
  <2>2. y % M \in 0..(M - 1)
    BY <1>7, <2>1, Remainder
  <2> QED  BY <1>12, <2>2 DEF y
<1>15. VarintValue = Signed(Spelled(long), Width) /\ VarintValue \in Ints
  BY <1>10, <1>12, <1>13, SignedProperties DEF M, Ints
<1> QED  BY <1>2, <1>12, <1>14, <1>15 DEF M, long

(* A byte that ends a VarInt.                                              *)
LEMMA VarIntEnds ==
    ASSUME TypeInv, NEW a, a \in 0..consumed, VarIntBegun(a), consumed < Len(stream),
           ~More(stream[consumed + 1])
    PROVE  VarIntLies(a, consumed + 1, VarintValue)
<1> DEFINE c == consumed + 1
           bytes == SubSeq(stream, a + 1, c)
<1>1. /\ stream \in Seq(Byte) /\ Len(stream) \in Nat /\ consumed \in Nat
      /\ a \in 0..Len(stream) /\ c \in a..Len(stream) /\ a < c
  BY LenProperties DEF TypeInv
<1>2. /\ bytes \in Seq(Byte) /\ Len(bytes) = c - a
      /\ \A i \in 1..(c - a) : bytes[i] = stream[a + i]
  <2> HIDE DEF c
  <2> QED  BY <1>1, Piece
<1>3. VarintValue = Signed(Spelled(bytes), Width)
  BY NextByte
<1> HIDE DEF bytes
<1>4. DOMAIN bytes = 1..(c - a) /\ bytes # <<>>
  <2>1. DOMAIN bytes = 1..Len(bytes)
    BY <1>2, LenProperties
  <2>2. Len(bytes) # 0
    BY <1>1, <1>2
  <2> QED  BY <1>2, <2>1, <2>2, EmptySeq
<1>5. ASSUME NEW k \in 1..(c - a) PROVE More(bytes[k]) <=> k < c - a
  <2>1. CASE k < c - a
    <3>1. a + k \in (a + 1)..consumed
      BY <1>1, <2>1
    <3> QED  BY <1>2, <2>1, <3>1 DEF VarIntBegun
  <2>2. CASE k = c - a
    <3>1. a + k = consumed + 1
      BY <1>1, <2>2
    <3> QED  BY <1>1, <1>2, <2>2, <3>1
  <2> QED  BY <1>1, <2>1, <2>2
<1>6. IsVarInt(bytes, VarintValue)
  BY <1>2, <1>3, <1>4, <1>5 DEF IsVarInt
<1> QED  BY <1>1, <1>6 DEF VarIntLies, bytes

(* A position at which a VarInt may begin: nothing of it has been read.    *)
LEMMA NothingSpelled ==
    ASSUME NEW s \in Seq(Byte), NEW c \in 0..Len(s)
    PROVE  Spelled(SubSeq(s, c + 1, c)) % 2^Width = 0
<1> DEFINE none == SubSeq(s, c + 1, c)
           M == 2^Width
<1>1. c \in c..Len(s) /\ c - c = 0
  BY LenProperties
<1>2. none \in Seq(Byte) /\ Len(none) = 0
  BY <1>1, Piece
<1>3. none = <<>>
  <2> HIDE DEF none
  <2> QED  BY <1>2, EmptySeq
<1>4. M \in Nat \ {0}
  BY Halves, WidthsAssumption
<1>5. 0 % M = 0
  <2> HIDE DEF M
  <2>1. 0 = M * 0 + 0 /\ 0 \in 0..(M - 1)
    BY <1>4
  <2> QED  BY <1>4, <2>1, RemainderIsUnique
<1> QED  BY <1>3, <1>5, SpelledEmpty

-----------------------------------------------------------------------------
(* The steps.                                                              *)

receiverState == <<consumed, reader, packets>>

(* What the client writes leaves what the receiver has read as it is.      *)
LEMMA StreamGrows ==
    ASSUME IInv, NEW t \in Seq(Byte), stream' = stream \o t,
           UNCHANGED <<receiverState, incoming>>
    PROVE  IInv'
<1> USE DEF receiverState
<1>1. /\ stream \in Seq(Byte) /\ stream' \in Seq(Byte)
      /\ Len(stream) \in Nat /\ Len(stream) <= Len(stream') /\ Len(stream') \in Nat
      /\ consumed \in 0..Len(stream)
  BY BytesAppended DEF IInv, TypeInv
<1>2. \A k \in 1..consumed : stream'[k] = stream[k]
  BY <1>1, ConcatProperties
<1>3. \A a, b \in 0..consumed :
          a <= b => SubSeq(stream', a + 1, b) = SubSeq(stream, a + 1, b)
  <2> SUFFICES ASSUME NEW a \in 0..consumed, NEW b \in 0..consumed, a <= b
               PROVE  SubSeq(stream', a + 1, b) = SubSeq(stream, a + 1, b)
    OBVIOUS
  <2>1. a \in 0..Len(stream) /\ b \in a..Len(stream)
    BY <1>1
  <2> QED  BY <1>1, <2>1, SamePiece
<1>4. \A a, b \in 0..consumed : \A v : VarIntLies(a, b, v) => VarIntLies(a, b, v)'
  <2> SUFFICES ASSUME NEW a \in 0..consumed, NEW b \in 0..consumed, NEW v,
                      VarIntLies(a, b, v)
               PROVE  VarIntLies(a, b, v)'
    OBVIOUS
  <2>1. a <= b
    BY <1>1 DEF VarIntLies
  <2>2. SubSeq(stream', a + 1, b) = SubSeq(stream, a + 1, b)
    BY <1>3, <2>1
  <2> QED  BY <2>2 DEF VarIntLies
<1>5. TypeInv'
  BY <1>1 DEF IInv, TypeInv
<1>6. \A i : StartOf(i)' = StartOf(i)
  BY DEF StartOf
<1>7. NextStart' = NextStart /\ NextStart \in 0..consumed
  BY DEF NextStart, StartOf, IInv, ReaderInv
<1>8. remaining' = remaining
  BY DEF remaining
<1>9. ASSUME NEW a \in 0..consumed, VarIntBegun(a)
      PROVE  VarIntBegun(a)'
  <2>1. \A k \in (a + 1)..consumed : k \in 1..consumed
    BY <1>1
  <2>2. SubSeq(stream', a + 1, consumed) = SubSeq(stream, a + 1, consumed)
    BY <1>1, <1>3
  <2> QED  BY <1>2, <1>9, <2>1, <2>2 DEF VarIntBegun
<1>10. ReaderInv'
  <2>1. CASE reader.at = "size"
    BY <1>7, <1>9, <2>1 DEF IInv, ReaderInv
  <2>2. CASE reader.at = "id"
    <3>1. PICK q \in 0..consumed : VarIntLies(NextStart, q, reader.size) /\ VarIntBegun(q)
      BY <2>2 DEF IInv, ReaderInv
    <3> QED  BY <1>4, <1>7, <1>9, <2>2, <3>1 DEF ReaderInv
  <2>3. CASE reader.at = "body"
    <3>1. PICK q, r \in 0..consumed : VarIntLies(NextStart, q, reader.size) /\ BodyBegun(q, r)
      BY <2>3 DEF IInv, ReaderInv
    <3>2. VarIntLies(NextStart, q, reader.size)' /\ BodyBegun(q, r)'
      BY <1>4, <1>7, <1>8, <3>1 DEF BodyBegun
    <3> QED  BY <1>7, <2>3, <3>1, <3>2 DEF ReaderInv
  <2> QED  BY <2>1, <2>2, <2>3 DEF IInv, TypeInv
<1>11. PacketsInv'
  <2> SUFFICES ASSUME NEW i \in 1..Len(packets)
               PROVE  /\ StartOf(i) \in 0..consumed /\ packets[i].at \in 0..consumed
                      /\ StartOf(i) < packets[i].at
                      /\ SizeLies(i)'
                      /\ packets[i].size >= 0 => IsCovered(i)'
                      /\ IsShort' => packets[i].size >= 0
    BY <1>6 DEF PacketsInv
  <2>1. /\ StartOf(i) \in 0..consumed /\ packets[i].at \in 0..consumed
        /\ StartOf(i) < packets[i].at
        /\ SizeLies(i)
        /\ packets[i].size >= 0 => IsCovered(i)
        /\ IsShort => packets[i].size >= 0
    BY DEF IInv, PacketsInv
  <2>2. IsShort' => IsShort
    BY <1>1, Halves, WidthsAssumption DEF IsShort
  <2>3. ASSUME packets[i].size >= 0 PROVE IsCovered(i)'
    <3>1. PICK q, r \in 0..consumed :
              /\ VarIntLies(StartOf(i), q, packets[i].size)
              /\ VarIntLies(q, r, packets[i].id)
              /\ r <= packets[i].at
              /\ packets[i].size = packets[i].at - q
              /\ packets[i].data = SubSeq(stream, r + 1, packets[i].at)
      BY <2>1, <2>3 DEF IsCovered
    <3>2. /\ VarIntLies(StartOf(i), q, packets[i].size)'
          /\ VarIntLies(q, r, packets[i].id)'
      BY <1>4, <1>6, <2>1, <3>1
    <3>3. packets[i].data = SubSeq(stream', r + 1, packets[i].at)
      BY <1>3, <2>1, <3>1
    <3> QED  BY <3>1, <3>2, <3>3 DEF IsCovered
  <2>4. SizeLies(i)'
    BY <1>4, <1>6, <2>1 DEF SizeLies
  <2> QED  BY <2>1, <2>2, <2>3, <2>4
<1> QED  BY <1>5, <1>10, <1>11 DEF IInv

(* What takes packets, or closes the connection, does so too.              *)
LEMMA ReceiverRests ==
    ASSUME IInv, UNCHANGED <<receiverState, stream>>,
           incoming' = incoming \/ (incoming # <<>> /\ incoming' = Tail(incoming))
    PROVE  IInv'
<1>1. incoming' \in Seq(PacketRecords)
  <2>1. incoming \in Seq(PacketRecords)
    BY DEF IInv, TypeInv
  <2> QED  BY <2>1, HeadTailProperties
<1>2. TypeInv'
  BY <1>1 DEF IInv, TypeInv, receiverState
<1>3. ReaderInv' /\ PacketsInv'
  <2>1. /\ NextStart' = NextStart /\ \A i : StartOf(i)' = StartOf(i)
        /\ remaining' = remaining /\ IsShort' = IsShort
    BY DEF NextStart, StartOf, remaining, receiverState, IsShort
  <2>2. \A a, b, v : VarIntLies(a, b, v)' = VarIntLies(a, b, v)
    BY DEF VarIntLies
  <2>3. \A a : VarIntBegun(a)' = VarIntBegun(a)
    BY DEF VarIntBegun, receiverState
  <2>4. \A q, r : BodyBegun(q, r)' = BodyBegun(q, r)
    BY <2>1, <2>2 DEF BodyBegun, receiverState
  <2>5. \A i : IsCovered(i)' = IsCovered(i) /\ SizeLies(i)' = SizeLies(i)
    BY <2>1, <2>2 DEF IsCovered, SizeLies, receiverState
  <2>6. ReaderInv'
    BY <2>1, <2>2, <2>3, <2>4 DEF IInv, ReaderInv, receiverState
  <2>7. PacketsInv'
    BY <2>1, <2>5 DEF IInv, PacketsInv, receiverState
  <2> QED  BY <2>6, <2>7
<1> QED  BY <1>2, <1>3 DEF IInv

(* What the receiver reads further changes nothing about the packets that  *)
(* it has read.                                                            *)
LEMMA PacketsStay ==
    ASSUME IInv, UNCHANGED <<stream, packets>>, consumed' \in consumed..Len(stream)
    PROVE  /\ PacketsInv'
           /\ NextStart' = NextStart /\ NextStart \in 0..consumed /\ NextStart \in 0..consumed'
           /\ 0..consumed \subseteq 0..consumed'
           /\ \A a, b, v : VarIntLies(a, b, v)' = VarIntLies(a, b, v)
<1>1. /\ consumed \in 0..Len(stream) /\ Len(stream) \in Nat
  BY LenProperties DEF IInv, TypeInv
<1>2. 0..consumed \subseteq 0..consumed'
  BY <1>1
<1>3. /\ NextStart' = NextStart /\ \A i : StartOf(i)' = StartOf(i)
      /\ IsShort' = IsShort
  BY DEF NextStart, StartOf, IsShort
<1>4. \A a, b, v : VarIntLies(a, b, v)' = VarIntLies(a, b, v)
  BY DEF VarIntLies
<1>5. ASSUME NEW i
      PROVE  (IsCovered(i) => IsCovered(i)') /\ (SizeLies(i) => SizeLies(i)')
  BY <1>2, <1>3, <1>4 DEF IsCovered, SizeLies
<1>6. PacketsInv'
  BY <1>2, <1>3, <1>5 DEF IInv, PacketsInv
<1>7. NextStart \in 0..consumed
  BY DEF IInv, ReaderInv
<1> QED  BY <1>2, <1>3, <1>4, <1>6, <1>7

(* A byte of a VarInt that others follow keeps the invariant.              *)
LEMMA ContinuesStep ==
    ASSUME IInv, VarintContinues
    PROVE  IInv'
<1>1. /\ stream \in Seq(Byte) /\ stream' = stream /\ packets' = packets
      /\ incoming' = incoming /\ consumed' = consumed + 1
      /\ consumed \in 0..Len(stream) /\ consumed < Len(stream) /\ Len(stream) \in Nat
      /\ reader.at \in {"size", "id"} /\ More(stream[consumed + 1])
      /\ Group * (reader.bytes + 1) < Width
      /\ reader' = [reader EXCEPT !.value = Accumulated, !.bytes = @ + 1]
  BY LenProperties DEF IInv, TypeInv, VarintContinues, ByteToRead, clientVars
<1>2. consumed' \in consumed..Len(stream)
  BY <1>1
<1>3. /\ PacketsInv'
      /\ NextStart' = NextStart /\ NextStart \in 0..consumed /\ NextStart \in 0..consumed'
      /\ 0..consumed \subseteq 0..consumed'
      /\ \A a, b, v : VarIntLies(a, b, v)' = VarIntLies(a, b, v)
  BY <1>1, <1>2, PacketsStay
<1>4. reader \in [at : {"size", "id", "body"}, value : 0..(2^Width - 1),
                 bytes : 0..(Width - 1), size : Ints, id : Ints, left : Nat]
  BY DEF IInv, TypeInv
<1>5. reader'.value = Accumulated /\ reader'.bytes = reader.bytes + 1
      /\ reader'.at = reader.at /\ reader'.size = reader.size
  BY <1>1, <1>4
<1>6. ASSUME NEW a \in 0..consumed, VarIntBegun(a)
      PROVE  VarIntBegun(a)' /\ Accumulated \in 0..(2^Width - 1)
  <2>1. /\ Accumulated \in 0..(2^Width - 1)
        /\ Accumulated = Spelled(SubSeq(stream, a + 1, consumed + 1)) % 2^Width
    BY <1>1, <1>6, NextByte DEF IInv
  <2>2. a + (reader.bytes + 1) = consumed + 1
    BY <1>1, <1>4, <1>6 DEF VarIntBegun
  <2>3. \A k \in (a + 1)..(consumed + 1) : More(stream[k])
    BY <1>1, <1>6 DEF VarIntBegun
  <2> QED  BY <1>1, <1>5, <2>1, <2>2, <2>3 DEF VarIntBegun
<1>7. reader.bytes + 1 \in 0..(Width - 1)
  <2>1. Group * (reader.bytes + 1) >= reader.bytes + 1
    BY <1>4, WidthsAssumption
  <2> QED  BY <1>1, <1>4, <2>1, WidthsAssumption
<1>8. ASSUME Accumulated \in 0..(2^Width - 1)
       PROVE  reader' \in [at : {"size", "id", "body"}, value : 0..(2^Width - 1),
                           bytes : 0..(Width - 1), size : Ints, id : Ints, left : Nat]
  BY <1>1, <1>4, <1>7, <1>8
<1>9. CASE reader.at = "size"
  <2>1. VarIntBegun(NextStart)
    BY <1>9 DEF IInv, ReaderInv
  <2>2. VarIntBegun(NextStart)' /\ Accumulated \in 0..(2^Width - 1)
    BY <1>3, <1>6, <2>1
  <2>3. ReaderInv'
    BY <1>3, <1>5, <1>9, <2>2 DEF ReaderInv
  <2>4. TypeInv'
    BY <1>1, <1>2, <1>8, <2>2 DEF IInv, TypeInv
  <2> QED  BY <1>3, <2>3, <2>4 DEF IInv
<1>10. CASE reader.at = "id"
  <2>1. PICK q \in 0..consumed : VarIntLies(NextStart, q, reader.size) /\ VarIntBegun(q)
    BY <1>10 DEF IInv, ReaderInv
  <2>2. VarIntBegun(q)' /\ Accumulated \in 0..(2^Width - 1)
    BY <1>6, <2>1
  <2>3. VarIntLies(NextStart, q, reader.size)'
    BY <1>3, <1>5, <2>1
  <2>4. ReaderInv'
    BY <1>3, <1>5, <1>10, <2>2, <2>3 DEF ReaderInv
  <2>5. TypeInv'
    BY <1>1, <1>2, <1>8, <2>2 DEF IInv, TypeInv
  <2> QED  BY <1>3, <2>4, <2>5 DEF IInv
<1> QED  BY <1>1, <1>9, <1>10

(* The last byte of a size keeps the invariant.                            *)
LEMMA SizeStep ==
    ASSUME IInv, SizeIsRead
    PROVE  IInv'
<1>1. /\ stream \in Seq(Byte) /\ stream' = stream /\ packets' = packets
      /\ incoming' = incoming /\ consumed' = consumed + 1
      /\ consumed \in 0..Len(stream) /\ consumed < Len(stream) /\ Len(stream) \in Nat
      /\ reader.at = "size" /\ ~More(stream[consumed + 1])
      /\ reader' = [Idle EXCEPT !.at = "id", !.size = VarintValue]
  BY LenProperties DEF IInv, TypeInv, SizeIsRead, ByteToRead, clientVars
<1>2. consumed' \in consumed..Len(stream)
  BY <1>1
<1>3. /\ PacketsInv'
      /\ NextStart' = NextStart /\ NextStart \in 0..consumed /\ NextStart \in 0..consumed'
      /\ \A a, b, v : VarIntLies(a, b, v)' = VarIntLies(a, b, v)
  BY <1>1, <1>2, PacketsStay
<1>4. VarIntBegun(NextStart)
  BY <1>1 DEF IInv, ReaderInv
<1>5. VarintValue \in Ints /\ VarIntLies(NextStart, consumed + 1, VarintValue)
  BY <1>1, <1>3, <1>4, NextByte, VarIntEnds DEF IInv
<1>6. /\ reader'.at = "id" /\ reader'.size = VarintValue
      /\ reader'.bytes = 0 /\ reader'.value = 0 /\ reader'.id = 0 /\ reader'.left = 0
  BY <1>1 DEF Idle
<1>7. TypeInv'
  <2>1. 0 \in Ints /\ 0 \in 0..(2^Width - 1) /\ 0 \in 0..(Width - 1)
    BY Halves, WidthsAssumption DEF Ints
  <2>2. reader' \in [at : {"size", "id", "body"}, value : 0..(2^Width - 1),
                 bytes : 0..(Width - 1), size : Ints, id : Ints, left : Nat]
    BY <1>1, <1>5, <2>1 DEF Idle
  <2> QED  BY <1>1, <1>2, <2>2 DEF IInv, TypeInv
<1>8. PICK c \in 0..Len(stream) : c = consumed + 1
  BY <1>1
<1>9. VarIntBegun(c)'
  <2>1. c \in Int /\ c + 0 = c /\ \A k \in (c + 1)..c : FALSE
    BY <1>1
  <2>2. Spelled(SubSeq(stream, c + 1, c)) % 2^Width = 0
    BY <1>1, NothingSpelled
  <2>3. Group * 0 < Width
    BY WidthsAssumption
  <2> QED  BY <1>1, <1>6, <1>8, <2>1, <2>2, <2>3 DEF VarIntBegun
<1>10. ReaderInv'
  <2>1. c \in 0..consumed'
    BY <1>1, <1>8
  <2>2. VarIntLies(NextStart, c, reader.size)'
    BY <1>3, <1>5, <1>6, <1>8
  <2> QED  BY <1>3, <1>6, <1>9, <2>1, <2>2 DEF ReaderInv
<1> QED  BY <1>3, <1>7, <1>10 DEF IInv

(* What is left for the body.                                              *)
LEMMA RemainingProperties ==
    ASSUME TypeInv
    PROVE  /\ remaining \in Ints
           /\ reader.size >= 0 => remaining = reader.size - (reader.bytes + 1)
           /\ reader.size < 0 => remaining < 0 \/ remaining + Width >= 2^(Width - 1)
<1> DEFINE H == 2^(Width - 1)
           M == 2^Width
           n == reader.size - (reader.bytes + 1)
<1>1. H \in Nat /\ M = 2 * H /\ Width <= H
  BY Halves
<1>2. reader.size \in -H..(H - 1) /\ reader.bytes \in 0..(Width - 1)
  BY DEF TypeInv, Ints
<1>3. remaining = Signed(n, Width)
  BY DEF remaining
<1>4. n \in Int
  BY <1>2, WidthsAssumption
<1>5. /\ Signed(n, Width) \in -H..(H - 1)
      /\ n \in -H..(H - 1) => Signed(n, Width) = n
      /\ n < -H /\ n >= -M => Signed(n, Width) = n + M
  <2> HIDE DEF n
  <2> QED  BY <1>4, SignedProperties
<1>6. remaining \in Ints
  BY <1>3, <1>5 DEF Ints
<1> HIDE DEF H, M
<1>7. n < H /\ n >= -M /\ n < reader.size /\ n + Width >= reader.size
  BY <1>1, <1>2, WidthsAssumption
<1>8. reader.size >= 0 => n \in -H..(H - 1)
  BY <1>1, <1>2, <1>4, <1>7, WidthsAssumption
<1> DEFINE s == Signed(n, Width)
<1> HIDE DEF n
<1>9. reader.size >= 0 => remaining = n
  BY <1>3, <1>5, <1>8
<1>10. reader.size < 0 => remaining < 0 \/ remaining + Width >= H
  <2> SUFFICES ASSUME reader.size < 0 PROVE remaining < 0 \/ remaining + Width >= H
    OBVIOUS
  <2>1. CASE n >= -H
    <3>1. n \in -H..(H - 1) /\ n < 0
      BY <1>1, <1>2, <1>4, <1>7, <2>1
    <3>2. remaining = n
      BY <1>3, <1>5, <3>1
    <3> QED  BY <3>1, <3>2
  <2>2. CASE n < -H
    <3>1. s = n + M
      BY <1>1, <1>4, <1>5, <1>7, <2>2
    <3>2. reader.size >= -H /\ n + Width >= -H
      BY <1>1, <1>2, <1>4, <1>7, WidthsAssumption
    <3>3. (n + M) + Width >= H
      BY <1>1, <1>4, <3>2, WidthsAssumption
    <3> QED  BY <1>3, <3>1, <3>3 DEF s
  <2> QED  BY <1>1, <1>4, <2>1, <2>2
<1> QED  BY <1>6, <1>9, <1>10 DEF H, n

(* A packet that is complete.                                              *)
LEMMA PacketDelivered ==
    ASSUME IInv, stream' = stream, consumed' \in (consumed + 1)..Len(stream),
           NEW p \in PacketRecords, p.at = consumed',
           packets' = Append(packets, p), incoming' = Append(incoming, p),
           reader' = Idle,
           IsShort => p.size >= 0,
           \E q \in 0..p.at : VarIntLies(NextStart, q, p.size),
           p.size >= 0 => \E q, r \in 0..p.at :
                              /\ VarIntLies(NextStart, q, p.size)
                              /\ VarIntLies(q, r, p.id)
                              /\ p.size = p.at - q
                              /\ p.data = SubSeq(stream, r + 1, p.at)
    PROVE  IInv'
<1> DEFINE n == Len(packets)
<1>1. /\ stream \in Seq(Byte) /\ consumed \in 0..Len(stream) /\ Len(stream) \in Nat
      /\ packets \in Seq(PacketRecords) /\ incoming \in Seq(PacketRecords)
      /\ n \in Nat
  BY LenProperties DEF IInv, TypeInv
<1>2. /\ packets' \in Seq(PacketRecords) /\ incoming' \in Seq(PacketRecords)
      /\ Len(packets') = n + 1 /\ packets'[n + 1] = p
      /\ \A i \in 1..n : packets'[i] = packets[i]
  BY <1>1, AppendProperties
<1>3. /\ consumed' \in 0..Len(stream) /\ consumed' \in Nat
      /\ 0..consumed \subseteq 0..consumed' /\ consumed < consumed'
  BY <1>1
<1>4. TypeInv'
  <2>1. 0 \in Ints /\ 0 \in 0..(2^Width - 1) /\ 0 \in 0..(Width - 1)
    BY Halves, WidthsAssumption DEF Ints
  <2>2. reader' \in [at : {"size", "id", "body"}, value : 0..(2^Width - 1),
                    bytes : 0..(Width - 1), size : Ints, id : Ints, left : Nat]
    BY <2>1 DEF Idle
  <2> QED  BY <1>1, <1>2, <1>3, <2>2 DEF TypeInv
<1>5. \A i \in 1..(n + 1) : StartOf(i)' = StartOf(i)
  <2> SUFFICES ASSUME NEW i \in 1..(n + 1), i # 1 PROVE packets'[i - 1] = packets[i - 1]
    BY DEF StartOf
  <2> QED  BY <1>1, <1>2
<1>6. NextStart' = consumed' /\ NextStart = StartOf(n + 1)
  <2>1. (n + 1) + 1 # 1 /\ ((n + 1) + 1) - 1 = n + 1
    BY <1>1
  <2> QED  BY <1>2, <2>1 DEF NextStart, StartOf
<1>7. \A a, b, v : VarIntLies(a, b, v)' = VarIntLies(a, b, v)
  BY DEF VarIntLies
<1>8. PICK c \in 0..Len(stream) : c = consumed'
  BY <1>3
<1>9. VarIntBegun(c)'
  <2>1. c \in Int /\ c + 0 = c /\ \A k \in (c + 1)..c : FALSE
    BY <1>1
  <2>2. Spelled(SubSeq(stream, c + 1, c)) % 2^Width = 0
    BY <1>1, NothingSpelled
  <2>3. Group * 0 < Width
    BY WidthsAssumption
  <2>4. reader'.value = 0 /\ reader'.bytes = 0
    BY DEF Idle
  <2> QED  BY <1>8, <2>1, <2>2, <2>3, <2>4 DEF VarIntBegun
<1>10. ReaderInv'
  <2>1. reader'.at = "size" /\ NextStart' = c /\ c \in 0..consumed'
    BY <1>3, <1>6, <1>8 DEF Idle
  <2> QED  BY <1>9, <2>1 DEF ReaderInv
<1>11. ASSUME NEW i \in 1..(n + 1)
       PROVE  /\ StartOf(i)' \in 0..consumed' /\ packets'[i].at \in 0..consumed'
              /\ StartOf(i)' < packets'[i].at
              /\ SizeLies(i)'
              /\ packets'[i].size >= 0 => IsCovered(i)'
              /\ IsShort' => packets'[i].size >= 0
  <2>1. CASE i \in 1..n
    <3>1. /\ StartOf(i) \in 0..consumed /\ packets[i].at \in 0..consumed
          /\ StartOf(i) < packets[i].at
          /\ SizeLies(i)
          /\ packets[i].size >= 0 => IsCovered(i)
          /\ IsShort => packets[i].size >= 0
      BY <2>1 DEF IInv, PacketsInv
    <3>2. StartOf(i)' = StartOf(i) /\ packets'[i] = packets[i]
      BY <1>2, <1>5, <2>1
    <3>3. (IsCovered(i) => IsCovered(i)') /\ (SizeLies(i) => SizeLies(i)')
      BY <1>3, <1>7, <3>2 DEF IsCovered, SizeLies
    <3>4. IsShort' => IsShort
      BY DEF IsShort
    <3> QED  BY <1>3, <3>1, <3>2, <3>3, <3>4
  <2>2. CASE i = n + 1
    <3>1. /\ StartOf(i)' = NextStart /\ NextStart \in 0..consumed /\ packets'[i] = p
      BY <1>2, <1>5, <1>6, <2>2 DEF IInv, ReaderInv
    <3>2. NextStart < p.at
      BY <1>1, <1>3, <3>1
    <3>3. ASSUME p.size >= 0 PROVE IsCovered(i)'
      <4>1. PICK q, r \in 0..p.at :
                          /\ VarIntLies(NextStart, q, p.size)
                          /\ VarIntLies(q, r, p.id)
                          /\ p.size = p.at - q
                          /\ p.data = SubSeq(stream, r + 1, p.at)
        BY <3>3
      <4>2. VarIntLies(StartOf(i), q, packets[i].size)' /\ VarIntLies(q, r, packets[i].id)'
        BY <1>7, <3>1, <4>1
      <4>3. r <= p.at
        BY <1>3
      <4> QED  BY <3>1, <4>1, <4>2, <4>3 DEF IsCovered
    <3>4. IsShort' => p.size >= 0
      BY DEF IsShort
    <3>5. SizeLies(i)'
      BY <1>7, <3>1 DEF SizeLies
    <3> QED  BY <1>3, <3>1, <3>2, <3>3, <3>4, <3>5
  <2> QED  BY <1>1, <2>1, <2>2
<1>12. PacketsInv'
  BY <1>2, <1>11 DEF PacketsInv
<1> QED  BY <1>4, <1>10, <1>12 DEF IInv

(* No bytes lie between a position and itself.                             *)
LEMMA EmptyPiece ==
    ASSUME NEW S, NEW s \in Seq(S), NEW m \in Int, NEW n \in Int, m > n
    PROVE  SubSeq(s, m, n) = <<>>
OBVIOUS

(* The last byte of an id, with which a packet may be complete, keeps it.  *)
LEMMA IdStep ==
    ASSUME IInv, IdIsRead
    PROVE  IInv'
<1> DEFINE c1 == consumed + 1
<1>1. /\ stream \in Seq(Byte) /\ stream' = stream /\ consumed' = consumed + 1
      /\ consumed \in 0..Len(stream) /\ consumed < Len(stream) /\ Len(stream) \in Nat
      /\ reader.at = "id" /\ ~More(stream[consumed + 1]) /\ remaining >= 0
  BY LenProperties DEF IInv, TypeInv, IdIsRead, ByteToRead, clientVars
<1>2. reader \in [at : {"size", "id", "body"}, value : 0..(2^Width - 1),
                 bytes : 0..(Width - 1), size : Ints, id : Ints, left : Nat]
  BY DEF IInv, TypeInv
<1>3. PICK q \in 0..consumed : VarIntLies(NextStart, q, reader.size) /\ VarIntBegun(q)
  BY <1>1 DEF IInv, ReaderInv
<1>4. PICK c \in 0..Len(stream) : c = consumed + 1
  BY <1>1
<1>5. VarintValue \in Ints /\ VarIntLies(q, c, VarintValue)
  BY <1>1, <1>3, <1>4, NextByte, VarIntEnds DEF IInv
<1>6. q < c /\ c = q + reader.bytes + 1
  BY <1>1, <1>2, <1>3, <1>4 DEF VarIntBegun
<1>7. /\ remaining \in Int
      /\ reader.size >= 0 => remaining = reader.size - (reader.bytes + 1)
      /\ reader.size < 0 => remaining < 0 \/ remaining + Width >= 2^(Width - 1)
  BY RemainingProperties DEF IInv, Ints
<1>8. CASE remaining = 0
  <2> DEFINE p == [at |-> consumed', id |-> VarintValue, size |-> reader.size, data |-> <<>>]
  <2>1. /\ packets' = Append(packets, p) /\ incoming' = Append(incoming, p)
        /\ reader' = Idle
    BY <1>8 DEF IdIsRead, Deliver
  <2>2. p \in PacketRecords /\ p.at = consumed' /\ p.at = c
    BY <1>1, <1>2, <1>4, <1>5 DEF PacketRecords
  <2>3. consumed' \in (consumed + 1)..Len(stream)
    BY <1>1
  <2>4. ASSUME IsShort PROVE p.size >= 0
    <3>1. Width < 2^(Width - 1)
      BY <1>1, <2>4, Halves, WidthsAssumption DEF IsShort
    <3> QED  BY <1>2, <1>7, <1>8, <3>1, Halves, WidthsAssumption DEF Ints
  <2>5. ASSUME p.size >= 0 PROVE p.size = p.at - q
    BY <1>2, <1>6, <1>7, <1>8, <2>2, <2>5 DEF Ints
  <2>6. p.data = SubSeq(stream, c + 1, p.at)
    <3>1. c + 1 > c /\ c \in Int /\ c + 1 \in Int
      BY <1>1
    <3>2. SubSeq(stream, c + 1, c) = <<>>
      BY <1>1, <3>1, EmptyPiece
    <3> QED  BY <2>2, <3>2
  <2>7. /\ p.size = reader.size /\ p.id = VarintValue
        /\ q \in 0..p.at /\ c \in 0..p.at
    BY <1>1, <1>6, <2>2
  <2> HIDE DEF p
  <2>8. p.size >= 0 => \E qq, r \in 0..p.at :
                          /\ VarIntLies(NextStart, qq, p.size)
                          /\ VarIntLies(qq, r, p.id)
                          /\ p.size = p.at - qq
                          /\ p.data = SubSeq(stream, r + 1, p.at)
    BY <1>3, <1>5, <2>5, <2>6, <2>7
  <2>9. \E qq \in 0..p.at : VarIntLies(NextStart, qq, p.size)
    BY <1>3, <2>7
  <2> QED  BY <1>1, <2>1, <2>2, <2>3, <2>4, <2>8, <2>9, PacketDelivered
<1>9. CASE remaining # 0
  <2>1. /\ packets' = packets /\ incoming' = incoming
        /\ reader' = [reader EXCEPT !.at = "body", !.id = VarintValue, !.left = remaining]
    BY <1>9 DEF IdIsRead
  <2>2. consumed' \in consumed..Len(stream)
    BY <1>1
  <2>3. /\ PacketsInv'
        /\ NextStart' = NextStart /\ NextStart \in 0..consumed'
        /\ 0..consumed \subseteq 0..consumed'
        /\ \A a, b, v : VarIntLies(a, b, v)' = VarIntLies(a, b, v)
    BY <1>1, <2>1, <2>2, PacketsStay
  <2>4. /\ reader'.at = "body" /\ reader'.id = VarintValue /\ reader'.left = remaining
        /\ reader'.size = reader.size /\ reader'.bytes = reader.bytes
    BY <1>2, <2>1
  <2>5. reader' \in [at : {"size", "id", "body"}, value : 0..(2^Width - 1),
                 bytes : 0..(Width - 1), size : Ints, id : Ints, left : Nat]
    <3>1. remaining \in Nat /\ VarintValue \in Ints
      BY <1>1, <1>5, <1>7
    <3> HIDE DEF c1
    <3> QED  BY <1>2, <2>1, <3>1
  <2>6. TypeInv'
    BY <1>1, <2>1, <2>2, <2>5 DEF IInv, TypeInv
  <2>7. remaining' = remaining
    BY <2>4 DEF remaining
  <2>8. BodyBegun(q, c)'
    <3>1. VarIntLies(q, c, reader.id)'
      BY <1>5, <2>3, <2>4
    <3>2. c <= consumed' /\ remaining > 0 /\ remaining + (consumed' - c) = remaining
      BY <1>1, <1>4, <1>7, <1>9
    <3> QED  BY <1>6, <2>4, <2>7, <3>1, <3>2 DEF BodyBegun
  <2>9. VarIntLies(NextStart, q, reader.size)'
    BY <1>3, <2>3, <2>4
  <2>10. q \in 0..consumed' /\ c \in 0..consumed'
    BY <1>1, <1>4
  <2>11. ReaderInv'
    BY <2>3, <2>4, <2>8, <2>9, <2>10 DEF ReaderInv
  <2> QED  BY <2>3, <2>6, <2>11 DEF IInv
<1> QED  BY <1>8, <1>9

(* A piece of a body, with which a packet may be complete, keeps it.       *)
LEMMA BodyStep ==
    ASSUME IInv, ReadBody
    PROVE  IInv'
<1>1. PICK bytesRead \in 1..reader.left :
          /\ consumed + bytesRead <= Len(stream)
          /\ consumed' = consumed + bytesRead
          /\ IF bytesRead = reader.left
             THEN Deliver(reader.id, reader.size,
                          SubSeq(stream, consumed' - (reader.size - reader.bytes - 1) + 1,
                                 consumed'))
             ELSE /\ reader' = [reader EXCEPT !.left = @ - bytesRead]
                  /\ UNCHANGED <<packets, incoming>>
  BY DEF ReadBody
<1>2. /\ stream \in Seq(Byte) /\ stream' = stream
      /\ consumed \in 0..Len(stream) /\ Len(stream) \in Nat /\ reader.at = "body"
  BY LenProperties DEF IInv, TypeInv, ReadBody, ByteToRead, clientVars
<1>3. reader \in [at : {"size", "id", "body"}, value : 0..(2^Width - 1),
                 bytes : 0..(Width - 1), size : Ints, id : Ints, left : Nat]
  BY DEF IInv, TypeInv
<1>4. PICK q, r \in 0..consumed : VarIntLies(NextStart, q, reader.size) /\ BodyBegun(q, r)
  BY <1>2 DEF IInv, ReaderInv
<1>5. consumed' \in (consumed + 1)..Len(stream) /\ consumed' \in consumed..Len(stream)
  BY <1>1, <1>2, <1>3
<1>6. /\ q < r /\ r <= consumed /\ VarIntLies(q, r, reader.id)
      /\ r = q + reader.bytes + 1
      /\ reader.left > 0 /\ reader.left + (consumed - r) = remaining
  BY <1>4 DEF BodyBegun
<1>7. /\ reader.size >= 0 => remaining = reader.size - (reader.bytes + 1)
      /\ reader.size < 0 => remaining < 0 \/ remaining + Width >= 2^(Width - 1)
      /\ reader.size \in Int /\ reader.bytes \in 0..(Width - 1) /\ Width \in Nat
      /\ remaining \in Int
  BY <1>3, RemainingProperties, WidthsAssumption, Halves DEF IInv, Ints
<1>8. CASE bytesRead = reader.left
  <2> DEFINE total == reader.size - reader.bytes - 1
             data == SubSeq(stream, consumed' - total + 1, consumed')
             p == [at |-> consumed', id |-> reader.id, size |-> reader.size, data |-> data]
  <2>1. /\ packets' = Append(packets, p) /\ incoming' = Append(incoming, p)
        /\ reader' = Idle
    BY <1>1, <1>8 DEF Deliver
  <2>2. consumed' = remaining + r /\ consumed' <= Len(stream) /\ remaining >= 0
    BY <1>1, <1>2, <1>3, <1>6, <1>8
  <2>3. ASSUME reader.size >= 0
        PROVE  data = SubSeq(stream, r + 1, consumed') /\ reader.size = consumed' - q
    <3>1. total = remaining
      BY <1>7, <2>3
    <3>2. consumed' - total + 1 = r + 1
      BY <1>2, <1>5, <1>7, <2>2, <3>1
    <3>3. reader.size = consumed' - q
      <4>1. consumed' = (reader.size - (reader.bytes + 1)) + (q + reader.bytes + 1)
        BY <1>6, <1>7, <2>2, <2>3
      <4>2. q \in Int /\ reader.size \in Int /\ reader.bytes \in Int
        BY <1>2, <1>7
      <4> QED  BY <4>1, <4>2
    <3> QED  BY <3>2, <3>3
  <2>4. data \in Seq(Byte)
    <3>1. CASE reader.size >= 0
      <4>1. PICK c \in 0..Len(stream) : c = consumed'
        BY <1>2, <1>5
      <4>2. r \in 0..Len(stream) /\ c \in r..Len(stream)
        BY <1>2, <1>5, <1>6, <4>1
      <4>3. SubSeq(stream, r + 1, c) \in Seq(Byte)
        BY <1>2, <4>2, Piece
      <4> QED  BY <2>3, <3>1, <4>1, <4>3
    <3>2. CASE reader.size < 0
      <4> DEFINE m == consumed' - total + 1
      <4>1. m \in Int /\ consumed' \in Int /\ m > consumed'
        BY <1>2, <1>5, <1>7, <3>2
      <4>2. data = <<>>
        <5> HIDE DEF m
        <5>1. SubSeq(stream, m, consumed') = <<>>
          BY <1>2, <4>1, EmptyPiece
        <5> QED  BY <5>1 DEF m
      <4> QED  BY <4>2, SmallBytes
    <3> QED  BY <1>7, <3>1, <3>2
  <2> HIDE DEF data
  <2>5. p \in PacketRecords /\ p.at = consumed'
    BY <1>2, <1>3, <1>5, <2>4 DEF PacketRecords
  <2>6. ASSUME IsShort PROVE reader.size >= 0
    <3>1. remaining <= Len(stream)
      BY <1>2, <1>6, <1>7, <2>2
    <3>2. remaining + Width < 2^(Width - 1)
      BY <1>2, <1>7, <2>2, <2>6, <3>1, Halves DEF IsShort
    <3> QED  BY <1>7, <2>2, <3>2, Halves
  <2>7. /\ p.size = reader.size /\ p.id = reader.id /\ p.data = data
        /\ q \in 0..p.at /\ r \in 0..p.at
    BY <1>2, <1>5, <2>5
  <2> HIDE DEF p
  <2>8. p.size >= 0 => \E qq, rr \in 0..p.at :
                          /\ VarIntLies(NextStart, qq, p.size)
                          /\ VarIntLies(qq, rr, p.id)
                          /\ p.size = p.at - qq
                          /\ p.data = SubSeq(stream, rr + 1, p.at)
    BY <1>4, <1>6, <2>3, <2>5, <2>7
  <2>9. \E qq \in 0..p.at : VarIntLies(NextStart, qq, p.size)
    BY <1>4, <2>7
  <2> QED  BY <1>2, <1>5, <2>1, <2>5, <2>6, <2>7, <2>8, <2>9, PacketDelivered
<1>9. CASE bytesRead # reader.left
  <2>1. /\ packets' = packets /\ incoming' = incoming
        /\ reader' = [reader EXCEPT !.left = @ - bytesRead]
    BY <1>1, <1>9
  <2>2. /\ PacketsInv'
        /\ NextStart' = NextStart /\ NextStart \in 0..consumed'
        /\ 0..consumed \subseteq 0..consumed'
        /\ \A a, b, v : VarIntLies(a, b, v)' = VarIntLies(a, b, v)
    BY <1>2, <1>5, <2>1, PacketsStay
  <2>3. /\ reader'.at = "body" /\ reader'.id = reader.id
        /\ reader'.left = reader.left - bytesRead
        /\ reader'.size = reader.size /\ reader'.bytes = reader.bytes
    BY <1>2, <1>3, <2>1
  <2>4. reader'.left \in Nat /\ reader'.left > 0
    BY <1>1, <1>3, <1>9, <2>3
  <2>5. reader' \in [at : {"size", "id", "body"}, value : 0..(2^Width - 1),
                 bytes : 0..(Width - 1), size : Ints, id : Ints, left : Nat]
    BY <1>3, <2>1, <2>3, <2>4
  <2>6. TypeInv'
    BY <1>2, <1>5, <2>1, <2>5 DEF IInv, TypeInv
  <2>7. remaining' = remaining
    BY <2>3 DEF remaining
  <2>8. BodyBegun(q, r)'
    <3>1. VarIntLies(q, r, reader.id)'
      BY <1>6, <2>2, <2>3
    <3>2. r <= consumed' /\ reader'.left + (consumed' - r) = remaining
      <4>1. /\ consumed' = consumed + bytesRead /\ reader'.left = reader.left - bytesRead
            /\ bytesRead \in Nat /\ consumed \in Nat /\ r \in Nat /\ reader.left \in Nat
        BY <1>1, <1>2, <1>3, <2>3
      <4>2. r <= consumed /\ reader.left + (consumed - r) = remaining
        BY <1>6
      <4> QED  BY <4>1, <4>2
    <3> QED  BY <1>6, <2>3, <2>4, <2>7, <3>1, <3>2 DEF BodyBegun
  <2>9. VarIntLies(NextStart, q, reader.size)'
    BY <1>4, <2>2, <2>3
  <2>10. q \in 0..consumed' /\ r \in 0..consumed'
    BY <2>2
  <2>11. ReaderInv'
    BY <2>2, <2>3, <2>8, <2>9, <2>10 DEF ReaderInv
  <2> QED  BY <2>2, <2>6, <2>11 DEF IInv
<1> QED  BY <1>8, <1>9

(* It holds at the start, where nothing has been read.                     *)
LEMMA InitStep == Init => IInv
<1> SUFFICES ASSUME Init PROVE IInv
  OBVIOUS
<1>1. /\ stream = <<>> /\ consumed = 0 /\ reader = Idle
      /\ packets = <<>> /\ incoming = <<>> /\ Len(stream) = 0 /\ Len(packets) = 0
  BY DEF Init
<1>2. TypeInv
  <2>1. 0 \in Ints /\ 0 \in 0..(2^Width - 1) /\ 0 \in 0..(Width - 1)
    BY Halves, WidthsAssumption DEF Ints
  <2>2. reader \in [at : {"size", "id", "body"}, value : 0..(2^Width - 1),
                    bytes : 0..(Width - 1), size : Ints, id : Ints, left : Nat]
    BY <1>1, <2>1 DEF Idle
  <2> QED  BY <1>1, <2>2 DEF TypeInv
<1>3. NextStart = 0
  BY <1>1 DEF NextStart, StartOf
<1>4. VarIntBegun(0)
  <2>1. stream \in Seq(Byte) /\ 0 \in 0..Len(stream)
    BY <1>1
  <2>2. Spelled(SubSeq(stream, 0 + 1, 0)) % 2^Width = 0
    BY <2>1, NothingSpelled
  <2>3. Group * 0 < Width /\ \A k \in (0 + 1)..0 : FALSE
    BY WidthsAssumption
  <2> QED  BY <1>1, <2>2, <2>3 DEF VarIntBegun, Idle
<1>5. ReaderInv
  BY <1>1, <1>3, <1>4 DEF ReaderInv, Idle
<1>6. PacketsInv
  BY <1>1 DEF PacketsInv
<1> QED  BY <1>2, <1>5, <1>6 DEF IInv

(* A message, which only makes the stream longer, keeps it.                *)
LEMMA SendStep ==
    ASSUME IInv, NEW m \in ClientMessages, Send(m)
    PROVE  IInv'
<1>1. PICK pad \in {0, 1} :
          stream' = stream \o Padded(Len(m.bytes), ShortestVarInt(Len(m.bytes)) + pad)
                           \o m.bytes
  BY DEF Send
<1> DEFINE size == Len(m.bytes)
           n == ShortestVarInt(size) + pad
           head == Padded(size, n)
<1>2. m.bytes \in Seq(Byte) /\ size \in Int
  BY MessageType, LenProperties
<1>3. n \in 0..(Width + 1)
  <2> HIDE DEF size
  <2>1. ShortestVarInt(size) \in 1..Width
    BY <1>2, ShortestProperties
  <2> QED  BY <2>1, WidthsAssumption
<1>4. head \in Seq(Byte)
  <2> HIDE DEF size, n
  <2> QED  BY <1>2, <1>3, PaddedType
<1>5. head \o m.bytes \in Seq(Byte)
  <2> HIDE DEF head
  <2> QED  BY <1>2, <1>4, BytesAppended
<1>6. stream \in Seq(Byte)
  BY DEF IInv, TypeInv
<1>7. stream' = stream \o (head \o m.bytes)
  <2>1. stream' = (stream \o head) \o m.bytes
    BY <1>1
  <2> DEFINE body == m.bytes
  <2> HIDE DEF head, body
  <2>2. body \in Seq(Byte)
    BY <1>2 DEF body
  <2>3. (stream \o head) \o body = stream \o (head \o body)
    BY <1>4, <1>6, <2>2, ConcatAssociative
  <2> QED  BY <2>1, <2>3 DEF body
<1>8. UNCHANGED <<receiverState, incoming>>
  BY DEF Send, readVars, receiverState
<1> QED  BY <1>5, <1>7, <1>8, StreamGrows

(* In every state the Packet under construction is what the bytes since the*)
(* last packet spell, and each packet lies where its size says.            *)
THEOREM InvariantHolds == Spec => []IInv
<1>1. Init => IInv
  BY InitStep
<1>2. ASSUME IInv, [Next]_vars
      PROVE  IInv'
  <2>1. ASSUME NEW m \in ClientMessages, Send(m) PROVE IInv'
    BY <1>2, <2>1, SendStep
  <2>2. CASE SendGarbage
    <3>1. PICK g \in Garbage : stream' = stream \o g
      BY <2>2 DEF SendGarbage
    <3>2. g \in Seq(Byte)
      BY ValuesAssumption
    <3>3. UNCHANGED <<receiverState, incoming>>
      BY <2>2 DEF SendGarbage, readVars, receiverState
    <3> QED  BY <1>2, <3>1, <3>2, <3>3, StreamGrows
  <2>3. CASE HangUp
    <3>1. UNCHANGED <<receiverState, stream>> /\ incoming' = incoming
      BY <2>3 DEF HangUp, readVars, receiverState
    <3>2. incoming' = incoming \/ (incoming # <<>> /\ incoming' = Tail(incoming))
      BY <3>1
    <3> QED  BY <1>2, <3>1, <3>2, ReceiverRests
  <2>4. CASE VarintContinues
    BY <1>2, <2>4, ContinuesStep
  <2>5. CASE SizeIsRead
    BY <1>2, <2>5, SizeStep
  <2>6. CASE IdIsRead
    BY <1>2, <2>6, IdStep
  <2>7. CASE ReadBody
    BY <1>2, <2>7, BodyStep
  <2>8. CASE ReadFails
    <3>1. UNCHANGED <<receiverState, stream>> /\ incoming' = incoming
      BY <2>8 DEF ReadFails, readVars, clientVars, receiverState
    <3>2. incoming' = incoming \/ (incoming # <<>> /\ incoming' = Tail(incoming))
      BY <3>1
    <3> QED  BY <1>2, <3>1, <3>2, ReceiverRests
  <2>9. CASE HandlePacket
    <3>1. /\ UNCHANGED <<receiverState, stream>>
          /\ incoming # <<>> /\ incoming' = Tail(incoming)
      BY <2>9 DEF HandlePacket, TakePacket, readVars, clientVars, receiverState
    <3> QED  BY <1>2, <3>1, ReceiverRests
  <2>10. CASE SendReply
    <3>1. UNCHANGED <<receiverState, stream>> /\ incoming' = incoming
      BY <2>10 DEF SendReply, readVars, clientVars, receiverState
    <3>2. incoming' = incoming \/ (incoming # <<>> /\ incoming' = Tail(incoming))
      BY <3>1
    <3> QED  BY <1>2, <3>1, <3>2, ReceiverRests
  <2>11. CASE UNCHANGED vars
    <3>1. UNCHANGED <<receiverState, stream>> /\ incoming' = incoming
      BY <2>11 DEF vars, readVars, clientVars, receiverState
    <3>2. incoming' = incoming \/ (incoming # <<>> /\ incoming' = Tail(incoming))
      BY <3>1
    <3> QED  BY <1>2, <3>1, <3>2, ReceiverRests
  <2> QED  BY <1>2, <2>1, <2>2, <2>3, <2>4, <2>5, <2>6, <2>7, <2>8, <2>9, <2>10, <2>11
           DEF Next, Receive
<1> QED  BY <1>1, <1>2, PTL DEF Spec

-----------------------------------------------------------------------------
(* From where the packets lie to PacketsCoverStream.                       *)

(* A piece of a piece is a piece.                                          *)
LEMMA PieceOfPiece ==
    ASSUME NEW S, NEW s \in Seq(S), NEW a \in 0..Len(s), NEW b \in a..Len(s),
           NEW c \in 0..(b - a), NEW d \in c..(b - a)
    PROVE  SubSeq(SubSeq(s, a + 1, b), c + 1, d) = SubSeq(s, (a + c) + 1, a + d)
<1> DEFINE long == SubSeq(s, a + 1, b)
           left == SubSeq(long, c + 1, d)
           right == SubSeq(s, (a + c) + 1, a + d)
           e == a + c
           f == a + d
<1>1. Len(s) \in Nat /\ e \in 0..Len(s) /\ f \in e..Len(s) /\ f - e = d - c
  BY LenProperties
<1>2. long \in Seq(S) /\ Len(long) = b - a /\ \A i \in 1..(b - a) : long[i] = s[a + i]
  BY Piece
<1>3. /\ right \in Seq(S) /\ Len(right) = d - c
      /\ \A i \in 1..(d - c) : right[i] = s[e + i]
  <2> HIDE DEF e, f
  <2>1. /\ SubSeq(s, e + 1, f) \in Seq(S) /\ Len(SubSeq(s, e + 1, f)) = f - e
        /\ \A i \in 1..(f - e) : SubSeq(s, e + 1, f)[i] = s[e + i]
    BY <1>1, Piece
  <2> QED  BY <1>1, <2>1 DEF e, f
<1> HIDE DEF long
<1>4. /\ left \in Seq(S) /\ Len(left) = d - c
      /\ \A i \in 1..(d - c) : left[i] = long[c + i]
  <2>1. c \in 0..Len(long) /\ d \in c..Len(long)
    BY <1>2
  <2> QED  BY <1>2, <2>1, Piece
<1> HIDE DEF left, right
<1>5. ASSUME NEW i \in 1..(d - c) PROVE left[i] = right[i]
  <2>1. c + i \in 1..(b - a) /\ a + (c + i) = e + i
    OBVIOUS
  <2>2. long[c + i] = s[a + (c + i)]
    BY <1>2, <2>1
  <2> QED  BY <1>3, <1>4, <2>1, <2>2
<1>6. left = right
  BY <1>3, <1>4, <1>5, SeqEqual
<1> QED  BY <1>6 DEF left, right, long

(* Two pieces, one behind the other, are one.                              *)
LEMMA PiecesJoin ==
    ASSUME NEW S, NEW s \in Seq(S),
           NEW a \in 0..Len(s), NEW b \in a..Len(s), NEW c \in b..Len(s)
    PROVE  SubSeq(s, a + 1, c) = SubSeq(s, a + 1, b) \o SubSeq(s, b + 1, c)
<1> DEFINE whole == SubSeq(s, a + 1, c)
           first == SubSeq(s, a + 1, b)
           second == SubSeq(s, b + 1, c)
<1>1. b \in 0..Len(s) /\ c \in a..Len(s) /\ Len(s) \in Nat
  BY LenProperties
<1>2. whole \in Seq(S) /\ Len(whole) = c - a /\ \A i \in 1..(c - a) : whole[i] = s[a + i]
  BY <1>1, Piece
<1>3. first \in Seq(S) /\ Len(first) = b - a /\ \A i \in 1..(b - a) : first[i] = s[a + i]
  BY Piece
<1>4. second \in Seq(S) /\ Len(second) = c - b /\ \A i \in 1..(c - b) : second[i] = s[b + i]
  BY <1>1, Piece
<1> HIDE DEF whole, first, second
<1>5. /\ first \o second \in Seq(S) /\ Len(first \o second) = c - a
      /\ \A i \in 1..(c - a) :
             (first \o second)[i] = IF i <= b - a THEN first[i] ELSE second[i - (b - a)]
  <2>1. (b - a) + (c - b) = c - a
    BY <1>1
  <2>2. /\ first \o second \in Seq(S) /\ Len(first \o second) = Len(first) + Len(second)
        /\ \A i \in 1..(Len(first) + Len(second)) :
               (first \o second)[i] = IF i <= Len(first) THEN first[i]
                                      ELSE second[i - Len(first)]
    BY <1>3, <1>4, ConcatProperties
  <2> QED  BY <1>3, <1>4, <2>1, <2>2
<1>6. ASSUME NEW i \in 1..(c - a) PROVE whole[i] = (first \o second)[i]
  <2>1. CASE i <= b - a
    BY <1>1, <1>2, <1>3, <1>5, <2>1
  <2>2. CASE i > b - a
    <3>1. i - (b - a) \in 1..(c - b) /\ b + (i - (b - a)) = a + i /\ ~(i <= b - a)
      BY <1>1, <2>2
    <3> QED  BY <1>2, <1>4, <1>5, <3>1
  <2>3. i <= b - a \/ i > b - a
    BY <1>1
  <2> QED  BY <2>1, <2>2, <2>3
<1>7. whole = first \o second
  <2> DEFINE both == first \o second
  <2> HIDE DEF both
  <2>1. both \in Seq(S) /\ Len(whole) = Len(both) /\ \A i \in 1..Len(whole) : whole[i] = both[i]
    BY <1>2, <1>5, <1>6 DEF both
  <2> QED  BY <1>2, <2>1, SeqEqual DEF both
<1> QED  BY <1>7 DEF whole, first, second

SizesAreNatural == \A i \in DOMAIN packets : packets[i].size >= 0

(* The packets lie in the stream one after the other, the way that         *)
(* Packet::Packet frames them, for any bytes in any pieces, as long as no  *)
(* packet has a negative size, for which an int must have overflowed; and  *)
(* none has before the stream is almost as long as the greatest int.       *)
THEOREM PacketsAreFramed ==
    Spec => []((SizesAreNatural => PacketsCoverStream) /\ (IsShort => SizesAreNatural))
<1>1. ASSUME IInv, SizesAreNatural PROVE PacketsCoverStream
  <2> SUFFICES ASSUME NEW i \in DOMAIN packets
               PROVE  LET start == IF i = 1 THEN 0 ELSE packets[i - 1].at
                          p == packets[i]
                          frame == SubSeq(stream, start + 1, p.at)
                          head == SubSeq(frame, 1, Len(frame) - p.size)
                          rest == SubSeq(frame, Len(frame) - p.size + 1, Len(frame))
                          id == SubSeq(rest, 1, Len(rest) - Len(p.data))
                      IN  /\ IsVarInt(head, p.size)
                          /\ IsVarInt(id, p.id)
                          /\ rest = id \o p.data
    BY DEF PacketsCoverStream
  <2>1. i \in 1..Len(packets) /\ packets \in Seq(PacketRecords)
    BY <1>1, LenProperties DEF IInv, TypeInv
  <2> DEFINE a == StartOf(i)
             p == packets[i]
             z == p.at
             frame == SubSeq(stream, a + 1, z)
             head == SubSeq(frame, 1, Len(frame) - p.size)
             rest == SubSeq(frame, Len(frame) - p.size + 1, Len(frame))
             id == SubSeq(rest, 1, Len(rest) - Len(p.data))
  <2>2. PICK q, r \in 0..consumed :
            /\ VarIntLies(a, q, p.size)
            /\ VarIntLies(q, r, p.id)
            /\ r <= z
            /\ p.size = z - q
            /\ p.data = SubSeq(stream, r + 1, z)
    BY <1>1, <2>1 DEF IInv, PacketsInv, IsCovered, SizesAreNatural
  <2>3. /\ stream \in Seq(Byte) /\ Len(stream) \in Nat /\ consumed \in 0..Len(stream)
        /\ a \in 0..consumed /\ z \in 0..consumed
    BY <1>1, <2>1, LenProperties DEF IInv, TypeInv, PacketsInv
  <2>4. /\ a < q /\ IsVarInt(SubSeq(stream, a + 1, q), p.size)
        /\ q < r /\ IsVarInt(SubSeq(stream, q + 1, r), p.id)
    BY <2>2 DEF VarIntLies
  <2> HIDE DEF a, p, z
  <2>5. /\ a \in 0..Len(stream) /\ q \in a..Len(stream) /\ q \in 0..Len(stream)
        /\ r \in q..Len(stream) /\ r \in 0..Len(stream)
        /\ z \in r..Len(stream) /\ z \in q..Len(stream) /\ z \in a..Len(stream)
    BY <2>2, <2>3, <2>4
  <2>6. frame \in Seq(Byte) /\ Len(frame) = z - a
    BY <2>3, <2>5, Piece
  <2>7. head = SubSeq(stream, a + 1, q)
    <3> DEFINE n == q - a
    <3>1. /\ n \in 0..(z - a) /\ a + n = q /\ Len(frame) - p.size = n
          /\ 0 \in 0..(z - a) /\ 0 \in 0..n /\ n \in 0..(z - a) /\ a + 0 = a
      BY <2>2, <2>5, <2>6
    <3> HIDE DEF n, frame
    <3>2. n \in 0..(z - a) /\ a + n = q
      BY <3>1
    <3>3. SubSeq(SubSeq(stream, a + 1, z), 0 + 1, n) = SubSeq(stream, (a + 0) + 1, a + n)
      BY <2>3, <2>5, <3>1, <3>2, PieceOfPiece
    <3>4. head = SubSeq(frame, 0 + 1, n)
      BY <3>1
    <3>5. frame = SubSeq(stream, a + 1, z)
      BY DEF frame
    <3> HIDE DEF head
    <3> QED  BY <3>1, <3>3, <3>4, <3>5
  <2>8. rest = SubSeq(stream, q + 1, z)
    <3> DEFINE n == q - a
               e == z - a
    <3>1. /\ n \in 0..(z - a) /\ e \in n..(z - a)
          /\ a + n = q /\ a + e = z /\ Len(frame) = e
          /\ Len(frame) - p.size + 1 = n + 1
      BY <2>2, <2>5, <2>6
    <3> HIDE DEF n, e
    <3>2. SubSeq(SubSeq(stream, a + 1, z), n + 1, e) = SubSeq(stream, (a + n) + 1, a + e)
      BY <2>3, <2>5, <3>1, PieceOfPiece
    <3> QED  BY <3>1, <3>2
  <2>9. Len(rest) = z - q /\ Len(p.data) = z - r
    BY <2>2, <2>3, <2>5, <2>8, Piece
  <2>10. id = SubSeq(stream, q + 1, r)
    <3> DEFINE n == r - q
    <3>1. /\ n \in 0..(z - q) /\ q + n = r /\ Len(rest) - Len(p.data) = n
          /\ 0 \in 0..(z - q) /\ q + 0 = q
      <4> DEFINE whole == Len(rest)
                 data == Len(p.data)
      <4>1. whole = z - q /\ data = z - r
        BY <2>9
      <4> HIDE DEF whole, data
      <4>2. whole - data = r - q
        BY <2>5, <4>1
      <4>3. Len(rest) - Len(p.data) = n
        BY <4>2 DEF whole, data
      <4>4. n \in 0..(z - q) /\ q + n = r /\ 0 \in 0..(z - q) /\ q + 0 = q
        BY <2>5
      <4> HIDE DEF n
      <4> QED  BY <4>3, <4>4
    <3> HIDE DEF n, rest
    <3>2. SubSeq(SubSeq(stream, q + 1, z), 0 + 1, n) = SubSeq(stream, (q + 0) + 1, q + n)
      BY <2>3, <2>5, <3>1, PieceOfPiece
    <3>3. id = SubSeq(SubSeq(stream, q + 1, z), 0 + 1, n)
      <4>1. id = SubSeq(rest, 0 + 1, n)
        BY <3>1
      <4> HIDE DEF id
      <4> QED  BY <2>8, <4>1
    <3> HIDE DEF id
    <3> QED  BY <3>1, <3>2, <3>3
  <2>11. rest = id \o p.data
    <3>1. SubSeq(stream, q + 1, z) = SubSeq(stream, q + 1, r) \o SubSeq(stream, r + 1, z)
      BY <2>3, <2>5, PiecesJoin
    <3> HIDE DEF rest, id
    <3> QED  BY <2>2, <2>8, <2>10, <3>1
  <2>12. IsVarInt(head, p.size) /\ IsVarInt(id, p.id)
    BY <2>4, <2>7, <2>10
  <2> QED  BY <2>11, <2>12 DEF a, p, z, StartOf
<1>2. ASSUME IInv, IsShort PROVE SizesAreNatural
  BY <1>2, LenProperties DEF IInv, TypeInv, PacketsInv, SizesAreNatural
<1> QED  BY <1>1, <1>2, InvariantHolds, PTL

-----------------------------------------------------------------------------
(* What is written is read: numbers.                                       *)

(* Powers of two multiply.                                                 *)
LEMMA PowerOfSum ==
    ASSUME NEW a \in 0..(Group * Width), NEW b \in 0..(Group * Width - a)
    PROVE  2^(a + b) = 2^a * 2^b
<1> DEFINE N == Group * Width
           S == {d \in 0..(N - a) : 2^(a + d) = 2^a * 2^d}
<1>1. N \in Nat /\ a \in 0..N /\ b \in 0..(N - a) /\ N - a \in Nat
  BY WidthsAssumption
<1>2. 2^a \in Nat
  BY <1>1, Powers
<1>3. 0 \in S
  <2>1. a + 0 = a /\ 2^0 = 1
    BY <1>1, PowersAssumption
  <2> QED  BY <1>1, <1>2, <2>1
<1>4. ASSUME NEW d \in 0..((N - a) - 1), d \in S
      PROVE  d + 1 \in S
  <2>1. /\ a + (d + 1) \in 1..N /\ (a + (d + 1)) - 1 = a + d
        /\ d + 1 \in 1..N /\ (d + 1) - 1 = d /\ d \in 0..N
    BY <1>1
  <2>2. 2^(a + (d + 1)) = 2 * 2^(a + d) /\ 2^(d + 1) = 2 * 2^d
    BY <2>1, PowersAssumption
  <2>3. 2^d \in Nat /\ 2^(a + d) = 2^a * 2^d
    BY <1>4, <2>1, Powers
  <2>4. 2^(a + (d + 1)) = 2^a * 2^(d + 1)
    <3> DEFINE x == 2^a
               y == 2^d
    <3>1. x \in Nat /\ y \in Nat
      BY <1>2, <2>3
    <3> HIDE DEF x, y
    <3>2. 2 * (x * y) = x * (2 * y)
      BY <3>1
    <3> QED  BY <2>2, <2>3, <3>2 DEF x, y
  <2> QED  BY <1>1, <2>4
<1>5. 0..(N - a) \subseteq S
  <2> HIDE DEF S, N
  <2> QED  BY <1>1, <1>3, <1>4, Induction
<1> QED  BY <1>1, <1>5

(* The remainder by a product.                                             *)
LEMMA RemainderOfProduct ==
    ASSUME NEW v \in Int, NEW p \in Nat \ {0}, NEW q \in Nat \ {0}
    PROVE  v % (p * q) = (v % p) + p * ((v \div p) % q)
<1> DEFINE d == v \div p
           r == v % p
           e == d \div q
           t == d % q
<1>1. d \in Int /\ r \in 0..(p - 1) /\ v = p * d + r
  BY Remainder
<1> HIDE DEF d, r
<1>2. e \in Int /\ t \in 0..(q - 1) /\ d = q * e + t
  BY <1>1, Remainder
<1> HIDE DEF e, t
<1>3. v = (p * q) * e + (p * t + r)
  <2>1. v = p * (q * e + t) + r
    BY <1>1, <1>2
  <2>2. p * (q * e + t) = (p * q) * e + p * t
    BY <1>1, <1>2
  <2>3. p * t \in Int /\ (p * q) * e \in Int
    BY <1>1, <1>2
  <2> QED  BY <1>1, <2>1, <2>2, <2>3
<1>4. p * t + r \in 0..(p * q - 1) /\ p * q \in Nat \ {0}
  <2>1. p * t \in Nat /\ p * q \in Nat
    BY <1>2
  <2>2. p * t <= p * (q - 1)
    BY <1>2
  <2>3. p * (q - 1) = p * q - p
    OBVIOUS
  <2>4. p * q # 0
    OBVIOUS
  <2> QED  BY <1>1, <2>1, <2>2, <2>3, <2>4
<1>5. v % (p * q) = p * t + r
  <2> DEFINE w == p * q
             x == p * t + r
  <2>1. w \in Nat \ {0} /\ x \in 0..(w - 1) /\ v = w * e + x
    BY <1>3, <1>4
  <2> HIDE DEF w, x
  <2>2. v % w = x
    BY <1>2, <2>1, RemainderIsUnique
  <2> QED  BY <2>2 DEF w, x
<1>6. p * t \in Int
  BY <1>2
<1> QED  BY <1>1, <1>5, <1>6 DEF d, r, t

(* A number that is smaller than the divisor is the remainder.             *)
LEMMA SmallRemainder ==
    ASSUME NEW w \in Nat \ {0}, NEW v \in 0..(w - 1)
    PROVE  v % w = v
<1>1. v = w * 0 + v
  OBVIOUS
<1> QED  BY <1>1, RemainderIsUnique

(* Divided by one, nothing remains.                                        *)
LEMMA RemainderByOne ==
    ASSUME NEW v \in Int
    PROVE  v % 1 = 0
<1>1. v % 1 \in 0..0
  <2>1. v % 1 \in 0..(1 - 1)
    BY Remainder
  <2> QED  BY <2>1
<1> QED  BY <1>1

-----------------------------------------------------------------------------
(* What is written is read: VarInts.                                       *)

(* The digits that Padded writes, and the bit that announces another one.  *)
LEMMA PaddedBytes ==
    ASSUME NEW v \in 0..(2^Width - 1), NEW n \in 1..Width, NEW i \in 1..n
    PROVE  /\ Digit(Padded(v, n)[i]) = ((v \div 2^(Group * (i - 1))) % 2^Group)
           /\ More(Padded(v, n)[i]) <=> i < n
<1> DEFINE w == 2^Group
           p == 2^(Group * (i - 1))
           d == (v \div p) % w
           byte == Padded(v, n)[i]
<1>1. w \in Nat \ {0} /\ 2^Width \in Nat \ {0}
  BY Halves, WidthsAssumption
<1>2. p \in Nat \ {0}
  <2>1. i - 1 \in 0..Width
    BY WidthsAssumption
  <2> QED  BY <2>1, Places, Powers
<1>3. v % 2^Width = v
  <2> DEFINE M == 2^Width
  <2>1. M \in Nat \ {0} /\ v \in 0..(M - 1)
    BY <1>1
  <2> HIDE DEF M
  <2>2. v % M = v
    BY <2>1, SmallRemainder
  <2> QED  BY <2>2 DEF M
<1>4. byte = d + (IF i < n THEN w ELSE 0)
  BY <1>3 DEF Padded
<1>5. d \in 0..(w - 1)
  <2> DEFINE q == v \div p
  <2> HIDE DEF p, w
  <2>1. q \in Int
    BY <1>1, <1>2, Remainder
  <2> HIDE DEF q
  <2>2. (q % w) \in 0..(w - 1)
    BY <1>1, <2>1, Remainder
  <2> QED  BY <2>2 DEF q
<1>6. Digit(byte) = byte % w /\ (More(byte) <=> byte >= w)
  BY DEF Digit, More
<1> HIDE DEF byte, d, w
<1>7. CASE i < n
  <2>1. byte = w * 1 + d
    BY <1>1, <1>4, <1>5, <1>7
  <2>2. byte \in Int
    BY <1>1, <1>5, <2>1
  <2>3. byte % w = d
    BY <1>1, <1>5, <2>1, <2>2, RemainderIsUnique
  <2> QED  BY <1>1, <1>5, <1>6, <1>7, <2>1, <2>3 DEF byte, d, w
<1>8. CASE ~(i < n)
  <2>1. byte = d
    BY <1>1, <1>4, <1>5, <1>8
  <2>2. byte % w = d
    BY <1>1, <1>5, <2>1, SmallRemainder
  <2> QED  BY <1>1, <1>5, <1>6, <1>8, <2>1, <2>2 DEF byte, d, w
<1> QED  BY <1>7, <1>8

(* What Padded writes spells the number, if it has the room.               *)
LEMMA PaddedSpells ==
    ASSUME NEW v \in 0..(2^Width - 1), NEW n \in 1..Width, v < 2^(Group * n)
    PROVE  Spelled(Padded(v, n)) = v
<1> DEFINE bytes == Padded(v, n)
           g == [i \in 0..n |-> v % 2^(Group * i)]
<1>1. v \in Int /\ n \in 0..(Width + 1)
  BY Halves, WidthsAssumption
<1>2. bytes \in Seq(Byte) /\ Len(bytes) = n
  BY <1>1, PaddedType
<1>3. bytes \in Seq(Int) /\ Len(bytes) <= Width
  <2> HIDE DEF bytes
  <2> QED  BY <1>2, BytesAreInts, WidthsAssumption
<1>4. PICK f \in [0..n -> Nat] :
          /\ f[0] = 0 /\ Spelled(bytes) = f[n]
          /\ \A i \in 1..n : f[i] = f[i - 1] + Digit(bytes[i]) * 2^(Group * (i - 1))
  <2> HIDE DEF bytes
  <2> QED  BY <1>2, <1>3, SpelledProperties
<1>5. f[0] = g[0]
  <2>1. Group * 0 = 0 /\ 2^0 = 1 /\ 0 \in 0..n
    BY PowersAssumption, WidthsAssumption
  <2>2. g[0] = v % 1
    BY <2>1
  <2> QED  BY <1>1, <1>4, <2>2, RemainderByOne
<1>6. ASSUME NEW i \in 1..n, f[i - 1] = g[i - 1] PROVE f[i] = g[i]
  <2> DEFINE w == 2^Group
             p == 2^(Group * (i - 1))
             t == (v \div p) % w
  <2>1. i - 1 \in 0..n /\ i \in 0..n /\ i - 1 \in 0..Width
    BY WidthsAssumption
  <2>2. p \in Nat \ {0} /\ w \in Nat \ {0}
    <3> DEFINE e == Group * (i - 1)
    <3>1. e \in 0..(Group * Width)
      BY <2>1, Places
    <3> HIDE DEF e
    <3>2. 2^e \in Nat /\ e < 2^e
      BY <3>1, Powers
    <3>3. 2^e \in Nat \ {0}
      BY <3>1, <3>2
    <3>4. w \in Nat \ {0}
      BY Halves
    <3> QED  BY <3>3, <3>4 DEF e
  <2>3. 2^(Group * i) = p * w
    <3>1. /\ Group * (i - 1) \in 0..(Group * Width)
          /\ Group \in 0..(Group * Width - Group * (i - 1))
          /\ Group * (i - 1) + Group = Group * i
      <4>1. Group * i = Group * (i - 1) + Group
        BY WidthsAssumption
      <4>2. Group * i <= Group * Width /\ Group * (i - 1) >= 0 /\ Group * i \in Int
        BY WidthsAssumption
      <4> QED  BY <4>1, <4>2, WidthsAssumption
    <3>2. 2^(Group * (i - 1) + Group) = 2^(Group * (i - 1)) * 2^Group
      BY <3>1, PowerOfSum
    <3> QED  BY <3>1, <3>2
  <2>4. Digit(bytes[i]) = t
    BY PaddedBytes
  <2>5. g[i] = v % (p * w) /\ g[i - 1] = v % p
    BY <2>1, <2>3
  <2>6. v % (p * w) = (v % p) + p * t
    <3> HIDE DEF p, w
    <3> QED  BY <1>1, <2>2, RemainderOfProduct
  <2>7. f[i] = f[i - 1] + t * p
    BY <1>4, <2>4
  <2>8. p * t = t * p
    <3>1. t \in Int
      <4> DEFINE q == v \div p
      <4> HIDE DEF p, w
      <4>1. q \in Int
        BY <1>1, <2>2, Remainder
      <4> HIDE DEF q
      <4>2. (q % w) \in Int
        BY <2>2, <4>1, Remainder
      <4> QED  BY <4>2 DEF q
    <3> HIDE DEF t, p
    <3> QED  BY <2>2, <3>1
  <2> QED  BY <1>6, <2>5, <2>6, <2>7, <2>8
<1>7. f[n] = g[n]
  <2> HIDE DEF g
  <2>1. n \in Nat /\ SameSteps(f, g, n)
    BY <1>5, <1>6 DEF SameSteps
  <2> QED  BY <2>1, SameIteration
<1>8. g[n] = v
  <2> DEFINE M == 2^(Group * n)
  <2>1. n \in 0..Width
    BY WidthsAssumption
  <2>2. M \in Nat
    BY <2>1, Places, Powers
  <2>3. v \in Nat /\ v < M
    BY Halves, WidthsAssumption
  <2>4. g[n] = v % M
    OBVIOUS
  <2> HIDE DEF M, g
  <2>5. M \in Nat \ {0} /\ v \in 0..(M - 1)
    BY <2>2, <2>3
  <2> QED  BY <2>4, <2>5, SmallRemainder
<1> QED  BY <1>4, <1>7, <1>8

(* The VarInts that readVarInt reads to their end fit into an int.         *)
LEMMA MaxVarIntProperties ==
    /\ MaxVarInt \in 1..(Width - 1) /\ Group * MaxVarInt < Width
    /\ MaxVarInt + 1 \in 1..Width
    /\ Readable \subseteq 0..(2^(Width - 1) - 1)
    /\ Readable \subseteq 0..(2^Width - 1)
<1> DEFINE q == (Width - 1) \div Group
<1>1. Group \in Nat \ {0} /\ Width - 1 \in Nat /\ Width - 1 >= Group
  BY WidthsAssumption
<1>2. q \in Int /\ (Width - 1) % Group \in 0..(Group - 1)
      /\ Width - 1 = Group * q + ((Width - 1) % Group)
  <2> DEFINE w == Width - 1
  <2>1. w \in Int
    BY <1>1
  <2> HIDE DEF w
  <2>2. /\ w \div Group \in Int /\ w % Group \in 0..(Group - 1)
        /\ w = Group * (w \div Group) + (w % Group)
    BY <1>1, <2>1, Remainder
  <2> QED  BY <2>2 DEF w
<1> DEFINE r == (Width - 1) % Group
<1> HIDE DEF q, r
<1>3. Group * q <= Width - 1 /\ Group * q > Width - 1 - Group
  BY <1>1, <1>2 DEF r
<1>4. q >= 1
  <2>1. q <= 0 => Group * q <= 0
    BY <1>1, <1>2
  <2> QED  BY <1>1, <1>2, <1>3, <2>1
<1>5. Group * q >= q
  BY <1>1, <1>2, <1>4
<1>6. q \in 1..(Width - 1) /\ Group * q < Width /\ q + 1 \in 1..Width
  BY <1>1, <1>2, <1>3, <1>4, <1>5, WidthsAssumption
<1>7. 2^(Group * q) <= 2^(Width - 1)
  <2>1. /\ Group * q \in 0..(Group * Width) /\ Width - 1 \in (Group * q)..(Group * Width)
    <3>1. Width <= Group * Width
      BY WidthsAssumption
    <3>2. Group * q \in Nat /\ Group * Width \in Nat
      BY <1>1, <1>2, <1>4, WidthsAssumption
    <3> QED  BY <1>1, <1>3, <3>1, <3>2, WidthsAssumption
  <2> QED  BY <2>1, PowersGrow
<1>8. 2^(Group * q) \in Nat
  BY <1>6, Places, Powers, WidthsAssumption
<1>9. MaxVarInt = q
  BY DEF MaxVarInt, q
<1> QED  BY <1>6, <1>7, <1>8, <1>9, Halves DEF Readable

(* A number that is readable needs no more bytes than readVarInt reads.    *)
LEMMA ReadableIsShort ==
    ASSUME NEW v \in Readable
    PROVE  ShortestVarInt(v) \in 1..MaxVarInt
<1>1. /\ MaxVarInt \in 1..(Width - 1) /\ v \in 0..(2^Width - 1)
  BY MaxVarIntProperties
<1>2. v \in Int /\ 2^Width \in Nat \ {0}
  BY <1>1, Halves, WidthsAssumption
<1>3. v % 2^Width = v
  <2> DEFINE M == 2^Width
  <2>1. M \in Nat \ {0} /\ v \in 0..(M - 1)
    BY <1>1, <1>2
  <2> HIDE DEF M
  <2> QED  BY <2>1, SmallRemainder DEF M
<1>4. /\ ShortestVarInt(v) \in 1..Width
      /\ \A k \in 1..(ShortestVarInt(v) - 1) : v >= 2^(Group * k)
  BY <1>2, <1>3, ShortestProperties
<1>5. v < 2^(Group * MaxVarInt) /\ 2^(Group * MaxVarInt) \in Nat
  BY <1>1, Places, Powers, WidthsAssumption DEF Readable
<1>6. ~(ShortestVarInt(v) > MaxVarInt)
  <2>1. ShortestVarInt(v) > MaxVarInt => MaxVarInt \in 1..(ShortestVarInt(v) - 1)
    BY <1>1, <1>4
  <2> QED  BY <1>2, <1>4, <1>5, <2>1
<1> QED  BY <1>1, <1>4, <1>6

(* A VarInt of as many bytes as are needed, or of more.                    *)
LEMMA PaddedIsVarInt ==
    ASSUME NEW v \in Readable, NEW n \in ShortestVarInt(v)..(MaxVarInt + 1)
    PROVE  /\ Padded(v, n) \in Seq(Byte) /\ Len(Padded(v, n)) = n
           /\ n \in 1..Width /\ Group * (n - 1) < Width
           /\ IsVarInt(Padded(v, n), v)
           /\ Spelled(Padded(v, n)) = v
<1> DEFINE bytes == Padded(v, n)
           s == ShortestVarInt(v)
<1>1. /\ MaxVarInt \in 1..(Width - 1) /\ Group * MaxVarInt < Width
      /\ MaxVarInt + 1 \in 1..Width
      /\ v \in 0..(2^(Width - 1) - 1) /\ v \in 0..(2^Width - 1)
  BY MaxVarIntProperties
<1>2. s \in 1..MaxVarInt
  BY ReadableIsShort
<1>3. n \in 1..Width /\ n \in 0..(Width + 1) /\ Group * (n - 1) < Width
  <2>1. n \in 1..Width /\ n - 1 <= MaxVarInt
    BY <1>1, <1>2, WidthsAssumption
  <2>2. Group * (n - 1) <= Group * MaxVarInt
    BY <1>1, <2>1, WidthsAssumption
  <2>3. Group * (n - 1) \in Int /\ Group * MaxVarInt \in Int
    BY <1>1, <2>1, WidthsAssumption
  <2> QED  BY <1>1, <2>1, <2>2, <2>3, WidthsAssumption
<1>4. v \in Int /\ bytes \in Seq(Byte) /\ Len(bytes) = n
  BY <1>1, <1>3, Halves, PaddedType, WidthsAssumption
<1>5. v % 2^Width = v
  <2> DEFINE M == 2^Width
  <2>1. M \in Nat \ {0} /\ v \in 0..(M - 1)
    BY <1>1, Halves, WidthsAssumption
  <2> HIDE DEF M
  <2> QED  BY <2>1, SmallRemainder DEF M
<1>6. v < 2^(Group * n)
  <2>1. v < 2^(Group * s)
    BY <1>4, <1>5, ShortestProperties
  <2>2. Group * s \in 0..(Group * Width) /\ Group * n \in (Group * s)..(Group * Width)
    <3>1. s \in 1..Width /\ n \in s..Width
      BY <1>1, <1>2, <1>3, WidthsAssumption
    <3> QED  BY <3>1, WidthsAssumption
  <2>3. 2^(Group * s) <= 2^(Group * n)
    BY <2>2, PowersGrow
  <2>4. 2^(Group * s) \in Nat /\ 2^(Group * n) \in Nat
    BY <2>2, Powers, WidthsAssumption
  <2> QED  BY <1>4, <2>1, <2>3, <2>4
<1>7. Spelled(bytes) = v
  BY <1>1, <1>3, <1>6, PaddedSpells
<1>8. Signed(v, Width) = v
  <2>1. v \in -(2^(Width - 1))..(2^(Width - 1) - 1)
    BY <1>1, Halves, WidthsAssumption
  <2> QED  BY <1>4, <2>1, SignedProperties
<1>9. \A k \in 1..n : More(bytes[k]) <=> k < n
  BY <1>1, <1>3, PaddedBytes
<1>10. DOMAIN bytes = 1..n /\ bytes # <<>>
  <2> HIDE DEF bytes
  <2> QED  BY <1>3, <1>4, LenProperties, EmptySeq
<1>11. IsVarInt(bytes, v)
  <2> HIDE DEF bytes
  <2> QED  BY <1>4, <1>7, <1>8, <1>9, <1>10 DEF IsVarInt
<1> QED  BY <1>3, <1>4, <1>7, <1>11

(* So the client writes such a number as a VarInt of that many bytes at    *)
(* most.                                                                   *)
LEMMA ClientVarIntProperties ==
    ASSUME NEW v \in Readable
    PROVE  /\ ClientVarInt(v) \in Seq(Byte) /\ Len(ClientVarInt(v)) \in 1..MaxVarInt
           /\ IsVarInt(ClientVarInt(v), v)
<1>1. ShortestVarInt(v) \in 1..MaxVarInt
  BY ReadableIsShort
<1>2. ShortestVarInt(v) \in ShortestVarInt(v)..(MaxVarInt + 1)
  BY <1>1, MaxVarIntProperties
<1> QED  BY <1>1, <1>2, PaddedIsVarInt DEF ClientVarInt

-----------------------------------------------------------------------------
(* What is written is read: pieces, one after the other.                   *)

\* A piece lies behind a position of the data.
Has(data, pos, piece) ==
    pos + Len(piece) <= Len(data) /\ SubSeq(data, pos + 1, pos + Len(piece)) = piece

(* A piece that lies there is there element by element.                    *)
LEMMA HasElements ==
    ASSUME NEW data \in Seq(Byte), NEW pos \in Nat, NEW piece \in Seq(Byte),
           pos + Len(piece) <= Len(data)
    PROVE  /\ pos \in 0..Len(data) /\ pos + Len(piece) \in pos..Len(data)
           /\ Has(data, pos, piece) <=> \A i \in 1..Len(piece) : data[pos + i] = piece[i]
<1> DEFINE n == Len(piece)
           b == pos + n
           s == SubSeq(data, pos + 1, b)
<1>1. n \in Nat /\ Len(data) \in Nat /\ pos \in 0..Len(data) /\ b \in pos..Len(data)
      /\ b - pos = n
  BY LenProperties
<1>2. s \in Seq(Byte) /\ Len(s) = n /\ \A i \in 1..n : s[i] = data[pos + i]
  <2> HIDE DEF b, n
  <2> QED  BY <1>1, Piece
<1>3. (\A i \in 1..n : s[i] = piece[i]) => s = piece
  <2> HIDE DEF s
  <2> QED  BY <1>2, SeqEqual
<1>4. Has(data, pos, piece) <=> s = piece
  BY DEF Has
<1> HIDE DEF s
<1> QED  BY <1>1, <1>2, <1>3, <1>4

(* Of two pieces in a row each lies where it begins.                       *)
LEMMA HasBoth ==
    ASSUME NEW data \in Seq(Byte), NEW pos \in Nat,
           NEW s \in Seq(Byte), NEW t \in Seq(Byte), Has(data, pos, s \o t)
    PROVE  /\ Has(data, pos, s) /\ Has(data, pos + Len(s), t)
           /\ pos + Len(s) \in Nat /\ Len(s \o t) = Len(s) + Len(t)
<1> DEFINE st == s \o t
           m == Len(s)
           n == Len(t)
<1>1. /\ m \in Nat /\ n \in Nat /\ st \in Seq(Byte) /\ Len(st) = m + n
      /\ \A i \in 1..m : st[i] = s[i]
      /\ \A i \in 1..n : st[m + i] = t[i]
  BY ConcatProperties, LenProperties
<1>2. pos + Len(st) <= Len(data)
  BY DEF Has
<1>3. \A i \in 1..Len(st) : data[pos + i] = st[i]
  <2> HIDE DEF st
  <2> QED  BY <1>1, <1>2, HasElements DEF st
<1> HIDE DEF st
<1>4. pos + m <= Len(data) /\ (pos + m) + n <= Len(data) /\ pos + m \in Nat
  BY <1>1, <1>2, LenProperties
<1>5. \A i \in 1..m : data[pos + i] = s[i]
  BY <1>1, <1>3
<1>6. \A i \in 1..n : data[(pos + m) + i] = t[i]
  <2> SUFFICES ASSUME NEW i \in 1..n PROVE data[(pos + m) + i] = t[i]
    OBVIOUS
  <2>1. m + i \in 1..Len(st) /\ pos + (m + i) = (pos + m) + i
    BY <1>1
  <2> QED  BY <1>1, <1>3, <2>1
<1> QED  BY <1>1, <1>4, <1>5, <1>6, HasElements DEF st

(* All of the data lies at its start.                                      *)
LEMMA HasAll ==
    ASSUME NEW data \in Seq(Byte)
    PROVE  Has(data, 0, data)
<1>1. Len(data) \in Nat /\ 0 + Len(data) <= Len(data)
  BY LenProperties
<1>2. \A i \in 1..Len(data) : data[0 + i] = data[i]
  BY <1>1
<1> QED  BY <1>1, <1>2, HasElements

-----------------------------------------------------------------------------
(* What is written is read: each of the reads gives what lies behind the   *)
(* position, and the position behind it.                                   *)

(* readVarInt gives the number of a client's VarInt,                       *)
LEMMA readVarIntReads ==
    ASSUME NEW data \in Seq(Byte), NEW pos \in Nat, NEW v \in Readable,
           Has(data, pos, ClientVarInt(v))
    PROVE  readVarInt(data, pos) = Got(v, pos + Len(ClientVarInt(v)))
<1> DEFINE bytes == ClientVarInt(v)
           m == Len(bytes)
           ends == {k \in 1..MaxVarInt : pos + k <= Len(data) /\ ~More(data[pos + k])}
           n == CHOOSE k \in ends : \A j \in ends : k <= j
<1>1. /\ bytes \in Seq(Byte) /\ m \in 1..MaxVarInt /\ IsVarInt(bytes, v)
      /\ MaxVarInt \in Nat /\ DOMAIN bytes = 1..m
  BY ClientVarIntProperties, MaxVarIntProperties, LenProperties, WidthsAssumption
<1>2. pos + m <= Len(data) /\ SubSeq(data, pos + 1, pos + m) = bytes
  BY DEF Has
<1>3. \A i \in 1..m : data[pos + i] = bytes[i]
  <2> HIDE DEF bytes
  <2> QED  BY <1>1, <1>2, HasElements DEF bytes
<1>4. \A k \in 1..m : More(data[pos + k]) <=> k < m
  BY <1>1, <1>3 DEF IsVarInt
<1>5. m \in ends /\ \A j \in ends : m <= j
  <2>1. m \in ends
    BY <1>1, <1>2, <1>4
  <2>2. ASSUME NEW j \in ends PROVE m <= j
    <3>1. j \in 1..MaxVarInt /\ ~More(data[pos + j])
      OBVIOUS
    <3> HIDE DEF ends
    <3>2. j < m => j \in 1..m
      BY <1>1, <3>1
    <3> QED  BY <1>1, <1>4, <3>1, <3>2
  <2> QED  BY <2>1, <2>2
<1>6. n = m
  <2>1. \A k \in ends : (\A j \in ends : k <= j) => k = m
    <3>1. \A k \in ends : k \in Int
      OBVIOUS
    <3> HIDE DEF ends
    <3> QED  BY <1>1, <1>5, <3>1
  <2> HIDE DEF ends
  <2> QED  BY <1>5, <2>1
<1>7. Signed(Spelled(bytes), Width) = v
  BY <1>1 DEF IsVarInt
<1>8. ends # {}
  BY <1>5
<1>9. readVarInt(data, pos) =
          IF ends # {}
          THEN Got(Signed(Spelled(SubSeq(data, pos + 1, pos + n)), Width), pos + n)
          ELSE Thrown(IF Len(data) - pos <= MaxVarInt THEN "underflow"
                      ELSE "VarInt too big")
  BY DEF readVarInt
<1> HIDE DEF ends, n
<1> QED  BY <1>2, <1>6, <1>7, <1>8, <1>9

(* readBytes the bytes that lie there,                                     *)
LEMMA readBytesReads ==
    ASSUME NEW data, NEW pos, NEW bytes, Has(data, pos, bytes),
           pos \in Nat, Len(data) \in Nat, Len(bytes) \in Nat
    PROVE  readBytes(Len(bytes), data, pos) = Got(bytes, pos + Len(bytes))
<1> DEFINE end == pos + Len(bytes)
<1>1. end <= Len(data) /\ SubSeq(data, pos + 1, end) = bytes
  BY DEF Has
<1>2. ~(end > Len(data))
  BY <1>1
<1>3. readBytes(Len(bytes), data, pos) =
          IF end > Len(data) THEN Thrown("underflow")
          ELSE Got(SubSeq(data, pos + 1, end), end)
  BY DEF readBytes
<1> HIDE DEF end
<1>4. readBytes(Len(bytes), data, pos) = Got(bytes, end)
  BY <1>1, <1>2, <1>3
<1> QED  BY <1>4 DEF end

(* readString the string, which is not too long, of a client's string,     *)
LEMMA readStringReads ==
    ASSUME NEW data \in Seq(Byte), NEW pos \in Nat, NEW s \in Seq(Byte),
           Len(s) \in Readable, NEW max \in Nat, Len(s) <= max,
           Has(data, pos, ClientString(s))
    PROVE  readString(max, data, pos) = Got(s, pos + Len(ClientString(s)))
<1> DEFINE head == ClientVarInt(Len(s))
           l == readVarInt(data, pos)
<1>1. head \in Seq(Byte) /\ Len(head) \in Nat
  BY ClientVarIntProperties, LenProperties
<1>2. /\ Has(data, pos, head) /\ Has(data, pos + Len(head), s)
      /\ pos + Len(head) \in Nat
      /\ Len(ClientString(s)) = Len(head) + Len(s)
  <2> HIDE DEF head
  <2>1. ClientString(s) = head \o s
    BY DEF ClientString, head
  <2> QED  BY <1>1, <2>1, HasBoth
<1>3. l = Got(Len(s), pos + Len(head))
  BY <1>2, readVarIntReads
<1>4. l.thrown = "none" /\ l.value = Len(s) /\ l.pos = pos + Len(head)
  BY <1>3 DEF Got
<1>5. readBytes(Len(s), data, pos + Len(head)) = Got(s, (pos + Len(head)) + Len(s))
  <2>1. Len(data) \in Nat /\ Len(s) \in Nat
    BY LenProperties
  <2> HIDE DEF head
  <2> QED  BY <1>2, <2>1, readBytesReads
<1>6. (pos + Len(head)) + Len(s) = pos + (Len(head) + Len(s))
  BY <1>1, LenProperties
<1>7. ~(l.value > max)
  BY <1>4, LenProperties
<1>8. readString(max, data, pos) =
          IF ~Ok(l) THEN l
          ELSE IF l.value > max THEN Thrown("String length exceeds")
          ELSE readBytes(l.value, data, l.pos)
  BY DEF readString
<1> HIDE DEF l, head
<1>9. Ok(l)
  BY <1>4 DEF Ok
<1> QED  BY <1>2, <1>4, <1>5, <1>6, <1>7, <1>8, <1>9

(* A byte is a sequence of one.                                            *)
LEMMA OneByte ==
    ASSUME NEW b \in Byte
    PROVE  <<b>> \in Seq(Byte) /\ Len(<<b>>) = 1 /\ <<b>>[1] = b
OBVIOUS

(* readByte a byte,                                                        *)
LEMMA readByteReads ==
    ASSUME NEW data \in Seq(Byte), NEW pos \in Nat, NEW b \in Byte, Has(data, pos, <<b>>)
    PROVE  readByte(data, pos) = Got(b, pos + 1)
<1>1. <<b>> \in Seq(Byte) /\ Len(<<b>>) = 1 /\ <<b>>[1] = b
  BY OneByte
<1>2. pos + 1 <= Len(data)
  BY <1>1 DEF Has
<1>3. \A i \in 1..1 : data[pos + i] = <<b>>[i]
  BY <1>1, <1>2, HasElements
<1>4. data[pos + 1] = b
  BY <1>1, <1>3
<1> QED  BY <1>2, <1>4, LenProperties DEF readByte

(* readUShort the port, which the handler drops,                           *)
LEMMA readUShortReads ==
    ASSUME NEW data \in Seq(Byte), NEW pos \in Nat, Has(data, pos, Port)
    PROVE  readUShort(data, pos) = Got("dropped", pos + 2)
<1> DEFINE r == readBytes(2, data, pos)
<1>1. Len(Port) = 2 /\ Len(data) \in Nat
  BY LenProperties DEF Port
<1>2. r = Got(Port, pos + 2)
  <2>1. readBytes(Len(Port), data, pos) = Got(Port, pos + Len(Port))
    <3> DEFINE port == Port
    <3>1. Has(data, pos, port) /\ Len(port) \in Nat
      BY <1>1
    <3> HIDE DEF port
    <3>2. readBytes(Len(port), data, pos) = Got(port, pos + Len(port))
      BY <1>1, <3>1, readBytesReads
    <3> QED  BY <3>2 DEF port
  <2> QED  BY <1>1, <2>1
<1>3. readUShort(data, pos) = IF Ok(r) THEN Got("dropped", r.pos) ELSE r
  BY DEF readUShort
<1> HIDE DEF r
<1> QED  BY <1>2, <1>3 DEF Got, Ok

(* BigEndian adds one digit after the other.                               *)
LEMMA BigEndianProperties ==
    ASSUME NEW bytes \in Seq(Int), NEW base \in Int
    PROVE  \E f \in [0..Len(bytes) -> Int] :
               /\ f[0] = 0 /\ BigEndian(bytes, base) = f[Len(bytes)]
               /\ \A i \in 1..Len(bytes) : f[i] = f[i - 1] * base + bytes[i]
<1> DEFINE N == Len(bytes)
           step == [p \in (1..N) \X Int |-> p[2] * base + bytes[p[1]]]
<1>1. N \in Nat /\ \A i \in 1..N : bytes[i] \in Int
  BY LenProperties, ElementOfSeq
<1>2. \A i \in 1..N : \A x \in Int : x * base + bytes[i] \in Int
  BY <1>1
<1>3. step \in [(1..N) \X Int -> Int]
  <2> HIDE DEF N
  <2> QED  BY <1>2
<1>4. PICK f \in [0..N -> Int] : IsIteration(f, N, 0, step)
  <2>1. 0 \in Int
    OBVIOUS
  <2> HIDE DEF step, N
  <2> QED  BY <1>1, <1>3, <2>1, Iteration
<1>5. f[0] = 0
  BY <1>4 DEF IsIteration
<1>6. \A i \in 1..N : f[i] = f[i - 1] * base + bytes[i]
  <2> SUFFICES ASSUME NEW i \in 1..N PROVE f[i] = f[i - 1] * base + bytes[i]
    OBVIOUS
  <2>1. f[i] = step[<<i, f[i - 1]>>]
    BY <1>4 DEF IsIteration
  <2> HIDE DEF N
  <2>2. f[i - 1] \in Int
    BY <1>1, <1>4
  <2> QED  BY <2>1, <2>2
<1> DEFINE upTo[i \in 0..N] == IF i = 0 THEN 0 ELSE upTo[i - 1] * base + bytes[i]
           IsUpTo(g) == g = [i \in 0..N |-> IF i = 0 THEN 0 ELSE g[i - 1] * base + bytes[i]]
<1>7. IsUpTo(f)
  <2> HIDE DEF N
  <2> QED  BY <1>1, <1>4, <1>5, <1>6
<1>8. IsUpTo(upTo)
  <2> HIDE DEF N
  <2> QED  BY <1>7
<1>9. \A i \in 0..N : upTo[i] = f[i]
  <2> HIDE DEF N, upTo
  <2>1. upTo[0] = f[0]
    BY <1>1, <1>5, <1>8
  <2>2. ASSUME NEW i \in 1..N, upTo[i - 1] = f[i - 1] PROVE upTo[i] = f[i]
    BY <1>1, <1>6, <1>8, <2>2
  <2>3. SameSteps(upTo, f, N)
    BY <2>1, <2>2 DEF SameSteps
  <2> QED  BY <1>1, <2>3, SameIteration
<1>10. BigEndian(bytes, base) = upTo[N]
  BY DEF BigEndian
<1>11. BigEndian(bytes, base) = f[N]
  <2> HIDE DEF upTo
  <2> QED  BY <1>1, <1>9, <1>10
<1> QED  BY <1>4, <1>5, <1>6, <1>11

(* The bytes of a long are the digits of its remainder.                    *)
LEMMA ClientLongSpells ==
    ASSUME NEW v \in Int
    PROVE  BigEndian(ClientLong(v), Base) = v % Base^LongBytes
<1> DEFINE L == LongBytes
           bytes == ClientLong(v)
<1>1. /\ L \in Nat \ {0} /\ Base \in Nat \ {0}
      /\ \A n \in 0..L : Base^n \in Nat \ {0}
      /\ Base^0 = 1 /\ \A n \in 1..L : Base^n = Base * Base^(n - 1)
  BY Halves, WidthsAssumption, BasePowers, PowersAssumption
<1>2. bytes \in Seq(Byte) /\ Len(bytes) = L
  BY ClientLongType
<1>3. bytes \in Seq(Int)
  <2> HIDE DEF bytes
  <2> QED  BY <1>2, BytesAreInts
<1>4. PICK f \in [0..L -> Int] :
          /\ f[0] = 0 /\ BigEndian(bytes, Base) = f[L]
          /\ \A i \in 1..L : f[i] = f[i - 1] * Base + bytes[i]
  <2> DEFINE y == Base
  <2>1. y \in Int
    BY <1>1
  <2> HIDE DEF bytes, y
  <2>2. \E f \in [0..Len(bytes) -> Int] :
            /\ f[0] = 0 /\ BigEndian(bytes, y) = f[Len(bytes)]
            /\ \A i \in 1..Len(bytes) : f[i] = f[i - 1] * y + bytes[i]
    BY <1>3, <2>1, BigEndianProperties
  <2> QED  BY <1>2, <2>2 DEF y
<1> DEFINE Rest(i) == v % Base^(L - i)
           Done == {i \in 0..L : f[i] * Base^(L - i) + Rest(i) = v % Base^L}
<1>5. 0 \in Done
  <2>1. L - 0 = L
    BY <1>1
  <2>2. v % Base^L \in Int
    <3> DEFINE w == Base^L
    <3>1. w \in Nat \ {0}
      BY <1>1
    <3> HIDE DEF w
    <3>2. v % w \in Int
      BY <3>1, Remainder
    <3> QED  BY <3>2 DEF w
  <2>3. 0 * Base^L = 0
    <3> DEFINE w == Base^L
    <3>1. w \in Int
      BY <1>1
    <3> HIDE DEF w
    <3> QED  BY <3>1 DEF w
  <2> DEFINE x == v % Base^L
  <2>4. 0 + x = x
    <3> HIDE DEF x
    <3> QED  BY <2>2 DEF x
  <2> QED  BY <1>1, <1>4, <2>1, <2>3, <2>4
<1>6. ASSUME NEW i \in 0..(L - 1), i \in Done
      PROVE  i + 1 \in Done
  <2> DEFINE p == Base^(L - (i + 1))
             b == bytes[i + 1]
             r == v % (p * Base)
             a == f[i]
             y == Base
  <2>1. /\ L - (i + 1) \in 0..L /\ L - i \in 1..L /\ (L - i) - 1 = L - (i + 1)
        /\ i + 1 \in 1..L /\ (i + 1) - 1 = i
        /\ L - (i + 1) + 1 = L - i
    BY <1>1
  <2>2. p \in Nat \ {0} /\ y \in Nat \ {0} /\ Base^(L - i) = y * p /\ y * p = p * y
    <3>1. Base^(L - i) = Base * Base^((L - i) - 1)
      BY <1>1, <2>1
    <3>2. p \in Nat \ {0} /\ y \in Nat \ {0} /\ Base^(L - i) = y * p
      BY <1>1, <2>1, <3>1
    <3> HIDE DEF p, y
    <3> QED  BY <3>2
  <2>3. b = r \div p
    <3>1. b = (v % Base^(L - (i + 1) + 1)) \div Base^(L - (i + 1))
      BY <1>1, <2>1 DEF ClientLong
    <3> QED  BY <2>1, <2>2, <3>1
  <2>4. a \in Int /\ f[i + 1] = a * y + b
    BY <1>1, <1>4, <2>1
  <2>5. a * (y * p) + r = v % Base^L
    BY <1>6, <2>2
  <2>6. r = (v % p) + p * ((v \div p) % y)
    <3> HIDE DEF p
    <3> QED  BY <2>2, RemainderOfProduct
  <2> DEFINE s == v % p
             t == (v \div p) % y
  <2>7. s \in 0..(p - 1) /\ t \in Int
    <3> DEFINE d == v \div p
    <3> HIDE DEF p, y
    <3>1. d \in Int
      BY <2>2, Remainder
    <3> HIDE DEF d
    <3>2. (d % y) \in Int
      BY <2>2, <3>1, Remainder
    <3> QED  BY <2>2, <3>2, Remainder DEF d
  <2>8. b = t
    <3> HIDE DEF p, y, b, r, s, t
    <3>1. r \in Int /\ r = p * t + s
      BY <2>2, <2>6, <2>7 DEF s, t
    <3>2. r \div p = t
      BY <2>2, <2>7, <3>1, RemainderIsUnique
    <3> QED  BY <2>3, <3>2
  <2>9. (a * y + t) * p + s = a * (y * p) + (s + p * t)
    <3> HIDE DEF p, y, a, s, t
    <3>1. (a * y + t) * p = (a * y) * p + t * p
      BY <2>2, <2>4, <2>7
    <3>2. (a * y) * p = a * (y * p) /\ t * p = p * t
      BY <2>2, <2>4, <2>7
    <3>3. a * (y * p) \in Int /\ p * t \in Int
      BY <2>2, <2>4, <2>7
    <3> QED  BY <2>7, <3>1, <3>2, <3>3
  <2>10. f[i + 1] * p + s = v % Base^L
    <3> HIDE DEF p, y, a, s, t, b, r
    <3> QED  BY <2>4, <2>5, <2>6, <2>8, <2>9 DEF s, t
  <2> QED  BY <2>1, <2>10
<1>7. 0..L \subseteq Done
  <2> HIDE DEF Done, L
  <2> QED  BY <1>1, <1>5, <1>6, Induction
<1>8. f[L] + (v % Base^0) = (v % Base^L)
  <2>1. L \in Done /\ L - L = 0
    <3>1. L \in 0..L /\ L - L = 0
      BY <1>1
    <3> HIDE DEF Done
    <3> QED  BY <1>7, <3>1
  <2>2. f[L] * Base^(L - L) + Rest(L) = (v % Base^L)
    BY <2>1
  <2>4. f[L] * Base^0 + (v % Base^0) = (v % Base^L)
    BY <2>1, <2>2
  <2>3. f[L] * 1 = f[L]
    BY <1>1, <1>4
  <2> QED  BY <1>1, <2>4, <2>3
<1>9. v % Base^0 = 0 /\ f[L] \in Int
  BY <1>1, <1>4, RemainderByOne
<1>10. f[L] + 0 = f[L]
  BY <1>9
<1> QED  BY <1>4, <1>8, <1>9, <1>10

(* A long is its remainder, with the sign that its first bit says.         *)
LEMMA SignedLong ==
    ASSUME NEW v \in LongInts
    PROVE  Signed(v % Base^LongBytes, LongBits) = v
<1> DEFINE H == 2^(LongBits - 1)
           M == Base^LongBytes
           u == v % M
<1>1. M \in Nat \ {0} /\ 2^LongBits = M /\ M = 2 * H
  BY BasePowers, WidthsAssumption, PowersAssumption DEF LongBits
<1>2. Signed(u, LongBits) = IF (u % M) >= H THEN (u % M) - M ELSE (u % M)
  <2> HIDE DEF u, M
  <2> QED  BY <1>1 DEF Signed
<1>3. v \in -H..(H - 1)
  BY DEF LongInts
<1>4. H \in Int
  <2>1. v \in Int /\ v >= -H /\ v <= H - 1
    BY <1>3
  <2>2. LongBits - 1 \in Nat
    BY WidthsAssumption DEF LongBits
  <2>3. \A n \in Nat : 2^n \in Int
    OBVIOUS
  <2> QED  BY <2>2, <2>3
<1> HIDE DEF M, H
<1>5. u \in 0..(M - 1)
  BY <1>1, <1>3, <1>4, Remainder
<1>6. u % M = u
  <2> HIDE DEF u
  <2> QED  BY <1>1, <1>5, SmallRemainder
<1>7. u = IF v < 0 THEN v + M ELSE v
  <2>1. CASE v < 0
    <3>1. v = M * (-1) + (v + M) /\ v + M \in 0..(M - 1) /\ -1 \in Int /\ v \in Int
      BY <1>1, <1>3, <1>4, <2>1
    <3>2. v % M = v + M
      BY <1>1, <3>1, RemainderIsUnique
    <3> QED  BY <2>1, <3>2
  <2>2. CASE ~(v < 0)
    <3>1. v \in 0..(M - 1)
      BY <1>1, <1>3, <1>4, <2>2
    <3>2. v % M = v
      BY <1>1, <3>1, SmallRemainder
    <3> QED  BY <2>2, <3>2
  <2> QED  BY <2>1, <2>2
<1> HIDE DEF u
<1>8. Signed(u, LongBits) = v
  BY <1>1, <1>2, <1>3, <1>4, <1>5, <1>6, <1>7
<1> QED  BY <1>8 DEF u, M

(* and readLong the number of a client's long.                             *)
LEMMA readLongReads ==
    ASSUME NEW data \in Seq(Byte), NEW pos \in Nat, NEW v \in LongInts,
           Has(data, pos, ClientLong(v))
    PROVE  readLong(data, pos) = Got(v, pos + Len(ClientLong(v)))
<1> DEFINE long == ClientLong(v)
           r == readBytes(LongBytes, data, pos)
<1>1. v \in Int
  <2>1. LongBits - 1 \in Nat
    BY WidthsAssumption DEF LongBits
  <2>2. 2^(LongBits - 1) \in Int
    BY <2>1
  <2> QED  BY <2>2 DEF LongInts
<1>2. long \in Seq(Byte) /\ Len(long) = LongBytes /\ LongBytes \in Nat
  BY <1>1, ClientLongType, WidthsAssumption
<1>3. BigEndian(long, Base) = v % Base^LongBytes
  BY <1>1, ClientLongSpells
<1>4. r = Got(long, pos + LongBytes)
  <2> HIDE DEF long
  <2>1. Len(data) \in Nat /\ Has(data, pos, long)
    BY LenProperties DEF long
  <2>2. readBytes(Len(long), data, pos) = Got(long, pos + Len(long))
    BY <1>2, <2>1, readBytesReads
  <2> QED  BY <1>2, <2>2
<1>5. r.thrown = "none" /\ r.value = long /\ r.pos = pos + LongBytes
  <2> HIDE DEF r
  <2> QED  BY <1>4 DEF Got
<1>6. readLong(data, pos) =
          IF ~Ok(r) THEN r
          ELSE Got(Signed(BigEndian(r.value, Base), LongBytes * (Group + 1)), r.pos)
  BY DEF readLong
<1>7. Signed(v % Base^LongBytes, LongBytes * (Group + 1)) = v
  BY SignedLong DEF LongBits
<1> HIDE DEF r, long
<1>8. Ok(r)
  BY <1>5 DEF Ok
<1> QED  BY <1>2, <1>3, <1>5, <1>6, <1>7, <1>8 DEF long

-----------------------------------------------------------------------------
(* What is written is read: one read after the other.                      *)

(* The beginnings of a sequence.                                           *)
LEMMA Beginnings ==
    ASSUME NEW S, NEW s \in Seq(S)
    PROVE  /\ SubSeq(s, 1, 0) = <<>> /\ SubSeq(s, 1, Len(s)) = s
           /\ \A i \in 1..Len(s) : SubSeq(s, 1, i) = Append(SubSeq(s, 1, i - 1), s[i])
<1>1. Len(s) \in Nat
  BY LenProperties
<1>2. SubSeq(s, 1, 0) = <<>>
  BY SubSeqProperties, LenProperties, EmptySeq
<1>3. SubSeq(s, 1, Len(s)) = s
  <2>1. CASE Len(s) = 0
    BY <2>1, SubSeqProperties, LenProperties, EmptySeq
  <2>2. CASE Len(s) # 0
    <3> DEFINE t == SubSeq(s, 1, Len(s))
    <3>1. t \in Seq(S) /\ Len(t) = Len(s) /\ \A i \in 1..Len(s) : t[i] = s[i]
      BY <1>1, <2>2, SubSeqProperties
    <3> HIDE DEF t
    <3> QED  BY <3>1, SeqEqual DEF t
  <2> QED  BY <2>1, <2>2
<1>4. ASSUME NEW i \in 1..Len(s)
      PROVE  SubSeq(s, 1, i) = Append(SubSeq(s, 1, i - 1), s[i])
  <2> DEFINE b == i - 1
  <2>1. 0 \in 0..Len(s) /\ b \in 0..(Len(s) - 1) /\ b + 1 = i /\ 0 + 1 = 1
    BY <1>1
  <2> HIDE DEF b
  <2>2. SubSeq(s, 0 + 1, b + 1) = Append(SubSeq(s, 0 + 1, b), s[b + 1])
    BY <2>1, LongerPiece
  <2> QED  BY <2>1, <2>2 DEF b
<1> QED  BY <1>2, <1>3, <1>4

(* A read in turn whose values and positions are known.                    *)
AreRead(values, offs) == [i \in 0..Len(values) |-> Got(SubSeq(values, 1, i), offs[i])]

(* The outcomes of reads in turn that give these values.                   *)
LEMMA AreReadProperties ==
    ASSUME NEW S, NEW values \in Seq(S), NEW offs
    PROVE  /\ AreRead(values, offs) = [i \in 0..Len(values) |-> AreRead(values, offs)[i]]
           /\ AreRead(values, offs)[0] = Got(<<>>, offs[0])
           /\ AreRead(values, offs)[Len(values)] = Got(values, offs[Len(values)])
           /\ \A i \in 1..Len(values) :
                  LET before == AreRead(values, offs)[i - 1]
                  IN  /\ Ok(before) /\ before.pos = offs[i - 1]
                      /\ AreRead(values, offs)[i] =
                             Got(Append(before.value, values[i]), offs[i])
<1> DEFINE f == AreRead(values, offs)
           N == Len(values)
<1>1. N \in Nat /\ 0 \in 0..N /\ N \in 0..N
  BY LenProperties
<1>2. \A i \in 0..N : f[i] = Got(SubSeq(values, 1, i), offs[i])
  BY DEF AreRead
<1>3. f = [i \in 0..N |-> f[i]]
  BY DEF AreRead
<1> HIDE DEF f
<1>4. f[0] = Got(<<>>, offs[0]) /\ f[N] = Got(values, offs[N])
  BY <1>1, <1>2, Beginnings
<1>5. ASSUME NEW i \in 1..N
      PROVE  /\ Ok(f[i - 1]) /\ f[i - 1].pos = offs[i - 1]
             /\ f[i] = Got(Append(f[i - 1].value, values[i]), offs[i])
  <2>1. i - 1 \in 0..N /\ i \in 0..N
    BY <1>1
  <2>2. /\ f[i - 1] = Got(SubSeq(values, 1, i - 1), offs[i - 1])
        /\ f[i] = Got(SubSeq(values, 1, i), offs[i])
    BY <1>2, <2>1
  <2>3. /\ f[i - 1].thrown = "none" /\ f[i - 1].pos = offs[i - 1]
        /\ f[i - 1].value = SubSeq(values, 1, i - 1)
    BY <2>2 DEF Got
  <2>4. SubSeq(values, 1, i) = Append(SubSeq(values, 1, i - 1), values[i])
    BY Beginnings
  <2> QED  BY <2>2, <2>3, <2>4 DEF Ok
<1> QED  BY <1>3, <1>4, <1>5 DEF f

\* A recursion that meets what is read, as that of InTurn does.
Meets(upTo, values, offs) ==
    /\ upTo[0] = Got(<<>>, offs[0])
    /\ \A i \in 1..Len(values) :
           upTo[i - 1] = AreRead(values, offs)[i - 1] => upTo[i] = AreRead(values, offs)[i]

(* What InTurn defines by recursion meets them to the last.                *)
LEMMA TurnsMeet ==
    ASSUME NEW S, NEW values \in Seq(S), NEW offs, NEW upTo, Meets(upTo, values, offs)
    PROVE  upTo[Len(values)] = Got(values, offs[Len(values)])
<1> DEFINE f == AreRead(values, offs)
           N == Len(values)
<1>1. N \in Nat /\ N \in 0..N
  BY LenProperties
<1>2. f[0] = Got(<<>>, offs[0]) /\ f[N] = Got(values, offs[N])
  BY AreReadProperties
<1>3. SameSteps(upTo, f, N)
  BY <1>2 DEF Meets, SameSteps
<1>4. \A i \in 0..N : upTo[i] = f[i]
  <2> HIDE DEF f, N
  <2> QED  BY <1>1, <1>3, SameIteration
<1> QED  BY <1>1, <1>2, <1>4

\* Whatever lies around it, a piece is read as this value.
Gives(type, piece, value) ==
    /\ piece \in Seq(Byte)
    /\ \A data \in Seq(Byte), pos \in Nat :
           Has(data, pos, piece) => Read(type, data, pos) = Got(value, pos + Len(piece))

(* So reads that give values give them in turn.                            *)
LEMMA InTurnReads ==
    ASSUME NEW S, NEW values \in Seq(S), NEW types, NEW offs, NEW data,
           Len(types) = Len(values),
           \A i \in 1..Len(values) :
               Read(types[i], data, offs[i - 1]) = Got(values[i], offs[i])
    PROVE  InTurn(Read, types, data, offs[0]) = Got(values, offs[Len(values)])
<1> DEFINE N == Len(values)
           f == AreRead(values, offs)
           Step(before, i) ==
               LET r == Read(types[i], data, before.pos)
               IN  IF ~Ok(before) THEN before
                   ELSE IF ~Ok(r) THEN r
                   ELSE Got(Append(before.value, r.value), r.pos)
           upTo[i \in 0..N] == IF i = 0 THEN Got(<<>>, offs[0]) ELSE Step(upTo[i - 1], i)
           IsUpTo(g) ==
               g = [i \in 0..N |-> IF i = 0 THEN Got(<<>>, offs[0]) ELSE Step(g[i - 1], i)]
<1>1. N \in Nat
  BY LenProperties
<1>2. /\ f = [i \in 0..N |-> f[i]] /\ f[0] = Got(<<>>, offs[0])
      /\ \A i \in 1..N : /\ Ok(f[i - 1]) /\ f[i - 1].pos = offs[i - 1]
                         /\ f[i] = Got(Append(f[i - 1].value, values[i]), offs[i])
  BY AreReadProperties
<1> HIDE DEF f
<1>3. ASSUME NEW i \in 1..N PROVE Step(f[i - 1], i) = f[i]
  <2> DEFINE b == f[i - 1]
             r == Read(types[i], data, b.pos)
  <2>1. r = Got(values[i], offs[i])
    BY <1>2
  <2>2. Step(b, i) = IF ~Ok(b) THEN b ELSE IF ~Ok(r) THEN r
                     ELSE Got(Append(b.value, r.value), r.pos)
    OBVIOUS
  <2> HIDE DEF r, Step
  <2>3. r.thrown = "none" /\ r.value = values[i] /\ r.pos = offs[i]
    BY <2>1 DEF Got
  <2> QED  BY <1>2, <2>2, <2>3 DEF Ok
<1> HIDE DEF Step
<1>4. IsUpTo(f)
  <2>1. ASSUME NEW i \in 0..N
        PROVE  f[i] = IF i = 0 THEN Got(<<>>, offs[0]) ELSE Step(f[i - 1], i)
    <3>1. CASE i = 0
      BY <1>2, <3>1
    <3>2. CASE i # 0
      <4>1. i \in 1..N
        <5> HIDE DEF N
        <5> QED  BY <1>1, <3>2
      <4> QED  BY <1>3, <3>2, <4>1
    <3> QED  BY <3>1, <3>2
  <2> HIDE DEF N
  <2> QED  BY <1>2, <2>1
<1>5. IsUpTo(upTo)
  <2> HIDE DEF N
  <2> QED  BY <1>4
<1>6. upTo[0] = Got(<<>>, offs[0]) /\ \A i \in 1..N : upTo[i] = Step(upTo[i - 1], i)
  <2> HIDE DEF N, upTo
  <2> QED  BY <1>1, <1>5
<1>7. InTurn(Read, types, data, offs[0]) = upTo[N]
  BY DEF InTurn, Step
<1> HIDE DEF upTo
<1>8. Meets(upTo, values, offs)
  BY <1>3, <1>6 DEF Meets, f
<1> QED  BY <1>7, <1>8, TurnsMeet

(* Three strings of a pack, one behind the other.                          *)
LEMMA InTurnReadsStrings ==
    ASSUME NEW S, NEW values \in Seq(S), NEW types, NEW offs, NEW data,
           Len(types) = Len(values),
           \A i \in 1..Len(values) :
               readString(types[i], data, offs[i - 1]) = Got(values[i], offs[i])
    PROVE  InTurn(readString, types, data, offs[0]) = Got(values, offs[Len(values)])
<1> DEFINE N == Len(values)
           f == AreRead(values, offs)
           Step(before, i) ==
               LET r == readString(types[i], data, before.pos)
               IN  IF ~Ok(before) THEN before
                   ELSE IF ~Ok(r) THEN r
                   ELSE Got(Append(before.value, r.value), r.pos)
           upTo[i \in 0..N] == IF i = 0 THEN Got(<<>>, offs[0]) ELSE Step(upTo[i - 1], i)
           IsUpTo(g) ==
               g = [i \in 0..N |-> IF i = 0 THEN Got(<<>>, offs[0]) ELSE Step(g[i - 1], i)]
<1>1. N \in Nat
  BY LenProperties
<1>2. /\ f = [i \in 0..N |-> f[i]] /\ f[0] = Got(<<>>, offs[0])
      /\ \A i \in 1..N : /\ Ok(f[i - 1]) /\ f[i - 1].pos = offs[i - 1]
                         /\ f[i] = Got(Append(f[i - 1].value, values[i]), offs[i])
  BY AreReadProperties
<1> HIDE DEF f
<1>3. ASSUME NEW i \in 1..N PROVE Step(f[i - 1], i) = f[i]
  <2> DEFINE b == f[i - 1]
             r == readString(types[i], data, b.pos)
  <2>1. r = Got(values[i], offs[i])
    BY <1>2
  <2>2. Step(b, i) = IF ~Ok(b) THEN b ELSE IF ~Ok(r) THEN r
                     ELSE Got(Append(b.value, r.value), r.pos)
    OBVIOUS
  <2> HIDE DEF r, Step
  <2>3. r.thrown = "none" /\ r.value = values[i] /\ r.pos = offs[i]
    BY <2>1 DEF Got
  <2> QED  BY <1>2, <2>2, <2>3 DEF Ok
<1> HIDE DEF Step
<1>4. IsUpTo(f)
  <2>1. ASSUME NEW i \in 0..N
        PROVE  f[i] = IF i = 0 THEN Got(<<>>, offs[0]) ELSE Step(f[i - 1], i)
    <3>1. CASE i = 0
      BY <1>2, <3>1
    <3>2. CASE i # 0
      <4>1. i \in 1..N
        <5> HIDE DEF N
        <5> QED  BY <1>1, <3>2
      <4> QED  BY <1>3, <3>2, <4>1
    <3> QED  BY <3>1, <3>2
  <2> HIDE DEF N
  <2> QED  BY <1>2, <2>1
<1>5. IsUpTo(upTo)
  <2> HIDE DEF N
  <2> QED  BY <1>4
<1>6. upTo[0] = Got(<<>>, offs[0]) /\ \A i \in 1..N : upTo[i] = Step(upTo[i - 1], i)
  <2> HIDE DEF N, upTo
  <2> QED  BY <1>1, <1>5
<1>7. InTurn(readString, types, data, offs[0]) = upTo[N]
  BY DEF InTurn, Step
<1> HIDE DEF upTo
<1>8. Meets(upTo, values, offs)
  BY <1>3, <1>6 DEF Meets, f
<1> QED  BY <1>7, <1>8, TurnsMeet

(* A client's VarInt gives its number,                                     *)
LEMMA GivesVarInt ==
    ASSUME NEW v \in Readable
    PROVE  Gives("VarInt", ClientVarInt(v), v)
<1>1. ClientVarInt(v) \in Seq(Byte)
  BY ClientVarIntProperties
<1>2. ASSUME NEW data \in Seq(Byte), NEW pos \in Nat, Has(data, pos, ClientVarInt(v))
      PROVE  Read("VarInt", data, pos) = Got(v, pos + Len(ClientVarInt(v)))
  <2>1. readVarInt(data, pos) = Got(v, pos + Len(ClientVarInt(v)))
    BY <1>2, readVarIntReads
  <2> QED  BY <2>1 DEF Read
<1> QED  BY <1>1, <1>2 DEF Gives

(* a byte gives itself,                                                    *)
LEMMA GivesByte ==
    ASSUME NEW b \in Byte
    PROVE  Gives("Byte", <<b>>, b)
<1> DEFINE piece == <<b>>
<1>1. piece \in Seq(Byte) /\ Len(piece) = 1
  BY OneByte
<1>2. ASSUME NEW data \in Seq(Byte), NEW pos \in Nat, Has(data, pos, piece)
      PROVE  Read("Byte", data, pos) = Got(b, pos + Len(piece))
  <2>1. readByte(data, pos) = Got(b, pos + 1)
    BY <1>2, readByteReads
  <2> HIDE DEF piece
  <2> QED  BY <1>1, <2>1 DEF Read
<1> HIDE DEF piece
<1>3. Gives("Byte", piece, b)
  BY <1>1, <1>2 DEF Gives
<1> QED  BY <1>3 DEF piece

(* the port is dropped,                                                    *)
LEMMA GivesPort == Gives("UShort", Port, "dropped")
<1> DEFINE piece == Port
<1>1. piece \in Seq(Byte) /\ Len(piece) = 2
  BY SmallBytes DEF Port
<1>2. ASSUME NEW data \in Seq(Byte), NEW pos \in Nat, Has(data, pos, piece)
      PROVE  Read("UShort", data, pos) = Got("dropped", pos + Len(piece))
  <2>1. readUShort(data, pos) = Got("dropped", pos + 2)
    BY <1>2, readUShortReads
  <2> HIDE DEF piece
  <2> QED  BY <1>1, <2>1 DEF Read
<1> HIDE DEF piece
<1>3. Gives("UShort", piece, "dropped")
  BY <1>1, <1>2 DEF Gives
<1> QED  BY <1>3 DEF piece

(* a client's long gives its number,                                       *)
LEMMA GivesLong ==
    ASSUME NEW v \in LongInts
    PROVE  Gives("Long", ClientLong(v), v)
<1>1. ClientLong(v) \in Seq(Byte)
  <2>1. v \in Int
    BY DEF LongInts
  <2> QED  BY <2>1, ClientLongType
<1>2. ASSUME NEW data \in Seq(Byte), NEW pos \in Nat, Has(data, pos, ClientLong(v))
      PROVE  Read("Long", data, pos) = Got(v, pos + Len(ClientLong(v)))
  <2>1. readLong(data, pos) = Got(v, pos + Len(ClientLong(v)))
    BY <1>2, readLongReads
  <2> QED  BY <2>1 DEF Read
<1> QED  BY <1>1, <1>2 DEF Gives

(* and a client's string what it is about, as an address or a name.        *)
LEMMA GivesString ==
    ASSUME NEW s \in Seq(Byte), Len(s) \in Readable
    PROVE  /\ Len(s) <= MaxAddress => Gives("Address", ClientString(s), s)
           /\ Len(s) <= MaxName => Gives("Name", ClientString(s), s)
<1> DEFINE piece == ClientString(s)
<1>1. piece \in Seq(Byte)
  BY ClientStringType
<1>2. MaxAddress \in Nat /\ MaxName \in Nat
  BY ValuesAssumption
<1>3. ASSUME Len(s) <= MaxAddress
      PROVE  Gives("Address", piece, s)
  <2>1. ASSUME NEW data \in Seq(Byte), NEW pos \in Nat, Has(data, pos, piece)
        PROVE  Read("Address", data, pos) = Got(s, pos + Len(piece))
    <3>1. readString(MaxAddress, data, pos) = Got(s, pos + Len(piece))
      BY <1>2, <1>3, <2>1, readStringReads
    <3> HIDE DEF piece
    <3> QED  BY <3>1 DEF Read
  <2> HIDE DEF piece
  <2> QED  BY <1>1, <2>1 DEF Gives
<1>4. ASSUME Len(s) <= MaxName
      PROVE  Gives("Name", piece, s)
  <2>1. ASSUME NEW data \in Seq(Byte), NEW pos \in Nat, Has(data, pos, piece)
        PROVE  Read("Name", data, pos) = Got(s, pos + Len(piece))
    <3>1. readString(MaxName, data, pos) = Got(s, pos + Len(piece))
      BY <1>2, <1>4, <2>1, readStringReads
    <3> HIDE DEF piece
    <3> QED  BY <3>1 DEF Read
  <2> HIDE DEF piece
  <2> QED  BY <1>1, <2>1 DEF Gives
<1> QED  BY <1>3, <1>4

\* Whatever lies around them, bytes are read as these values, type by type.
Spells(types, bytes, values) ==
    /\ bytes \in Seq(Byte)
    /\ Len(types) = Len(values)
    /\ \A data \in Seq(Byte), pos \in Nat :
           Has(data, pos, bytes) =>
               \E offs \in [0..Len(values) -> Nat] :
                   /\ offs[0] = pos /\ offs[Len(values)] = pos + Len(bytes)
                   /\ \A i \in 1..Len(values) :
                          Read(types[i], data, offs[i - 1]) = Got(values[i], offs[i])

(* No bytes spell no values.                                               *)
LEMMA SpellsNothing == Spells(<<>>, <<>>, <<>>)
<1> DEFINE values == <<>>
           bytes == <<>>
           types == <<>>
<1>1. bytes \in Seq(Byte) /\ Len(bytes) = 0 /\ Len(values) = 0 /\ Len(types) = 0
  OBVIOUS
<1> HIDE DEF bytes, values, types
<1>2. ASSUME NEW data \in Seq(Byte), NEW pos \in Nat, Has(data, pos, bytes)
      PROVE  \E offs \in [0..Len(values) -> Nat] :
                   /\ offs[0] = pos /\ offs[Len(values)] = pos + Len(bytes)
                   /\ \A i \in 1..Len(values) :
                          Read(types[i], data, offs[i - 1]) = Got(values[i], offs[i])
  <2> DEFINE offs == [i \in 0..0 |-> pos]
  <2>1. offs \in [0..Len(values) -> Nat] /\ offs[0] = pos
    BY <1>1
  <2> HIDE DEF offs
  <2> QED  BY <1>1, <2>1
<1>3. Spells(types, bytes, values)
  BY <1>1, <1>2 DEF Spells
<1> QED  BY <1>3 DEF bytes, values, types

(* Two bytes behind others are behind them one by one.                     *)
LEMMA TwoBytes ==
    ASSUME NEW s \in Seq(Byte), NEW a \in Byte, NEW b \in Byte
    PROVE  (s \o <<a>>) \o <<b>> = s \o <<a, b>>
<1> DEFINE x == <<a>>
           y == <<b>>
           xy == <<a, b>>
           sx == s \o x
           l == sx \o y
           r == s \o xy
           n == Len(s)
<1>1. /\ x \in Seq(Byte) /\ y \in Seq(Byte) /\ xy \in Seq(Byte)
      /\ Len(x) = 1 /\ Len(y) = 1 /\ Len(xy) = 2
      /\ x[1] = a /\ y[1] = b /\ xy[1] = a /\ xy[2] = b /\ n \in Nat
  OBVIOUS
<1> HIDE DEF x, y, xy
<1> DEFINE Joined(u, v, w) ==
               /\ w \in Seq(Byte) /\ Len(w) = Len(u) + Len(v)
               /\ \A i \in 1..Len(u) : w[i] = u[i]
               /\ \A i \in 1..Len(v) : w[Len(u) + i] = v[i]
<1>2. \A u, v \in Seq(Byte) : Joined(u, v, u \o v)
  BY ConcatProperties
<1>3. Joined(s, x, sx) /\ sx \in Seq(Byte)
  BY <1>1, <1>2
<1> HIDE DEF sx
<1>4. Joined(sx, y, l) /\ Joined(s, xy, r)
  <2> HIDE DEF Joined
  <2> QED  BY <1>1, <1>2, <1>3
<1> HIDE DEF l, r, n
<1>5. /\ Len(sx) = n + 1 /\ \A i \in 1..n : sx[i] = s[i] /\ r[i] = s[i]
      /\ Len(l) = n + 2 /\ \A i \in 1..(n + 1) : l[i] = sx[i]
      /\ Len(r) = n + 2 /\ l \in Seq(Byte) /\ r \in Seq(Byte)
  BY <1>1, <1>3, <1>4 DEF n
<1>6. sx[n + 1] = a /\ l[(n + 1) + 1] = b /\ r[n + 1] = a /\ r[n + 2] = b
  <2>1. 1 \in 1..Len(x) /\ 1 \in 1..Len(y) /\ 1 \in 1..Len(xy) /\ 2 \in 1..Len(xy)
    BY <1>1
  <2> QED  BY <1>1, <1>3, <1>4, <1>5, <2>1 DEF n
<1>7. ASSUME NEW i \in 1..(n + 2)
      PROVE  l[i] = r[i]
  <2>1. CASE i \in 1..n
    BY <1>1, <1>5, <2>1
  <2>2. CASE i = n + 1
    BY <1>1, <1>5, <1>6, <2>2
  <2>3. CASE i = n + 2
    BY <1>1, <1>6, <2>3
  <2> QED  BY <1>1, <2>1, <2>2, <2>3
<1>8. l = r
  BY <1>5, <1>7, SeqEqual
<1> QED  BY <1>8 DEF l, r, sx, x, y, xy
\* A sequence with one element more.
Extends(u, s, e) ==
    /\ Len(u) = Len(s) + 1 /\ u[Len(s) + 1] = e
    /\ \A i \in 1..Len(s) : u[i] = s[i]

(* A piece more spells a value more.                                       *)
LEMMA SpellsMore ==
    ASSUME NEW types, NEW bytes, NEW values, Spells(types, bytes, values),
           NEW type, NEW piece, NEW value, Gives(type, piece, value),
           NEW ts, NEW vs, Extends(ts, types, type), Extends(vs, values, value),
           Len(values) \in Nat
    PROVE  Spells(ts, bytes \o piece, vs)
<1> DEFINE all == bytes \o piece
           n == Len(values)
<1>1. /\ bytes \in Seq(Byte) /\ piece \in Seq(Byte) /\ Len(types) = n /\ n \in Nat
      /\ Len(bytes) \in Nat /\ Len(piece) \in Nat
  BY LenProperties DEF Spells, Gives
<1>2. all \in Seq(Byte) /\ Len(all) = Len(bytes) + Len(piece)
  BY <1>1, ConcatProperties
<1>3. /\ Len(vs) = n + 1 /\ vs[n + 1] = value /\ \A i \in 1..n : vs[i] = values[i]
      /\ Len(ts) = n + 1 /\ ts[n + 1] = type /\ \A i \in 1..n : ts[i] = types[i]
  BY <1>1 DEF Extends
<1>4. ASSUME NEW data \in Seq(Byte), NEW pos \in Nat, Has(data, pos, all)
      PROVE  \E offs \in [0..Len(vs) -> Nat] :
                   /\ offs[0] = pos /\ offs[Len(vs)] = pos + Len(all)
                   /\ \A i \in 1..Len(vs) :
                          Read(ts[i], data, offs[i - 1]) = Got(vs[i], offs[i])
  <2>1. Has(data, pos, bytes) /\ Has(data, pos + Len(bytes), piece)
    BY <1>1, <1>4, HasBoth
  <2>2. PICK o \in [0..n -> Nat] :
            /\ o[0] = pos /\ o[n] = pos + Len(bytes)
            /\ \A i \in 1..n : Read(types[i], data, o[i - 1]) = Got(values[i], o[i])
    BY <2>1 DEF Spells
  <2> DEFINE end == pos + Len(all)
             offs == [i \in 0..(n + 1) |-> IF i = n + 1 THEN end ELSE o[i]]
  <2>3. end \in Nat /\ end = (pos + Len(bytes)) + Len(piece)
    BY <1>1, <1>2
  <2> HIDE DEF n, end, all
  <2>4. /\ offs \in [0..(n + 1) -> Nat] /\ offs[n + 1] = end
        /\ \A i \in 0..n : offs[i] = o[i]
    BY <1>1, <2>2, <2>3
  <2> HIDE DEF offs
  <2>5. 0 \in 0..n /\ n \in 0..n
    BY <1>1
  <2>6. Read(ts[n + 1], data, offs[n]) = Got(vs[n + 1], offs[n + 1])
    <3>1. pos + Len(bytes) \in Nat
      BY <1>1
    <3>2. Read(type, data, pos + Len(bytes)) = Got(value, (pos + Len(bytes)) + Len(piece))
      BY <2>1, <3>1 DEF Gives
    <3> QED  BY <1>3, <2>2, <2>3, <2>4, <2>5, <3>2
  <2>7. ASSUME NEW i \in 1..(n + 1)
        PROVE  Read(ts[i], data, offs[i - 1]) = Got(vs[i], offs[i])
    <3>1. CASE i = n + 1
      <4>1. i - 1 = n
        BY <1>1, <3>1
      <4> QED  BY <2>6, <3>1, <4>1
    <3>2. CASE i # n + 1
      <4>1. i \in 1..n /\ i \in 0..n /\ i - 1 \in 0..n
        BY <1>1, <3>2
      <4> QED  BY <1>3, <2>2, <2>4, <4>1
    <3> QED  BY <3>1, <3>2
  <2> QED  BY <1>3, <2>2, <2>4, <2>5, <2>7 DEF end
<1> HIDE DEF all
<1>5. Spells(ts, all, vs)
  BY <1>2, <1>3, <1>4 DEF Spells
<1> QED  BY <1>5 DEF all

(* What bytes spell is read from them in turn.                             *)
LEMMA SpellsIsRead ==
    ASSUME NEW S, NEW values \in Seq(S), NEW types, NEW bytes, Spells(types, bytes, values)
    PROVE  InTurn(Read, types, bytes, 0) = Got(values, Len(bytes))
<1>1. bytes \in Seq(Byte) /\ Len(bytes) \in Nat /\ Len(types) = Len(values)
  BY LenProperties DEF Spells
<1>2. Has(bytes, 0, bytes)
  BY <1>1, HasAll
<1>3. PICK offs \in [0..Len(values) -> Nat] :
          /\ offs[0] = 0 /\ offs[Len(values)] = 0 + Len(bytes)
          /\ \A i \in 1..Len(values) :
                 Read(types[i], bytes, offs[i - 1]) = Got(values[i], offs[i])
  BY <1>1, <1>2 DEF Spells
<1>4. InTurn(Read, types, bytes, offs[0]) = Got(values, offs[Len(values)])
  BY <1>1, <1>3, InTurnReads
<1> HIDE DEF InTurn
<1> QED  BY <1>1, <1>3, <1>4

(* A pack is three strings.                                                *)
PackAt(data, at) == InTurn(readString, <<MaxPack, MaxPack, MaxPack>>, data, at)

(* The three strings of a pack are read in turn.                           *)
LEMMA PackIsRead ==
    ASSUME NEW data, NEW s \in Seq(Byte), NEW t \in Seq(Byte),
           NEW p0, NEW p1, NEW p2, NEW p3,
           readString(MaxPack, data, p0) = Got(s, p1),
           readString(MaxPack, data, p1) = Got(t, p2),
           readString(MaxPack, data, p2) = Got(s, p3)
    PROVE  PackAt(data, p0) = Got(<<s, t, s>>, p3)
<1> DEFINE values == <<s, t, s>>
           types == <<MaxPack, MaxPack, MaxPack>>
           offs == [i \in 0..3 |-> IF i = 0 THEN p0 ELSE IF i = 1 THEN p1
                                   ELSE IF i = 2 THEN p2 ELSE p3]
<1>1. /\ values \in Seq(Seq(Byte)) /\ Len(values) = 3 /\ Len(types) = 3
      /\ values[1] = s /\ values[2] = t /\ values[3] = s
      /\ types[1] = MaxPack /\ types[2] = MaxPack /\ types[3] = MaxPack
  OBVIOUS
<1>2. offs[0] = p0 /\ offs[1] = p1 /\ offs[2] = p2 /\ offs[3] = p3
  OBVIOUS
<1> HIDE DEF values, types, offs
<1>3. ASSUME NEW i \in 1..Len(values)
      PROVE  readString(types[i], data, offs[i - 1]) = Got(values[i], offs[i])
  <2>1. CASE i = 1
    <3>1. i - 1 = 0
      BY <2>1
    <3> QED  BY <1>1, <1>2, <2>1, <3>1
  <2>2. CASE i = 2
    <3>1. i - 1 = 1
      BY <2>2
    <3> QED  BY <1>1, <1>2, <2>2, <3>1
  <2>3. CASE i = 3
    <3>1. i - 1 = 2
      BY <2>3
    <3> QED  BY <1>1, <1>2, <2>3, <3>1
  <2> QED  BY <1>1, <2>1, <2>2, <2>3
<1>4. InTurn(readString, types, data, offs[0]) = Got(values, offs[Len(values)])
  BY <1>1, <1>3, InTurnReadsStrings
<1>5. InTurn(readString, types, data, p0) = Got(values, p3)
  BY <1>1, <1>2, <1>4
<1>6. PackAt(data, p0) = InTurn(readString, types, data, p0)
  BY DEF PackAt, types
<1> QED  BY <1>5, <1>6 DEF values

(* A list of one pack.                                                     *)
LEMMA readPacksReads ==
    ASSUME NEW data, NEW pos, NEW p0, NEW p3, NEW pack,
           readVarInt(data, pos) = Got(1, p0),
           PackAt(data, p0) = Got(pack, p3)
    PROVE  readPacks(data, pos) = Got(<<pack>>, p3)
<1> DEFINE size == readVarInt(data, pos)
           types == [i \in 1..size.value |-> "Pack"]
           N == Len(types)
           Step(before) ==
               LET r == PackAt(data, before.pos)
               IN  IF ~Ok(before) THEN before
                   ELSE IF ~Ok(r) THEN r
                   ELSE Got(Append(before.value, r.value), r.pos)
           upTo[i \in 0..N] == IF i = 0 THEN Got(<<>>, size.pos) ELSE Step(upTo[i - 1])
           IsUpTo(g) ==
               g = [i \in 0..N |-> IF i = 0 THEN Got(<<>>, size.pos) ELSE Step(g[i - 1])]
           f == [i \in 0..1 |-> IF i = 0 THEN Got(<<>>, p0) ELSE Got(<<pack>>, p3)]
<1>1. size.thrown = "none" /\ size.value = 1 /\ size.pos = p0
  BY DEF Got
<1>2. readPacks(data, pos) = IF Ok(size) THEN upTo[N] ELSE size
  BY DEF readPacks, InTurn, Step, PackAt
<1> HIDE DEF size
<1>3. N = 1
  BY <1>1
<1>4. f[0] = Got(<<>>, p0) /\ f[1] = Got(<<pack>>, p3)
  OBVIOUS
<1>5. Step(f[0]) = f[1]
  <2> DEFINE b == f[0]
             r == PackAt(data, b.pos)
  <2>1. b.thrown = "none" /\ b.pos = p0 /\ b.value = <<>>
    BY <1>4 DEF Got
  <2>2. r = Got(pack, p3)
    <3> HIDE DEF b
    <3> QED  BY <2>1
  <2>3. Step(b) = IF ~Ok(b) THEN b ELSE IF ~Ok(r) THEN r
                  ELSE Got(Append(b.value, r.value), r.pos)
    OBVIOUS
  <2> HIDE DEF r, Step, f
  <2>4. r.thrown = "none" /\ r.value = pack /\ r.pos = p3
    BY <2>2 DEF Got
  <2>5. Append(<<>>, pack) = <<pack>>
    OBVIOUS
  <2>6. Step(b) = Got(<<pack>>, p3)
    <3> HIDE DEF b
    <3> QED  BY <2>1, <2>3, <2>4, <2>5 DEF Ok
  <2> QED  BY <1>4, <2>6
<1> HIDE DEF N, Step
<1>6. IsUpTo(f)
  <2>1. f = [i \in 0..1 |-> f[i]]
    OBVIOUS
  <2>2. ASSUME NEW i \in 0..1
        PROVE  f[i] = IF i = 0 THEN Got(<<>>, size.pos) ELSE Step(f[i - 1])
    <3>1. CASE i = 0
      <4> HIDE DEF f
      <4> QED  BY <1>1, <1>4, <3>1
    <3>2. CASE i # 0
      <4>1. i = 1 /\ i - 1 = 0
        BY <3>2
      <4> HIDE DEF f
      <4> QED  BY <1>4, <1>5, <4>1
    <3> QED  BY <3>1, <3>2
  <2> HIDE DEF f
  <2> QED  BY <1>3, <2>1, <2>2
<1>7. IsUpTo(upTo)
  <2> HIDE DEF f
  <2> QED  BY <1>6
<1> HIDE DEF f
<1>8. upTo[0] = Got(<<>>, p0) /\ upTo[1] = Step(upTo[0])
  <2> HIDE DEF upTo
  <2>1. 0 \in 0..N /\ 1 \in 0..N /\ 1 # 0 /\ 1 - 1 = 0
    BY <1>3
  <2> QED  BY <1>1, <1>7, <2>1
<1> HIDE DEF upTo
<1>9. Ok(size)
  BY <1>1 DEF Ok
<1> QED  BY <1>2, <1>3, <1>4, <1>5, <1>8, <1>9

(* The list of one pack gives the three strings of it.                     *)
LEMMA GivesPacks ==
    ASSUME NEW s \in Seq(Byte), NEW t \in Seq(Byte), 1 \in Readable,
           Len(s) \in Readable, Len(s) <= MaxPack, Len(t) \in Readable, Len(t) <= MaxPack
    PROVE  Gives("Packs",
                 ClientVarInt(1) \o ClientString(s) \o ClientString(t) \o ClientString(s),
                 <<<<s, t, s>>>>)
<1> DEFINE a == ClientVarInt(1)
           b == ClientString(s)
           c == ClientString(t)
           ab == a \o b
           abc == ab \o c
           piece == abc \o b
<1>1. a \in Seq(Byte) /\ b \in Seq(Byte) /\ c \in Seq(Byte) /\ MaxPack \in Nat
  BY ClientVarIntProperties, ClientStringType, ValuesAssumption
<1>2. ab \in Seq(Byte) /\ abc \in Seq(Byte) /\ piece \in Seq(Byte)
  <2>1. ab \in Seq(Byte)
    <3> HIDE DEF a, b
    <3> QED  BY <1>1, BytesAppended
  <2>2. abc \in Seq(Byte)
    <3> HIDE DEF ab, c
    <3> QED  BY <1>1, <2>1, BytesAppended
  <2>3. piece \in Seq(Byte)
    <3> HIDE DEF abc, b
    <3> QED  BY <1>1, <2>2, BytesAppended
  <2> QED  BY <2>1, <2>2, <2>3
<1>3. ASSUME NEW data \in Seq(Byte), NEW pos \in Nat, Has(data, pos, piece)
      PROVE  Read("Packs", data, pos) = Got(<<<<s, t, s>>>>, pos + Len(piece))
  <2> DEFINE p0 == pos + Len(a)
             p1 == pos + Len(ab)
             p2 == pos + Len(abc)
             p3 == pos + Len(piece)
  <2>1. /\ Has(data, pos, abc) /\ Has(data, p2, b) /\ p2 \in Nat
        /\ p3 = p2 + Len(b)
    <3> HIDE DEF abc, b
    <3>1. /\ Has(data, pos, abc) /\ Has(data, pos + Len(abc), b)
          /\ pos + Len(abc) \in Nat /\ Len(abc \o b) = Len(abc) + Len(b)
      BY <1>1, <1>2, <1>3, HasBoth
    <3> QED  BY <1>1, <1>2, <3>1, LenProperties
  <2>2. /\ Has(data, pos, ab) /\ Has(data, p1, c) /\ p1 \in Nat
        /\ p2 = p1 + Len(c)
    <3> HIDE DEF ab, c
    <3>1. /\ Has(data, pos, ab) /\ Has(data, pos + Len(ab), c)
          /\ pos + Len(ab) \in Nat /\ Len(ab \o c) = Len(ab) + Len(c)
      BY <1>1, <1>2, <2>1, HasBoth
    <3> QED  BY <1>1, <1>2, <3>1, LenProperties
  <2>3. /\ Has(data, pos, a) /\ Has(data, p0, b) /\ p0 \in Nat
        /\ p1 = p0 + Len(b)
    <3> HIDE DEF a, b
    <3>1. /\ Has(data, pos, a) /\ Has(data, pos + Len(a), b)
          /\ pos + Len(a) \in Nat /\ Len(a \o b) = Len(a) + Len(b)
      BY <1>1, <1>2, <2>2, HasBoth
    <3> QED  BY <1>1, <1>2, <3>1, LenProperties
  <2> HIDE DEF p0, p1, p2, p3
  <2>4. readVarInt(data, pos) = Got(1, p0)
    BY <2>3, readVarIntReads DEF p0
  <2>5. /\ readString(MaxPack, data, p0) = Got(s, p1)
        /\ readString(MaxPack, data, p1) = Got(t, p2)
        /\ readString(MaxPack, data, p2) = Got(s, p3)
    BY <1>1, <2>1, <2>2, <2>3, readStringReads
  <2>6. PackAt(data, p0) = Got(<<s, t, s>>, p3)
    BY <2>5, PackIsRead
  <2>7. readPacks(data, pos) = Got(<<<<s, t, s>>>>, p3)
    <3> DEFINE pack == <<s, t, s>>
    <3> HIDE DEF pack
    <3>1. PackAt(data, p0) = Got(pack, p3)
      BY <2>6 DEF pack
    <3>2. readPacks(data, pos) = Got(<<pack>>, p3)
      BY <2>4, <3>1, readPacksReads
    <3> QED  BY <3>2 DEF pack
  <2> HIDE DEF piece
  <2> QED  BY <2>7 DEF Read, p3
<1> HIDE DEF piece
<1>4. Gives("Packs", piece, <<<<s, t, s>>>>)
  BY <1>2, <1>3 DEF Gives
<1> QED  BY <1>4 DEF piece, abc, ab, a, b, c

(* Two bytes more spell themselves.                                        *)
LEMMA SpellsTwoBytes ==
    ASSUME NEW types, NEW bytes, NEW values, Spells(types, bytes, values),
           NEW a \in Byte, NEW b \in Byte,
           NEW t1, NEW t2, NEW v1, NEW v2,
           Extends(t1, types, "Byte"), Extends(t2, t1, "Byte"),
           Extends(v1, values, a), Extends(v2, v1, b), Len(values) \in Nat
    PROVE  Spells(t2, bytes \o <<a, b>>, v2)
<1> DEFINE pa == <<a>>
           pb == <<b>>
           first == bytes \o pa
<1>1. Gives("Byte", pa, a) /\ Gives("Byte", pb, b)
  BY GivesByte
<1>2. first \o pb = bytes \o <<a, b>>
  <2>1. bytes \in Seq(Byte)
    BY DEF Spells
  <2> QED  BY <2>1, TwoBytes
<1> HIDE DEF pa, pb
<1>3. Spells(t1, first, v1)
  BY <1>1, SpellsMore
<1> HIDE DEF first
<1>4. Len(v1) \in Nat
  BY DEF Extends
<1>5. Spells(t2, first \o pb, v2)
  BY <1>1, <1>3, <1>4, SpellsMore
<1> QED  BY <1>2, <1>5

(* A handler reads what a packet's data spells,                            *)
LEMMA SpelledIsRead ==
    ASSUME NEW types, NEW bytes, NEW values, Spells(types, bytes, values),
           NEW S, values \in Seq(S)
    PROVE  \E end : ReadAll(types, bytes) = Got(values, end)
<1>1. InTurn(Read, types, bytes, 0) = Got(values, Len(bytes))
  BY SpellsIsRead
<1> QED  BY <1>1 DEF ReadAll

(* and nothing if it has nothing to read.                                  *)
LEMMA NothingIsRead ==
    ASSUME NEW bytes
    PROVE  ReadAll(<<>>, bytes) = Got(<<>>, 0)
<1> DEFINE values == <<>>
           offs == [i \in {0} |-> 0]
           types == <<>>
<1>1. values \in Seq({0}) /\ Len(values) = 0 /\ Len(types) = 0 /\ offs[0] = 0
  OBVIOUS
<1> HIDE DEF values, offs, types
<1>2. \A i \in 1..Len(values) : Read(types[i], bytes, offs[i - 1]) = Got(values[i], offs[i])
  BY <1>1
<1>3. InTurn(Read, types, bytes, offs[0]) = Got(values, offs[Len(values)])
  BY <1>1, <1>2, InTurnReads
<1>4. InTurn(Read, types, bytes, 0) = Got(values, 0)
  BY <1>1, <1>3
<1> QED  BY <1>4 DEF ReadAll, types, values

(* What a client writes, field by field.                                   *)
LEMMA FirstSpells ==
    ASSUME NEW type, NEW piece, NEW value, Gives(type, piece, value)
    PROVE  Spells(<<type>>, piece, <<value>>)
<1> DEFINE none == <<>>
           ts == <<type>>
           vs == <<value>>
<1>1. Extends(ts, none, type) /\ Extends(vs, none, value) /\ Len(none) \in Nat
  BY DEF Extends
<1>2. Spells(none, none, none)
  BY SpellsNothing
<1>3. none \o piece = piece
  BY DEF Gives
<1> HIDE DEF none, ts, vs
<1>4. Spells(ts, none \o piece, vs)
  BY <1>1, <1>2, SpellsMore
<1> QED  BY <1>3, <1>4 DEF ts, vs

(* The body of a handshake spells its fields,                              *)
LEMMA HandshakeSpells ==
    ASSUME NEW v \in Readable, NEW a \in Seq(Byte), NEW n \in Readable,
           Len(a) \in Readable, Len(a) <= MaxAddress
    PROVE  Spells(<<"VarInt", "Address", "UShort", "VarInt">>,
                  ClientVarInt(v) \o ClientString(a) \o Port \o ClientVarInt(n),
                  <<v, a, "dropped", n>>)
<1> DEFINE b1 == ClientVarInt(v)
           b2 == b1 \o ClientString(a)
           b3 == b2 \o Port
           t1 == <<"VarInt">>
           t2 == <<"VarInt", "Address">>
           t3 == <<"VarInt", "Address", "UShort">>
           t4 == <<"VarInt", "Address", "UShort", "VarInt">>
           v1 == <<v>>
           v2 == <<v, a>>
           v3 == <<v, a, "dropped">>
           v4 == <<v, a, "dropped", n>>
<1>1. /\ Gives("VarInt", b1, v) /\ Gives("Address", ClientString(a), a)
      /\ Gives("UShort", Port, "dropped") /\ Gives("VarInt", ClientVarInt(n), n)
  BY GivesVarInt, GivesString, GivesPort
<1>2. Extends(t2, t1, "Address") /\ Extends(t3, t2, "UShort") /\ Extends(t4, t3, "VarInt")
  BY DEF Extends
<1>3. /\ Extends(v2, v1, a) /\ Extends(v3, v2, "dropped") /\ Extends(v4, v3, n)
      /\ Len(v1) \in Nat /\ Len(v2) \in Nat /\ Len(v3) \in Nat
  BY DEF Extends
<1>4. Spells(t1, b1, v1)
  BY <1>1, FirstSpells
<1> HIDE DEF b1, b2, b3, t1, t2, t3, t4, v1, v2, v3, v4
<1>5. Spells(t2, b2, v2)
  BY <1>1, <1>2, <1>3, <1>4, SpellsMore DEF b2
<1>6. Spells(t3, b3, v3)
  BY <1>1, <1>2, <1>3, <1>5, SpellsMore DEF b3
<1>7. Spells(t4, b3 \o ClientVarInt(n), v4)
  BY <1>1, <1>2, <1>3, <1>6, SpellsMore
<1> QED  BY <1>7 DEF b3, b2, b1, t4, v4

(* and so does that of the client's information.                           *)
LEMMA InformationSpells ==
    ASSUME NEW s \in Seq(Byte), NEW v \in Readable, 0 \in Readable,
           Len(s) \in Readable, Len(s) <= MaxName
    PROVE  Spells(<<"Name", "Byte", "VarInt", "Byte", "Byte", "VarInt", "Byte", "Byte">>,
                  ClientString(s) \o <<2>> \o ClientVarInt(v) \o <<1, 3>>
                  \o ClientVarInt(0) \o <<1, 0>>,
                  <<s, 2, v, 1, 3, 0, 1, 0>>)
<1> DEFINE b1 == ClientString(s)
           b2 == b1 \o <<2>>
           b3 == b2 \o ClientVarInt(v)
           b5 == b3 \o <<1, 3>>
           b6 == b5 \o ClientVarInt(0)
           t1 == <<"Name">>
           t2 == <<"Name", "Byte">>
           t3 == <<"Name", "Byte", "VarInt">>
           t4 == <<"Name", "Byte", "VarInt", "Byte">>
           t5 == <<"Name", "Byte", "VarInt", "Byte", "Byte">>
           t6 == <<"Name", "Byte", "VarInt", "Byte", "Byte", "VarInt">>
           t7 == <<"Name", "Byte", "VarInt", "Byte", "Byte", "VarInt", "Byte">>
           t8 == <<"Name", "Byte", "VarInt", "Byte", "Byte", "VarInt", "Byte", "Byte">>
           v1 == <<s>>
           v2 == <<s, 2>>
           v3 == <<s, 2, v>>
           v4 == <<s, 2, v, 1>>
           v5 == <<s, 2, v, 1, 3>>
           v6 == <<s, 2, v, 1, 3, 0>>
           v7 == <<s, 2, v, 1, 3, 0, 1>>
           v8 == <<s, 2, v, 1, 3, 0, 1, 0>>
<1>1. /\ Gives("VarInt", ClientVarInt(v), v) /\ Gives("Name", b1, s)
      /\ Gives("VarInt", ClientVarInt(0), 0) /\ Gives("Byte", <<2>>, 2)
      /\ 0 \in Byte /\ 1 \in Byte /\ 3 \in Byte
  BY GivesVarInt, GivesString, GivesByte, SmallBytes
<1>2. /\ Extends(t2, t1, "Byte") /\ Extends(t3, t2, "VarInt") /\ Extends(t4, t3, "Byte")
      /\ Extends(t5, t4, "Byte") /\ Extends(t6, t5, "VarInt") /\ Extends(t7, t6, "Byte")
      /\ Extends(t8, t7, "Byte")
  BY DEF Extends
<1>3. /\ Extends(v2, v1, 2) /\ Extends(v3, v2, v) /\ Extends(v4, v3, 1)
      /\ Extends(v5, v4, 3) /\ Extends(v6, v5, 0) /\ Extends(v7, v6, 1)
      /\ Extends(v8, v7, 0)
  BY DEF Extends
<1>4. /\ Len(v1) \in Nat /\ Len(v2) \in Nat /\ Len(v3) \in Nat
      /\ Len(v5) \in Nat /\ Len(v6) \in Nat
  OBVIOUS
<1>5. Spells(t1, b1, v1)
  BY <1>1, FirstSpells
<1> HIDE DEF b1, b2, b3, b5, b6, t1, t2, t3, t4, t5, t6, t7, t8,
             v1, v2, v3, v4, v5, v6, v7, v8
<1>6. Spells(t2, b2, v2)
  BY <1>1, <1>2, <1>3, <1>4, <1>5, SpellsMore DEF b2
<1>7. Spells(t3, b3, v3)
  BY <1>1, <1>2, <1>3, <1>4, <1>6, SpellsMore DEF b3
<1>8. Spells(t5, b5, v5)
  BY <1>1, <1>2, <1>3, <1>4, <1>7, SpellsTwoBytes DEF b5
<1>9. Spells(t6, b6, v6)
  BY <1>1, <1>2, <1>3, <1>4, <1>8, SpellsMore DEF b6
<1>10. Spells(t8, b6 \o <<1, 0>>, v8)
  BY <1>1, <1>2, <1>3, <1>4, <1>9, SpellsTwoBytes
<1> QED  BY <1>10 DEF b6, b5, b3, b2, b1, t8, v8

-----------------------------------------------------------------------------
(* A message is read by the handler that it is for.                        *)

(* The ids of the messages are readable.                                   *)
LEMMA SmallReadable ==
    ASSUME IsReadable
    PROVE  0..8 \subseteq Readable
<1> DEFINE top == 2^(Group * MaxVarInt) - 1
<1>1. Readable = 0..top
  BY DEF Readable
<1>2. 8 \in Readable
  BY DEF IsReadable
<1>3. top \in Int
  <2>1. Group * MaxVarInt \in 0..(Group * Width)
    <3>1. MaxVarInt \in 0..Width
      BY MaxVarIntProperties, WidthsAssumption
    <3> QED  BY <3>1, Places
  <2> QED  BY <2>1, Powers
<1> HIDE DEF top
<1> QED  BY <1>1, <1>2, <1>3

(* The routes lead from each pair of state and id to one handler.          *)
LEMMA RouteCases ==
    ASSUME NEW r \in Routes
    PROVE  \/ r.in = "Handshake" /\ r.id = 0 /\ r.handler = "handshake"
           \/ r.in = "Status" /\ r.id = 0 /\ r.handler = "status"
           \/ r.in = "Status" /\ r.id = 1 /\ r.handler = "ping"
           \/ r.in = "Login" /\ r.id = 0 /\ r.handler = "loginStart"
           \/ r.in = "Login" /\ r.id = 3 /\ r.handler = "loginAcknowledged"
           \/ r.in = "Login" /\ r.id \in {2, 4} /\ r.handler = "ignored"
           \/ r.in = "Configuration" /\ r.id = 0 /\ r.handler = "clientInformation"
           \/ r.in = "Configuration" /\ r.id = 3 /\ r.handler = "acknowledgeFinish"
           \/ r.in = "Configuration" /\ r.id = 7 /\ r.handler = "knownPacks"
           \/ r.in = "Configuration" /\ r.id \in {1, 2, 4, 5, 6, 8} /\ r.handler = "ignored"
           \/ r.in = "Play" /\ r.id = 0 /\ r.handler = "confirmTeleportation"
BY DEF Routes, Route

(* A state and an id have one handler.                                     *)
LEMMA RouteIsUnique ==
    ASSUME NEW r \in Routes, NEW s \in Routes, r.in = s.in, r.id = s.id
    PROVE  r.handler = s.handler
BY RouteCases

(* The router takes it, in Login if the size is one that is accepted.      *)
LEMMA RouteIsTaken ==
    ASSUME NEW r \in Routes, NEW p, p.id = r.id, state = r.in,
           state = "Login" => ~(p.size > MaxPacketSize) /\ ~(p.size < 0)
    PROVE  packetRouter(p) = r.handler
<1> DEFINE s == CHOOSE t \in Routes : t.in = state /\ t.id = p.id
<1>1. \E t \in Routes : t.in = state /\ t.id = p.id
  OBVIOUS
<1>2. s \in Routes /\ s.in = state /\ s.id = p.id
  BY <1>1
<1>3. s.handler = r.handler
  <2> HIDE DEF s
  <2> QED  BY <1>2, RouteIsUnique
<1>4. packetRouter(p) = s.handler
  BY <1>1 DEF packetRouter
<1> QED  BY <1>3, <1>4

\* The handler of this id, in this state, reads these fields from this body,
\* and leads to this state.
Works(from, id, handler, fields, body, to) ==
    /\ Route(from, id, handler) \in Routes
    /\ body \in Seq(Byte)
    /\ \E end : ReadAll(Reads(handler), body) = Got(fields, end)
    /\ state = from => NextState(handler, fields) = to
    /\ to \in States /\ (handler = "handshake" => to # "None")

IsMessage(m, from, id, handler, fields, body, to) ==
    /\ m = Message(from, id, handler, fields, body, to)
    /\ Works(from, id, handler, fields, body, to)

(* Handshakes are read by the handler they are for.                        *)
LEMMA HandshakesWork ==
    ASSUME IsReadable, NEW m \in Handshakes
    PROVE  \E from, id, handler, fields, body, to :
               IsMessage(m, from, id, handler, fields, body, to)
<1>1. PICK v \in VarInts, a \in Strings, n \in {1, 2} :
          m = Message("Handshake", 0, "handshake", <<v, a, "dropped", n>>,
                      ClientVarInt(v) \o ClientString(a) \o Port \o ClientVarInt(n),
                      IF n = 1 THEN "Status" ELSE "Login")
  <2>1. m \in Handshakes
    OBVIOUS
  <2> QED  BY <2>1 DEF Handshakes
<1> DEFINE from == "Handshake"
           handler == "handshake"
           fields == <<v, a, "dropped", n>>
           body == ClientVarInt(v) \o ClientString(a) \o Port \o ClientVarInt(n)
           to == IF n = 1 THEN "Status" ELSE "Login"
           types == <<"VarInt", "Address", "UShort", "VarInt">>
<1>2. v \in Readable /\ a \in Seq(Byte) /\ n \in Readable
      /\ Len(a) \in Readable /\ Len(a) <= MaxAddress
  BY SmallReadable, ValuesAssumption DEF IsReadable
<1>3. Reads(handler) = types
  BY DEF Reads
<1>4. Spells(types, body, fields)
  BY <1>2, HandshakeSpells
<1>5. fields \in Seq({v, a, "dropped", n}) /\ fields[4] = n
  OBVIOUS
<1>6. Route(from, 0, handler) \in Routes
  BY DEF Routes
<1>7. NextState(handler, fields) = to
  <2> HIDE DEF fields
  <2> QED  BY <1>5 DEF NextState
<1>8. to \in States /\ to # "None"
  BY DEF States
<1> HIDE DEF types, fields, body, to, from, handler
<1>9. body \in Seq(Byte) /\ \E end : ReadAll(types, body) = Got(fields, end)
  <2>1. \E end : ReadAll(types, body) = Got(fields, end)
    BY <1>4, <1>5, SpelledIsRead
  <2> QED  BY <1>4, <2>1 DEF Spells
<1>10. IsMessage(m, from, 0, handler, fields, body, to)
  BY <1>1, <1>3, <1>6, <1>7, <1>8, <1>9
     DEF IsMessage, Works, from, handler, fields, body, to
<1> QED  BY <1>10

(* Messages without fields that are read, and with one.                    *)
LEMMA PlainWorks ==
    ASSUME NEW from, NEW id, NEW handler, NEW body \in Seq(Byte), NEW to \in States,
           Route(from, id, handler) \in Routes, Reads(handler) = <<>>,
           state = from => NextState(handler, <<>>) = to, handler # "handshake"
    PROVE  \E i, h, f, b : IsMessage(Message(from, id, handler, <<>>, body, to),
                                     from, i, h, f, b, to)
<1>1. \E end : ReadAll(Reads(handler), body) = Got(<<>>, end)
  BY NothingIsRead
<1>2. Works(from, id, handler, <<>>, body, to)
  BY <1>1 DEF Works
<1> QED  BY <1>2 DEF IsMessage

(* So is a message of one field that is readable,                          *)
LEMMA FieldWorks ==
    ASSUME NEW from, NEW id, NEW handler, NEW body, NEW to \in States, NEW type, NEW value,
           Gives(type, body, value),
           Route(from, id, handler) \in Routes, Reads(handler) = <<type>>,
           state = from => NextState(handler, <<value>>) = to, handler # "handshake"
    PROVE  \E i, h, f, b : IsMessage(Message(from, id, handler, <<value>>, body, to),
                                     from, i, h, f, b, to)
<1> DEFINE fields == <<value>>
           types == <<type>>
<1>1. Spells(types, body, fields)
  BY FirstSpells
<1>2. fields \in Seq({value})
  OBVIOUS
<1> HIDE DEF fields, types
<1>3. \E end : ReadAll(types, body) = Got(fields, end)
  BY <1>1, <1>2, SpelledIsRead
<1>4. \E end : ReadAll(Reads(handler), body) = Got(fields, end)
  BY <1>3 DEF types
<1>5. Works(from, id, handler, fields, body, to)
  BY <1>1, <1>4 DEF Works, Spells, fields
<1> QED  BY <1>5 DEF IsMessage, fields

(* those that ask for the status or a pong,                                *)
LEMMA StatusMessagesWork ==
    ASSUME IsReadable, NEW m \in StatusMessages
    PROVE  \E from, id, handler, fields, body, to :
               IsMessage(m, from, id, handler, fields, body, to)
<1>1. CASE m = Message("Status", 0, "status", <<>>, <<>>, "Status")
  <2>1. /\ Route("Status", 0, "status") \in Routes /\ Reads("status") = <<>>
        /\ state = "Status" => NextState("status", <<>>) = "Status"
        /\ "Status" \in States /\ <<>> \in Seq(Byte) /\ "status" # "handshake"
    BY DEF Routes, Reads, NextState, States
  <2> QED  BY <1>1, <2>1, PlainWorks
<1>2. CASE \E v \in Longs : m = Message("Status", 1, "ping", <<v>>, ClientLong(v), "None")
  <2>1. PICK v \in Longs : m = Message("Status", 1, "ping", <<v>>, ClientLong(v), "None")
    BY <1>2
  <2>2. Gives("Long", ClientLong(v), v)
    BY GivesLong DEF IsReadable
  <2>3. /\ Route("Status", 1, "ping") \in Routes /\ Reads("ping") = <<"Long">>
        /\ state = "Status" => NextState("ping", <<v>>) = "None"
        /\ "None" \in States /\ "ping" # "handshake"
    BY DEF Routes, Reads, NextState, States
  <2> QED  BY <2>1, <2>2, <2>3, FieldWorks
<1>3. m \in StatusMessages
  OBVIOUS
<1> QED  BY <1>1, <1>2, <1>3 DEF StatusMessages

(* those of Login,                                                         *)
LEMMA LoginMessagesWork ==
    ASSUME IsReadable, NEW m \in LoginMessages
    PROVE  \E from, id, handler, fields, body, to :
               IsMessage(m, from, id, handler, fields, body, to)
<1>1. CASE \E s \in Strings :
               m = Message("Login", 0, "loginStart", <<s>>, ClientString(s), "Login")
  <2>1. PICK s \in Strings :
            m = Message("Login", 0, "loginStart", <<s>>, ClientString(s), "Login")
    BY <1>1
  <2>2. Gives("Name", ClientString(s), s)
    BY GivesString, ValuesAssumption DEF IsReadable
  <2>3. /\ Route("Login", 0, "loginStart") \in Routes /\ Reads("loginStart") = <<"Name">>
        /\ state = "Login" => NextState("loginStart", <<s>>) = "Login"
        /\ "Login" \in States /\ "loginStart" # "handshake"
    BY DEF Routes, Reads, NextState, States
  <2> QED  BY <2>1, <2>2, <2>3, FieldWorks
<1>2. CASE \E f \in Fillers : m = Message("Login", 2, "ignored", <<>>, f, "Login")
  <2>1. PICK f \in Fillers : m = Message("Login", 2, "ignored", <<>>, f, "Login")
    BY <1>2
  <2>2. /\ Route("Login", 2, "ignored") \in Routes /\ Reads("ignored") = <<>>
        /\ state = "Login" => NextState("ignored", <<>>) = "Login"
        /\ "Login" \in States /\ "ignored" # "handshake"
    BY DEF Routes, Reads, NextState, States
  <2>3. f \in Seq(Byte)
    BY ValuesAssumption
  <2> QED  BY <2>1, <2>2, <2>3, PlainWorks
<1>3. CASE m = Message("Login", 3, "loginAcknowledged", <<>>, <<>>, "Configuration")
  <2>1. /\ Route("Login", 3, "loginAcknowledged") \in Routes
        /\ Reads("loginAcknowledged") = <<>>
        /\ state = "Login" => NextState("loginAcknowledged", <<>>) = "Configuration"
        /\ "Configuration" \in States /\ <<>> \in Seq(Byte)
        /\ "loginAcknowledged" # "handshake"
    BY DEF Routes, Reads, NextState, States
  <2> QED  BY <1>3, <2>1, PlainWorks
<1>4. m \in LoginMessages
  OBVIOUS
<1> QED  BY <1>1, <1>2, <1>3, <1>4 DEF LoginMessages

(* of Configuration the client's information                               *)
LEMMA InformationWorks ==
    ASSUME IsReadable, NEW s \in Strings, NEW v \in VarInts
    PROVE  \E from, id, handler, fields, body, to :
               IsMessage(InformationMessage(s, v), from, id, handler, fields, body, to)
<1> DEFINE from == "Configuration"
           handler == "clientInformation"
           fields == <<s, 2, v, 1, 3, 0, 1, 0>>
           body == ClientString(s) \o <<2>> \o ClientVarInt(v) \o <<1, 3>>
                   \o ClientVarInt(0) \o <<1, 0>>
           types == <<"Name", "Byte", "VarInt", "Byte", "Byte", "VarInt", "Byte", "Byte">>
<1>1. v \in Readable /\ s \in Seq(Byte) /\ 0 \in Readable
      /\ Len(s) \in Readable /\ Len(s) <= MaxName
  BY SmallReadable, ValuesAssumption DEF IsReadable
<1>2. Reads(handler) = types
  BY DEF Reads
<1>3. Spells(types, body, fields)
  BY <1>1, InformationSpells
<1>4. fields \in Seq({s, v, 0, 1, 2, 3})
  OBVIOUS
<1>5. /\ Route(from, 0, handler) \in Routes /\ from \in States /\ handler # "handshake"
      /\ state = from => NextState(handler, fields) = from
  BY DEF Routes, NextState, States
<1>6. InformationMessage(s, v) = Message(from, 0, handler, fields, body, from)
  BY DEF InformationMessage
<1> HIDE DEF types, fields, body, from, handler
<1>7. \E end : ReadAll(types, body) = Got(fields, end)
  BY <1>3, <1>4, SpelledIsRead
<1>8. Works(from, 0, handler, fields, body, from)
  BY <1>2, <1>3, <1>5, <1>7 DEF Works, Spells
<1> QED  BY <1>6, <1>8 DEF IsMessage

(* and the packs it knows,                                                 *)
LEMMA PacksWork ==
    ASSUME IsReadable, NEW s \in Strings, NEW t \in Strings
    PROVE  \E from, id, handler, fields, body, to :
               IsMessage(PacksMessage(s, t), from, id, handler, fields, body, to)
<1> DEFINE body == ClientVarInt(1) \o ClientString(s) \o ClientString(t) \o ClientString(s)
           value == <<<<s, t, s>>>>
<1>1. Gives("Packs", body, value)
  <2>1. 1 \in Readable /\ s \in Seq(Byte) /\ t \in Seq(Byte)
    BY SmallReadable, ValuesAssumption
  <2> QED  BY <2>1, GivesPacks DEF IsReadable
<1>2. PacksMessage(s, t) = Message("Configuration", 7, "knownPacks", <<value>>, body,
                                   "Configuration")
  BY DEF PacksMessage
<1> HIDE DEF body, value
<1>3. /\ Route("Configuration", 7, "knownPacks") \in Routes
      /\ Reads("knownPacks") = <<"Packs">>
      /\ state = "Configuration" => NextState("knownPacks", <<value>>) = "Configuration"
      /\ "Configuration" \in States /\ "knownPacks" # "handshake"
  BY DEF Routes, Reads, NextState, States
<1> QED  BY <1>1, <1>2, <1>3, FieldWorks

(* with them all of Configuration,                                         *)
LEMMA ConfigurationMessagesWork ==
    ASSUME IsReadable, NEW m \in ConfigurationMessages
    PROVE  \E from, id, handler, fields, body, to :
               IsMessage(m, from, id, handler, fields, body, to)
<1>1. CASE \E s \in Strings, v \in VarInts : m = InformationMessage(s, v)
  BY <1>1, InformationWorks
<1>2. CASE \E s \in Strings, t \in Strings : m = PacksMessage(s, t)
  BY <1>2, PacksWork
<1>3. CASE \E f \in Fillers :
               m = Message("Configuration", 8, "ignored", <<>>, f, "Configuration")
  <2>1. PICK f \in Fillers :
            m = Message("Configuration", 8, "ignored", <<>>, f, "Configuration")
    BY <1>3
  <2>2. /\ Route("Configuration", 8, "ignored") \in Routes /\ Reads("ignored") = <<>>
        /\ state = "Configuration" => NextState("ignored", <<>>) = "Configuration"
        /\ "Configuration" \in States /\ "ignored" # "handshake"
    BY DEF Routes, Reads, NextState, States
  <2>3. f \in Seq(Byte)
    BY ValuesAssumption
  <2> QED  BY <2>1, <2>2, <2>3, PlainWorks
<1>4. CASE m = Message("Configuration", 3, "acknowledgeFinish", <<>>, <<>>, "Play")
  <2>1. /\ Route("Configuration", 3, "acknowledgeFinish") \in Routes
        /\ Reads("acknowledgeFinish") = <<>>
        /\ state = "Configuration" => NextState("acknowledgeFinish", <<>>) = "Play"
        /\ "Play" \in States /\ <<>> \in Seq(Byte) /\ "acknowledgeFinish" # "handshake"
    BY DEF Routes, Reads, NextState, States
  <2> QED  BY <1>4, <2>1, PlainWorks
<1>5. m \in ConfigurationMessages
  OBVIOUS
<1> QED  BY <1>1, <1>2, <1>3, <1>4, <1>5 DEF ConfigurationMessages

(* those of Play,                                                          *)
LEMMA PlayMessagesWork ==
    ASSUME IsReadable, NEW m \in PlayMessages
    PROVE  \E from, id, handler, fields, body, to :
               IsMessage(m, from, id, handler, fields, body, to)
<1>1. PICK v \in VarInts :
          m = Message("Play", 0, "confirmTeleportation", <<v>>, ClientVarInt(v), "Play")
  <2>1. m \in PlayMessages
    OBVIOUS
  <2> QED  BY <2>1 DEF PlayMessages
<1>2. Gives("VarInt", ClientVarInt(v), v)
  BY GivesVarInt DEF IsReadable
<1>3. /\ Route("Play", 0, "confirmTeleportation") \in Routes
      /\ Reads("confirmTeleportation") = <<"VarInt">>
      /\ state = "Play" => NextState("confirmTeleportation", <<v>>) = "Play"
      /\ "Play" \in States /\ "confirmTeleportation" # "handshake"
  BY DEF Routes, Reads, NextState, States
<1> QED  BY <1>1, <1>2, <1>3, FieldWorks

(* and so every message of the client.                                     *)
LEMMA MessagesWork ==
    ASSUME IsReadable, NEW m \in ClientMessages
    PROVE  \E from, id, handler, fields, body, to :
               IsMessage(m, from, id, handler, fields, body, to)
BY HandshakesWork, StatusMessagesWork, LoginMessagesWork, ConfigurationMessagesWork,
   PlayMessagesWork DEF ClientMessages

-----------------------------------------------------------------------------
(* Where a message lies in the stream, and what its packet is.             *)

(* Of the bytes of a VarInt all but the last one say that more follow.     *)
LEMMA VarIntBytes ==
    ASSUME stream \in Seq(Byte), NEW a \in 0..Len(stream), NEW q \in 0..Len(stream),
           NEW v, VarIntLies(a, q, v)
    PROVE  a < q /\ \A k \in (a + 1)..q : More(stream[k]) <=> k < q
<1> DEFINE piece == SubSeq(stream, a + 1, q)
<1>1. a < q /\ IsVarInt(piece, v) /\ q \in a..Len(stream)
  BY LenProperties DEF VarIntLies
<1>2. /\ piece \in Seq(Byte) /\ Len(piece) = q - a
      /\ \A i \in 1..(q - a) : piece[i] = stream[a + i]
  BY <1>1, Piece
<1> HIDE DEF piece
<1>3. \A i \in 1..(q - a) : More(piece[i]) <=> i < q - a
  BY <1>1, <1>2 DEF IsVarInt
<1>4. ASSUME NEW k \in (a + 1)..q
      PROVE  More(stream[k]) <=> k < q
  <2> DEFINE i == k - a
  <2>1. i \in 1..(q - a) /\ a + i = k /\ (i < q - a <=> k < q)
    BY <1>1
  <2> HIDE DEF i
  <2> QED  BY <1>2, <1>3, <2>1
<1> QED  BY <1>1, <1>4

(* So two VarInts that begin at the same place are one.                    *)
LEMMA VarIntIsUnique ==
    ASSUME stream \in Seq(Byte), NEW a \in 0..Len(stream),
           NEW q \in 0..Len(stream), NEW v, VarIntLies(a, q, v),
           NEW r \in 0..Len(stream), NEW w, VarIntLies(a, r, w)
    PROVE  q = r /\ v = w
<1>1. /\ a < q /\ \A k \in (a + 1)..q : More(stream[k]) <=> k < q
      /\ a < r /\ \A k \in (a + 1)..r : More(stream[k]) <=> k < r
  BY VarIntBytes
<1>2. q \in Int /\ r \in Int /\ a \in Int
  BY LenProperties
<1>3. ~(q < r)
  <2> SUFFICES ASSUME q < r PROVE FALSE
    OBVIOUS
  <2>1. q \in (a + 1)..r /\ q \in (a + 1)..q
    BY <1>1, <1>2
  <2> QED  BY <1>1, <1>2, <2>1
<1>4. ~(r < q)
  <2> SUFFICES ASSUME r < q PROVE FALSE
    OBVIOUS
  <2>1. r \in (a + 1)..r /\ r \in (a + 1)..q
    BY <1>1, <1>2
  <2> QED  BY <1>1, <1>2, <2>1
<1>5. q = r
  BY <1>2, <1>3, <1>4
<1> QED  BY <1>5 DEF VarIntLies, IsVarInt

\* The handler of a message reads it from a packet with this id and body.
Handles(m, id, body) ==
    /\ id \in Readable /\ Route(m.from, id, m.handler) \in Routes
    /\ \E end : ReadAll(Reads(m.handler), body) = Got(m.fields, end)
    /\ state = m.from => NextState(m.handler, m.fields) = m.to
    /\ m.from \in States \ {"None"}
    /\ m.handler \notin {"tooLarge", "unknown"}
    /\ m.handler = "handshake" => m.to # "None"

(* A message is its id and a body, which its handler reads.                *)
LEMMA MessageIsHandled ==
    ASSUME IsReadable, NEW m \in ClientMessages
    PROVE  \E id, body : /\ body \in Seq(Byte) /\ m.bytes = ClientVarInt(id) \o body
                         /\ Handles(m, id, body)
<1>1. PICK from, id, handler, fields, body, to :
          /\ m = Message(from, id, handler, fields, body, to)
          /\ Works(from, id, handler, fields, body, to)
  BY MessagesWork DEF IsMessage
<1>2. /\ m.from = from /\ m.handler = handler /\ m.fields = fields /\ m.to = to
      /\ m.bytes = ClientVarInt(id) \o body
  BY <1>1 DEF Message
<1>3. LET r == Route(from, id, handler)
      IN  r \in Routes /\ r.in = from /\ r.id = id /\ r.handler = handler
  BY <1>1 DEF Works, Route
<1>4. /\ from \in States \ {"None"} /\ id \in 0..8
      /\ handler \notin {"tooLarge", "unknown"}
  BY <1>3, RouteCases DEF States
<1>5. id \in Readable
  BY <1>4, SmallReadable
<1> QED  BY <1>1, <1>2, <1>4, <1>5 DEF Works, Handles

\* A message lies between two places of the stream, behind its size.
FrameLies(m, a, b) ==
    \E q \in 0..Len(stream) :
        /\ VarIntLies(a, q, Len(m.bytes)) /\ Group * (q - a - 1) < Width
        /\ q <= b /\ Len(m.bytes) = b - q
        /\ SubSeq(stream, q + 1, b) = m.bytes

\* Its size ends at q, its id at r.
FrameParts(m, a, b, q, r, id) ==
    /\ a < q /\ q < r /\ r <= b /\ Len(m.bytes) = b - q
    /\ VarIntLies(a, q, Len(m.bytes)) /\ Group * (q - a - 1) < Width
    /\ VarIntLies(q, r, id) /\ Group * (r - q - 1) < Width
    /\ Handles(m, id, SubSeq(stream, r + 1, b))

(* What lies there are a size, an id and the body that the handler reads.  *)
LEMMA FrameHasParts ==
    ASSUME IsReadable, stream \in Seq(Byte), NEW m \in ClientMessages,
           NEW a \in 0..Len(stream), NEW b \in 0..Len(stream), FrameLies(m, a, b)
    PROVE  \E q, r \in 0..Len(stream), id \in Readable : FrameParts(m, a, b, q, r, id)
<1>1. PICK q \in 0..Len(stream) :
        /\ VarIntLies(a, q, Len(m.bytes)) /\ Group * (q - a - 1) < Width
        /\ q <= b /\ Len(m.bytes) = b - q
        /\ SubSeq(stream, q + 1, b) = m.bytes
  BY DEF FrameLies
<1>2. PICK id, body : /\ body \in Seq(Byte) /\ m.bytes = ClientVarInt(id) \o body
                      /\ Handles(m, id, body)
  BY MessageIsHandled
<1> DEFINE head == ClientVarInt(id)
           r == q + Len(head)
<1>3. /\ id \in Readable /\ head \in Seq(Byte) /\ Len(head) \in 1..MaxVarInt
      /\ IsVarInt(head, id)
  BY <1>2, ClientVarIntProperties DEF Handles
<1>4. Len(stream) \in Nat /\ a \in Nat /\ q \in Nat /\ b \in Nat /\ Len(body) \in Nat
      /\ Len(head) \in Nat /\ MaxVarInt \in Nat
  BY <1>2, <1>3, LenProperties, MaxVarIntProperties
<1>5. Has(stream, q, m.bytes)
  <2>1. q + Len(m.bytes) = b
    BY <1>1, <1>4
  <2> QED  BY <1>1, <2>1 DEF Has
<1>6. /\ Has(stream, q, head) /\ Has(stream, r, body) /\ r \in Nat
      /\ Len(m.bytes) = Len(head) + Len(body)
  <2> HIDE DEF head
  <2> QED  BY <1>2, <1>3, <1>4, <1>5, HasBoth DEF head
<1> HIDE DEF head
<1>7. /\ q < r /\ r <= b /\ r \in 0..Len(stream) /\ r + Len(body) = b
      /\ r - q - 1 = Len(head) - 1
  <2> DEFINE h == Len(head)
             n == Len(body)
             l == Len(m.bytes)
  <2>1. /\ h \in Nat /\ n \in Nat /\ h >= 1 /\ l = h + n /\ l = b - q
        /\ b <= Len(stream)
    <3>1. h >= 1
      BY <1>3, <1>4
    <3>2. l = h + n
      BY <1>6
    <3>3. l = b - q
      BY <1>1
    <3>4. b <= Len(stream)
      OBVIOUS
    <3> QED  BY <1>4, <3>1, <3>2, <3>3, <3>4
  <2> HIDE DEF h, n, l
  <2>2. q + h \in Nat /\ q < q + h /\ (q + h) + n = b /\ (q + h) - q - 1 = h - 1
    BY <1>4, <2>1
  <2>3. q + h <= b /\ q + h \in 0..Len(stream)
    BY <1>4, <2>1, <2>2
  <2> QED  BY <2>2, <2>3 DEF h, n
<1>8. SubSeq(stream, q + 1, r) = head /\ SubSeq(stream, r + 1, b) = body
  BY <1>6, <1>7 DEF Has
<1> HIDE DEF r
<1>9. VarIntLies(q, r, id)
  BY <1>3, <1>7, <1>8 DEF VarIntLies
<1>10. Group * (r - q - 1) < Width
  <2> DEFINE k == r - q - 1
  <2>1. k \in Int /\ k <= MaxVarInt
    BY <1>3, <1>4, <1>7
  <2> HIDE DEF k
  <2>2. Group * k <= Group * MaxVarInt
    BY <1>4, <2>1, WidthsAssumption
  <2>3. Group * k < Width
    BY <1>4, <2>1, <2>2, MaxVarIntProperties, WidthsAssumption
  <2> QED  BY <2>3 DEF k
<1>11. a < q
  BY <1>1 DEF VarIntLies
<1>12. FrameParts(m, a, b, q, r, id)
  BY <1>1, <1>2, <1>7, <1>8, <1>9, <1>10, <1>11 DEF FrameParts
<1> QED  BY <1>3, <1>7, <1>12

-----------------------------------------------------------------------------
(* The invariant: what the client has written, with what messages.         *)

\* Where a message begins.
SentStart(i) == IF i = 1 THEN 0 ELSE sent[i - 1].at

\* The state that is right for the next message.
StateAfter(ms, k) == IF k < Len(ms) THEN ms[k + 1].from ELSE clientState

SentRecords == [at : Nat, handler : {m.handler : m \in ClientMessages},
                fields : {m.fields : m \in ClientMessages}]

IsSent(ms, i) ==
    /\ sent[i].handler = ms[i].handler /\ sent[i].fields = ms[i].fields
    /\ sent[i].at \in 0..Clean
    /\ FrameLies(ms[i], SentStart(i), sent[i].at)
    /\ ms[i].to = StateAfter(ms, i)

ClientInv(ms) ==
    /\ sent \in Seq(SentRecords) /\ Len(ms) = Len(sent)
    /\ Clean \in 0..Len(stream)
    /\ \A i \in 1..Len(sent) : IsSent(ms, i)

(* So it is for each message that has been written.                        *)
LEMMA SentParts ==
    ASSUME IsReadable, TypeInv, NEW ms \in Seq(ClientMessages), ClientInv(ms),
           NEW i \in 1..Len(sent)
    PROVE  /\ SentStart(i) \in 0..Len(stream) /\ sent[i].at \in 0..Len(stream)
           /\ ms[i] \in ClientMessages
           /\ \E q, r \in 0..Len(stream), id \in Readable :
                  FrameParts(ms[i], SentStart(i), sent[i].at, q, r, id)
<1>1. stream \in Seq(Byte) /\ Len(stream) \in Nat /\ Len(sent) \in Nat
      /\ Clean \in 0..Len(stream) /\ Len(ms) = Len(sent)
  BY LenProperties DEF TypeInv, ClientInv
<1>2. IsSent(ms, i)
  BY DEF ClientInv
<1>3. sent[i].at \in 0..Len(stream)
  BY <1>1, <1>2 DEF IsSent
<1>4. SentStart(i) \in 0..Len(stream)
  <2>1. CASE i = 1
    BY <1>1, <2>1 DEF SentStart
  <2>2. CASE i # 1
    <3>1. i - 1 \in 1..Len(sent)
      BY <1>1, <2>2
    <3>2. sent[i - 1].at \in 0..Clean
      BY <3>1 DEF ClientInv, IsSent
    <3> QED  BY <1>1, <2>2, <3>2 DEF SentStart
  <2> QED  BY <2>1, <2>2
<1>5. ms[i] \in ClientMessages
  BY <1>1, ElementOfSeq
<1>6. FrameLies(ms[i], SentStart(i), sent[i].at)
  BY <1>2 DEF IsSent
<1> QED  BY <1>1, <1>3, <1>4, <1>5, <1>6, FrameHasParts

\* The packet is that of the message.
IsMessagesPacket(ms, i) ==
    /\ packets[i].at = sent[i].at /\ packets[i].size = Len(ms[i].bytes)
    /\ Handles(ms[i], packets[i].id, packets[i].data)

(* A packet that begins where a message does is that of the message.       *)
LEMMA PacketFits ==
    ASSUME IsReadable, IInv, NEW ms \in Seq(ClientMessages), ClientInv(ms),
           NEW i \in 1..Len(packets), i \in 1..Len(sent), StartOf(i) = SentStart(i)
    PROVE  IsMessagesPacket(ms, i)
<1> DEFINE m == ms[i]
           a == SentStart(i)
           b == sent[i].at
           p == packets[i]
<1>1. TypeInv /\ stream \in Seq(Byte) /\ Len(stream) \in Nat /\ consumed \in 0..Len(stream)
  BY LenProperties DEF IInv, TypeInv
<1>2. /\ a \in 0..Len(stream) /\ b \in 0..Len(stream) /\ m \in ClientMessages
      /\ \E q, r \in 0..Len(stream), id \in Readable : FrameParts(m, a, b, q, r, id)
  BY <1>1, SentParts
<1> HIDE DEF m, a, b
<1>3. PICK q \in 0..Len(stream), r \in 0..Len(stream), id \in Readable :
          FrameParts(m, a, b, q, r, id)
  BY <1>2
<1>4. /\ a < q /\ q < r /\ r <= b /\ Len(m.bytes) = b - q
      /\ VarIntLies(a, q, Len(m.bytes)) /\ VarIntLies(q, r, id)
      /\ Handles(m, id, SubSeq(stream, r + 1, b))
  BY <1>3 DEF FrameParts
<1>5. StartOf(i) = a /\ p.at \in 0..consumed /\ SizeLies(i) /\ (p.size >= 0 => IsCovered(i))
  BY DEF IInv, PacketsInv, a
<1>6. p.size = Len(m.bytes)
  <2>1. PICK s \in 0..consumed : VarIntLies(a, s, p.size)
    BY <1>5 DEF SizeLies
  <2>2. s \in 0..Len(stream)
    BY <1>1
  <2> QED  BY <1>1, <1>2, <1>4, <2>1, <2>2, VarIntIsUnique
<1>7. p.size >= 0
  BY <1>3, <1>4, <1>6
<1>8. PICK s \in 0..consumed, t \in 0..consumed :
          /\ VarIntLies(a, s, p.size) /\ VarIntLies(s, t, p.id)
          /\ t <= p.at /\ p.size = p.at - s /\ p.data = SubSeq(stream, t + 1, p.at)
  BY <1>5, <1>7 DEF IsCovered
<1>9. s \in 0..Len(stream) /\ t \in 0..Len(stream)
  BY <1>1
<1>10. s = q
  BY <1>1, <1>2, <1>4, <1>8, <1>9, VarIntIsUnique
<1>11. t = r /\ p.id = id
  BY <1>1, <1>4, <1>8, <1>9, <1>10, VarIntIsUnique
<1>12. p.at = b
  <2>1. p.at \in Int /\ b \in Int /\ q \in Int
    BY <1>1, <1>2, <1>5
  <2>2. p.at - q = b - q
    BY <1>4, <1>6, <1>8, <1>10
  <2> QED  BY <2>1, <2>2
<1> QED  BY <1>4, <1>6, <1>8, <1>11, <1>12 DEF IsMessagesPacket, m, b

(* The packets are those of the messages, one after the other.             *)
LEMMA PacketsAreMessages ==
    ASSUME IsReadable, IInv, NEW ms \in Seq(ClientMessages), ClientInv(ms)
    PROVE  /\ \A i \in 1..Len(packets) : i <= Len(sent) => IsMessagesPacket(ms, i)
           /\ \A i \in 1..(Len(packets) + 1) :
                  i <= Len(sent) + 1 => StartOf(i) = SentStart(i)
<1> DEFINE N == Len(packets)
           M == Len(sent)
           S == {n \in 0..N : n > 0 /\ n <= M => IsMessagesPacket(ms, n)}
<1>1. N \in Nat /\ M \in Nat
  BY LenProperties DEF IInv, TypeInv, ClientInv
<1>2. \A n \in 0..N : n \in S /\ n <= M => StartOf(n + 1) = SentStart(n + 1)
  <2> SUFFICES ASSUME NEW n \in 0..N, n \in S, n <= M
               PROVE  StartOf(n + 1) = SentStart(n + 1)
    OBVIOUS
  <2>1. CASE n = 0
    BY <2>1 DEF StartOf, SentStart
  <2>2. CASE n # 0
    <3>1. n + 1 # 1 /\ (n + 1) - 1 = n /\ n > 0
      BY <1>1, <2>2
    <3>2. packets[n].at = sent[n].at
      BY <3>1 DEF IsMessagesPacket
    <3> QED  BY <3>1, <3>2 DEF StartOf, SentStart
  <2> QED  BY <2>1, <2>2
<1>3. 0..N \subseteq S
  <2>1. 0 \in S
    BY <1>1
  <2>2. ASSUME NEW n \in 0..(N - 1), n \in S PROVE n + 1 \in S
    <3>1. n + 1 \in 0..N /\ n + 1 \in 1..N /\ n \in 0..N
      BY <1>1
    <3>2. ASSUME n + 1 <= M PROVE IsMessagesPacket(ms, n + 1)
      <4>1. n + 1 \in 1..M /\ n <= M
        BY <1>1, <3>1, <3>2
      <4>2. StartOf(n + 1) = SentStart(n + 1)
        BY <1>2, <2>2, <3>1, <4>1
      <4> DEFINE k == n + 1
      <4> HIDE DEF k
      <4>3. k \in 1..Len(packets) /\ k \in 1..Len(sent) /\ StartOf(k) = SentStart(k)
        BY <3>1, <4>1, <4>2 DEF k
      <4>4. IsMessagesPacket(ms, k)
        BY <4>3, PacketFits
      <4> QED  BY <4>4 DEF k
    <3> QED  BY <3>1, <3>2
  <2> HIDE DEF S, N
  <2> QED  BY <1>1, <2>1, <2>2, Induction
<1>4. ASSUME NEW i \in 1..N, i <= M PROVE IsMessagesPacket(ms, i)
  <2>1. i \in S /\ i > 0
    BY <1>1, <1>3
  <2> QED  BY <1>4, <2>1
<1>5. ASSUME NEW i \in 1..(N + 1), i <= M + 1 PROVE StartOf(i) = SentStart(i)
  <2> DEFINE n == i - 1
  <2>1. n \in 0..N /\ n <= M /\ n + 1 = i
    BY <1>1, <1>5
  <2> HIDE DEF n, S
  <2>2. StartOf(n + 1) = SentStart(n + 1)
    BY <1>2, <1>3, <2>1
  <2> QED  BY <2>1, <2>2
<1> QED  BY <1>4, <1>5

(* What is read besides lies behind the messages.                          *)
LEMMA PacketsBehind ==
    ASSUME IsReadable, IInv, NEW ms \in Seq(ClientMessages), ClientInv(ms),
           NEW i \in 1..Len(packets), i > Len(sent)
    PROVE  packets[i].at > Clean /\ IsGarbled
<1> DEFINE N == Len(packets)
           M == Len(sent)
           S == {n \in 0..N : n > M => packets[n].at > Clean}
<1>1. /\ N \in Nat /\ M \in Nat /\ Clean \in 0..Len(stream) /\ Len(stream) \in Nat
      /\ consumed \in 0..Len(stream)
  BY LenProperties DEF IInv, TypeInv, ClientInv
<1>2. \A n \in 1..N : /\ StartOf(n) < packets[n].at /\ packets[n].at \in 0..consumed
                      /\ StartOf(n) \in 0..consumed
  BY DEF IInv, PacketsInv
<1>3. M + 1 \in 1..(N + 1) => StartOf(M + 1) = Clean
  <2> SUFFICES ASSUME M + 1 \in 1..(N + 1) PROVE StartOf(M + 1) = Clean
    OBVIOUS
  <2>1. StartOf(M + 1) = SentStart(M + 1)
    BY <1>1, PacketsAreMessages
  <2>2. SentStart(M + 1) = Clean
    <3>1. CASE M = 0
      <4>1. sent = <<>>
        <5>1. sent \in Seq(SentRecords)
          BY DEF ClientInv
        <5> QED  BY <3>1, <5>1, EmptySeq
      <4> QED  BY <3>1, <4>1 DEF SentStart, Clean
    <3>2. CASE M # 0
      <4>1. sent # <<>> /\ M + 1 # 1 /\ (M + 1) - 1 = M
        BY <1>1, <3>2
      <4> QED  BY <4>1 DEF SentStart, Clean
    <3> QED  BY <3>1, <3>2
  <2> QED  BY <2>1, <2>2
<1>4. 0..N \subseteq S
  <2>1. 0 \in S
    BY <1>1
  <2>2. ASSUME NEW n \in 0..(N - 1), n \in S PROVE n + 1 \in S
    <3>1. n + 1 \in 0..N /\ n + 1 \in 1..N /\ n \in 0..N /\ n + 1 \in 1..(N + 1)
      BY <1>1
    <3>2. /\ StartOf(n + 1) < packets[n + 1].at /\ packets[n + 1].at \in 0..consumed
          /\ StartOf(n + 1) \in 0..consumed
      BY <1>2, <3>1
    <3>3. ASSUME n + 1 > M PROVE packets[n + 1].at > Clean
      <4>1. CASE n = M
        <5>1. StartOf(n + 1) = Clean
          BY <1>3, <3>1, <4>1
        <5> QED  BY <1>1, <3>2, <5>1
      <4>2. CASE n # M
        <5>1. n > M /\ n + 1 # 1 /\ (n + 1) - 1 = n
          BY <1>1, <3>1, <3>3, <4>2
        <5>2. packets[n].at > Clean
          BY <2>2, <5>1
        <5>3. StartOf(n + 1) = packets[n].at
          BY <5>1 DEF StartOf
        <5> HIDE DEF S, N, M
        <5> QED  BY <1>1, <3>2, <5>2, <5>3
      <4> QED  BY <4>1, <4>2
    <3> QED  BY <3>1, <3>3
  <2> HIDE DEF S, N
  <2> QED  BY <1>1, <2>1, <2>2, Induction
<1>5. packets[i].at > Clean
  <2>1. i \in S
    BY <1>1, <1>4
  <2> QED  BY <2>1
<1>6. packets[i].at \in 0..consumed
  BY <1>2
<1> HIDE DEF S, N, M
<1>7. Len(stream) > Clean
  BY <1>1, <1>5, <1>6
<1> QED  BY <1>5, <1>7 DEF IsGarbled

(* Within a VarInt a byte that is read goes on with it, or ends it.        *)
LEMMA VarIntGoesOn ==
    ASSUME TypeInv, NEW a \in 0..consumed, VarIntBegun(a), consumed < Len(stream),
           NEW q \in 0..Len(stream), NEW v, VarIntLies(a, q, v), Group * (q - a - 1) < Width
    PROVE  /\ More(stream[consumed + 1]) => Group * (reader.bytes + 1) < Width
           /\ ~More(stream[consumed + 1]) =>
                  consumed + 1 = q /\ q = a + reader.bytes + 1 /\ VarintValue = v
<1>1. /\ stream \in Seq(Byte) /\ Len(stream) \in Nat /\ consumed \in 0..Len(stream)
      /\ reader.bytes \in Nat /\ a \in 0..Len(stream)
  <2>1. stream \in Seq(Byte) /\ consumed \in 0..Len(stream) /\ reader.bytes \in 0..(Width - 1)
    BY DEF TypeInv
  <2> QED  BY <2>1, LenProperties
<1>2. a < q /\ \A k \in (a + 1)..q : More(stream[k]) <=> k < q
  BY <1>1, VarIntBytes
<1>3. a + reader.bytes = consumed /\ \A k \in (a + 1)..consumed : More(stream[k])
  BY DEF VarIntBegun
<1>4. consumed < q
  <2> SUFFICES ASSUME q <= consumed PROVE FALSE
    BY <1>1
  <2>1. q \in (a + 1)..consumed /\ q \in (a + 1)..q
    BY <1>1, <1>2
  <2> QED  BY <1>1, <1>2, <1>3, <2>1
<1>5. consumed + 1 \in (a + 1)..q
  BY <1>1, <1>3, <1>4
<1>6. More(stream[consumed + 1]) <=> consumed + 1 < q
  BY <1>2, <1>5
<1>7. ASSUME More(stream[consumed + 1])
      PROVE  Group * (reader.bytes + 1) < Width
  <2> DEFINE j == reader.bytes + 1
             k == q - a - 1
  <2>1. j \in Int /\ k \in Int /\ j <= k
    BY <1>1, <1>3, <1>6, <1>7
  <2>2. Group * k < Width
    OBVIOUS
  <2> HIDE DEF j, k
  <2>3. Group * j <= Group * k
    BY <2>1, WidthsAssumption
  <2>4. Group * j < Width
    BY <2>1, <2>2, <2>3, WidthsAssumption
  <2> QED  BY <2>4 DEF j
<1>8. ASSUME ~More(stream[consumed + 1])
      PROVE  consumed + 1 = q /\ q = a + reader.bytes + 1 /\ VarintValue = v
  <2>1. consumed + 1 = q
    BY <1>1, <1>4, <1>6, <1>8
  <2>2. VarIntLies(a, consumed + 1, VarintValue)
    BY <1>8, VarIntEnds
  <2>3. VarIntLies(a, q, VarintValue)
    BY <2>1, <2>2
  <2>4. VarintValue = v
    BY <1>1, <2>3, VarIntIsUnique
  <2> QED  BY <1>1, <1>3, <2>1, <2>4
<1> QED  BY <1>7, <1>8

(* Where only messages are, the receiver does not fail.                    *)
LEMMA MessagesAreRead ==
    ASSUME IsReadable, IInv, NEW ms \in Seq(ClientMessages), ClientInv(ms), ReadFails
    PROVE  hungUp \/ IsGarbled
<1> SUFFICES ASSUME ~hungUp, ~IsGarbled PROVE FALSE
  OBVIOUS
<1>1. /\ TypeInv /\ ReaderInv /\ stream \in Seq(Byte) /\ Len(stream) \in Nat
      /\ consumed \in 0..Len(stream) /\ Len(packets) \in Nat /\ Len(sent) \in Nat
      /\ Clean \in 0..Len(stream) /\ NextStart \in 0..consumed
  BY LenProperties DEF IInv, TypeInv, ReaderInv, ClientInv
<1>2. Len(stream) = Clean
  BY <1>1 DEF IsGarbled
<1>3. /\ reader.at \in {"size", "id"} /\ consumed < Len(stream)
      /\ IF More(stream[consumed + 1])
         THEN Group * (reader.bytes + 1) >= Width
         ELSE VarintValue = -1 \/ (reader.at = "id" /\ remaining < 0)
  BY DEF ReadFails, EndOfStream, ByteToRead
<1> DEFINE i == Len(packets) + 1
<1>4. i \in 1..Len(sent) /\ NextStart = SentStart(i)
  <2>1. Len(packets) <= Len(sent)
    <3> SUFFICES ASSUME Len(packets) > Len(sent) PROVE FALSE
      BY <1>1
    <3>1. Len(packets) \in 1..Len(packets)
      BY <1>1
    <3> QED  BY <3>1, PacketsBehind
  <2>2. NextStart = SentStart(i)
    BY <1>1, <2>1, PacketsAreMessages DEF NextStart
  <2>3. Len(packets) # Len(sent)
    <3> SUFFICES ASSUME Len(packets) = Len(sent) PROVE FALSE
      OBVIOUS
    <3>1. SentStart(i) = Clean
      <4>1. CASE Len(sent) = 0
        <5>1. sent = <<>>
          BY <4>1, EmptySeq DEF ClientInv
        <5> QED  BY <4>1, <5>1 DEF SentStart, Clean
      <4>2. CASE Len(sent) # 0
        <5>1. sent # <<>> /\ i # 1 /\ i - 1 = Len(sent)
          BY <1>1, <4>2
        <5> QED  BY <5>1 DEF SentStart, Clean
      <4> QED  BY <4>1, <4>2
    <3> QED  BY <1>1, <1>2, <1>3, <2>2, <3>1
  <2> QED  BY <1>1, <2>1, <2>2, <2>3
<1> DEFINE m == ms[i]
           a == SentStart(i)
           b == sent[i].at
<1>5. /\ a \in 0..Len(stream) /\ b \in 0..Len(stream) /\ m \in ClientMessages
      /\ \E q, r \in 0..Len(stream), id \in Readable : FrameParts(m, a, b, q, r, id)
  BY <1>1, <1>4, SentParts
<1> HIDE DEF m, a, b, i
<1>6. PICK q \in 0..Len(stream), r \in 0..Len(stream), id \in Readable :
          FrameParts(m, a, b, q, r, id)
  BY <1>5
<1>7. /\ a < q /\ q < r /\ r <= b /\ Len(m.bytes) = b - q
      /\ VarIntLies(a, q, Len(m.bytes)) /\ Group * (q - a - 1) < Width
      /\ VarIntLies(q, r, id) /\ Group * (r - q - 1) < Width
  BY <1>6 DEF FrameParts
<1>8. NextStart = a /\ a \in 0..consumed
  BY <1>1, <1>4 DEF a
<1>9. b \in Int /\ q \in Int /\ r \in Int /\ id \in Nat /\ Len(m.bytes) >= 0
  BY <1>5, <1>7, MaxVarIntProperties
<1>10. CASE reader.at = "size"
  <2>1. VarIntBegun(a)
    BY <1>1, <1>8, <1>10 DEF ReaderInv
  <2>2. /\ More(stream[consumed + 1]) => Group * (reader.bytes + 1) < Width
        /\ ~More(stream[consumed + 1]) => VarintValue = Len(m.bytes)
    BY <1>1, <1>3, <1>7, <1>8, <2>1, VarIntGoesOn
  <2>3. More(stream[consumed + 1])
    BY <1>3, <1>9, <1>10, <2>2
  <2>4. Group * (reader.bytes + 1) \in Int
    <3>1. reader.bytes \in 0..(Width - 1)
      BY <1>1 DEF TypeInv
    <3> QED  BY <3>1, WidthsAssumption
  <2> QED  BY <1>3, <2>2, <2>3, <2>4, WidthsAssumption
<1>11. CASE reader.at = "id"
  <2>1. PICK s \in 0..consumed : VarIntLies(a, s, reader.size) /\ VarIntBegun(s)
    BY <1>1, <1>8, <1>11 DEF ReaderInv
  <2>2. s = q /\ reader.size = Len(m.bytes)
    <3>1. s \in 0..Len(stream)
      BY <1>1
    <3> QED  BY <1>1, <1>5, <1>7, <2>1, <3>1, VarIntIsUnique
  <2>3. q \in 0..consumed /\ VarIntBegun(q)
    BY <2>1, <2>2
  <2>4. /\ More(stream[consumed + 1]) => Group * (reader.bytes + 1) < Width
        /\ ~More(stream[consumed + 1]) =>
               r = q + reader.bytes + 1 /\ VarintValue = id
    BY <1>1, <1>3, <1>7, <2>3, VarIntGoesOn
  <2>5. reader.bytes \in Int /\ Group * (reader.bytes + 1) \in Int
    <3>1. reader.bytes \in 0..(Width - 1)
      BY <1>1 DEF TypeInv
    <3> QED  BY <3>1, WidthsAssumption
  <2>6. ~More(stream[consumed + 1])
    BY <1>3, <2>4, <2>5, WidthsAssumption
  <2>7. remaining = reader.size - (reader.bytes + 1)
    BY <1>1, <1>9, <2>2, RemainingProperties
  <2>8. remaining = b - r
    <3> DEFINE k == reader.bytes
    <3>1. remaining = (b - q) - (k + 1) /\ r = q + k + 1 /\ k \in Int
      BY <1>7, <2>2, <2>4, <2>5, <2>6, <2>7
    <3> HIDE DEF k
    <3> QED  BY <1>9, <3>1
  <2> QED  BY <1>3, <1>7, <1>9, <2>4, <2>6, <2>8
<1> QED  BY <1>3, <1>10, <1>11

\* How many packets a worker has taken.
Handled == Len(packets) - Len(incoming)

\* The workers have read each message, in its state, while they had messages;
\* only a stream that is broken, or has come to its end, is closed.
WorkerInv(ms) ==
    /\ Handled \in Nat /\ \E S : received \in Seq(S)
    /\ \A k \in 1..Len(incoming) : incoming[k] = packets[Handled + k]
    /\ IF Handled <= Len(sent)
       THEN Len(received) = Handled /\ state = StateAfter(ms, Handled)
       ELSE Len(received) >= Len(sent)
    /\ \A j \in 1..Len(received) :
           IF j <= Len(sent) THEN received[j] = sent[j] ELSE received[j].at > Clean
    /\ ~connected => hungUp \/ IsGarbled \/ clientState = "None"

MessagesInv == \E ms \in Seq(ClientMessages) : ClientInv(ms) /\ WorkerInv(ms)

(* At the start there are no messages.                                     *)
LEMMA MessagesInit == Init => MessagesInv
<1> SUFFICES ASSUME Init PROVE MessagesInv
  OBVIOUS
<1> DEFINE ms == <<>>
<1>1. ms \in Seq(ClientMessages) /\ Len(ms) = 0 /\ <<>> \in Seq({})
  OBVIOUS
<1> HIDE DEF ms
<1>2. /\ sent = <<>> /\ stream = <<>> /\ packets = <<>> /\ incoming = <<>>
      /\ received = <<>> /\ connected /\ clientState = state
  BY DEF Init
<1>3. ClientInv(ms)
  BY <1>1, <1>2 DEF ClientInv, Clean
<1>4. WorkerInv(ms)
  <2>1. Handled = 0 /\ StateAfter(ms, 0) = clientState /\ Len(sent) = 0 /\ Len(received) = 0
        /\ received \in Seq({})
    BY <1>1, <1>2 DEF Handled, StateAfter
  <2> QED  BY <1>2, <2>1 DEF WorkerInv
<1> QED  BY <1>1, <1>3, <1>4 DEF MessagesInv

(* What the client writes is behind what it has written.                   *)
LEMMA Behind ==
    ASSUME NEW s \in Seq(Byte), NEW t \in Seq(Byte)
    PROVE  Has(s \o t, Len(s), t)
<1> DEFINE st == s \o t
           n == Len(s)
<1>1. /\ st \in Seq(Byte) /\ Len(st) = n + Len(t) /\ n \in Nat /\ Len(t) \in Nat
      /\ \A i \in 1..Len(t) : st[n + i] = t[i]
  BY ConcatProperties, LenProperties
<1> HIDE DEF st, n
<1>2. Has(st, n, t)
  BY <1>1, HasElements
<1> QED  BY <1>2 DEF st, n

(* A message stays where it lies when more is written.                     *)
LEMMA FrameStays ==
    ASSUME stream \in Seq(Byte), NEW t \in Seq(Byte), stream' = stream \o t,
           NEW m, NEW a \in 0..Len(stream), NEW b \in 0..Len(stream), FrameLies(m, a, b)
    PROVE  FrameLies(m, a, b)'
<1>1. PICK q \in 0..Len(stream) :
        /\ VarIntLies(a, q, Len(m.bytes)) /\ Group * (q - a - 1) < Width
        /\ q <= b /\ Len(m.bytes) = b - q
        /\ SubSeq(stream, q + 1, b) = m.bytes
  BY DEF FrameLies
<1>2. Len(stream) \in Nat /\ Len(stream') \in Nat /\ Len(stream) <= Len(stream')
  BY BytesAppended
<1>3. a < q
  BY <1>1 DEF VarIntLies
<1>4. SubSeq(stream', a + 1, q) = SubSeq(stream, a + 1, q)
  <2>1. q \in a..Len(stream)
    BY <1>2, <1>3
  <2> QED  BY <2>1, SamePiece
<1>5. SubSeq(stream', q + 1, b) = SubSeq(stream, q + 1, b)
  <2>1. b \in q..Len(stream)
    BY <1>1, <1>2
  <2> QED  BY <2>1, SamePiece
<1>6. VarIntLies(a, q, Len(m.bytes))'
  BY <1>1, <1>4 DEF VarIntLies
<1>7. q \in 0..Len(stream')
  BY <1>2
<1> QED  BY <1>1, <1>5, <1>6, <1>7 DEF FrameLies

\* A message, with its size, behind the stream.
NewFrame(m, head) ==
    /\ head \in Seq(Byte) /\ IsVarInt(head, Len(m.bytes)) /\ Len(head) \in Nat \ {0}
    /\ Group * (Len(head) - 1) < Width
    /\ stream' = stream \o head \o m.bytes

(* It lies between the end of the stream before and after it.              *)
LEMMA FrameIsSent ==
    ASSUME stream \in Seq(Byte), NEW m \in ClientMessages, NEW head, NewFrame(m, head),
           NEW a, a = Len(stream), NEW b, b = Len(stream')
    PROVE  /\ FrameLies(m, a, b)'
           /\ stream' = stream \o (head \o m.bytes) /\ head \o m.bytes \in Seq(Byte)
           /\ b \in Nat /\ a <= b
<1> DEFINE bytes == m.bytes
           q == a + Len(head)
           both == head \o bytes
<1>1. bytes \in Seq(Byte) /\ head \in Seq(Byte) /\ a \in Nat /\ Len(bytes) \in Nat
      /\ Len(head) \in Nat \ {0}
  BY MessageType, LenProperties DEF NewFrame
<1>2. stream' = (stream \o head) \o bytes
  BY DEF NewFrame
<1> HIDE DEF bytes
<1>3. both \in Seq(Byte) /\ Len(both) = Len(head) + Len(bytes)
  BY <1>1, BytesAppended
<1>4. stream' = stream \o both
  BY <1>1, <1>2, ConcatAssociative
<1>5. stream' \in Seq(Byte) /\ b = a + Len(both)
  <2> HIDE DEF both
  <2> QED  BY <1>3, <1>4, BytesAppended
<1>6. Has(stream', a, both)
  <2> HIDE DEF both
  <2> QED  BY <1>3, <1>4, Behind
<1>7. Has(stream', a, head) /\ Has(stream', q, bytes)
  BY <1>1, <1>5, <1>6, HasBoth
<1>8. q \in Nat /\ a < q /\ q <= b /\ Len(bytes) = b - q /\ q - a - 1 = Len(head) - 1
      /\ b \in Nat /\ a <= b /\ q + Len(bytes) = b
  BY <1>1, <1>3, <1>5
<1>9. SubSeq(stream', a + 1, q) = head /\ SubSeq(stream', q + 1, b) = bytes
  BY <1>7, <1>8 DEF Has
<1> HIDE DEF q
<1>10. VarIntLies(a, q, Len(bytes))'
  BY <1>8, <1>9 DEF VarIntLies, NewFrame, bytes
<1>11. FrameLies(m, a, b)'
  <2>1. Group * (q - a - 1) < Width
    BY <1>8 DEF NewFrame
  <2>2. q \in 0..Len(stream')
    BY <1>8
  <2> QED  BY <1>8, <1>9, <1>10, <2>1, <2>2 DEF FrameLies, bytes
<1> QED  BY <1>3, <1>4, <1>8, <1>11 DEF bytes

(* A size that is written with a byte more than it needs is still one that *)
(* Packet::Packet takes.                                                   *)
LEMMA SizeIsWritten ==
    ASSUME IsReadable, NEW m \in ClientMessages, Send(m)
    PROVE  \E head : NewFrame(m, head)
<1> DEFINE size == Len(m.bytes)
<1>1. PICK pad \in {0, 1} :
          stream' = stream \o Padded(size, ShortestVarInt(size) + pad) \o m.bytes
  BY DEF Send
<1>2. size \in Readable
  BY DEF IsReadable
<1> DEFINE k == ShortestVarInt(size)
           n == k + pad
           head == Padded(size, n)
<1> HIDE DEF size
<1>3. k \in 1..MaxVarInt
  BY <1>2, ReadableIsShort
<1>4. n \in k..(MaxVarInt + 1)
  <2> HIDE DEF k
  <2> QED  BY <1>3, MaxVarIntProperties
<1>5. /\ head \in Seq(Byte) /\ Len(head) = n /\ n \in 1..Width /\ Group * (n - 1) < Width
      /\ IsVarInt(head, size)
  BY <1>2, <1>4, PaddedIsVarInt DEF k
<1> HIDE DEF head, n, k
<1>6. Len(head) \in Nat \ {0}
  BY <1>5
<1>7. stream' = stream \o head \o m.bytes
  BY <1>1 DEF head, n, k
<1> QED  BY <1>5, <1>6, <1>7 DEF NewFrame, size

(* What the client writes besides changes nothing about its messages.      *)
LEMMA ClientStays ==
    ASSUME TypeInv, NEW ms \in Seq(ClientMessages), ClientInv(ms),
           NEW t \in Seq(Byte), stream' = stream \o t, UNCHANGED <<clientState, sent>>
    PROVE  ClientInv(ms)' /\ (IsGarbled => IsGarbled')
<1>1. /\ stream \in Seq(Byte) /\ Len(stream) \in Nat /\ Len(stream') \in Nat
      /\ Len(stream) <= Len(stream') /\ Clean \in 0..Len(stream) /\ Len(sent) \in Nat
  BY BytesAppended, LenProperties DEF TypeInv, ClientInv
<1>2. /\ Clean' = Clean /\ Clean \in 0..Len(stream')
      /\ \A i : SentStart(i)' = SentStart(i) /\ StateAfter(ms, i)' = StateAfter(ms, i)
  BY <1>1 DEF Clean, SentStart, StateAfter
<1>3. ASSUME NEW i \in 1..Len(sent)
      PROVE  IsSent(ms, i)'
  <2>1. IsSent(ms, i)
    BY DEF ClientInv
  <2>2. sent[i].at \in 0..Len(stream)
    BY <1>1, <2>1 DEF IsSent
  <2>3. SentStart(i) \in 0..Len(stream)
    <3>1. CASE i = 1
      BY <1>1, <3>1 DEF SentStart
    <3>2. CASE i # 1
      <4>1. i - 1 \in 1..Len(sent)
        BY <1>1, <3>2
      <4>2. sent[i - 1].at \in 0..Clean
        BY <4>1 DEF ClientInv, IsSent
      <4> QED  BY <1>1, <3>2, <4>2 DEF SentStart
    <3> QED  BY <3>1, <3>2
  <2>4. PICK a \in 0..Len(stream), b \in 0..Len(stream) : a = SentStart(i) /\ b = sent[i].at
    BY <2>2, <2>3
  <2>5. FrameLies(ms[i], a, b)
    BY <2>1, <2>4 DEF IsSent
  <2>6. FrameLies(ms[i], a, b)'
    BY <1>1, <2>5, FrameStays
  <2>7. SentStart(i)' = a /\ sent'[i].at = b
    BY <1>2, <2>4
  <2> QED  BY <1>2, <2>1, <2>6, <2>7 DEF IsSent
<1>4. ClientInv(ms)'
  BY <1>1, <1>2, <1>3 DEF ClientInv
<1>5. IsGarbled => IsGarbled'
  BY <1>1, <1>2 DEF IsGarbled
<1> QED  BY <1>4, <1>5

(* A message that is written goes on the list of those that lie in the     *)
(* stream.                                                                 *)
LEMMA MessageSent ==
    ASSUME IsReadable, TypeInv, NEW ms \in Seq(ClientMessages), ClientInv(ms),
           NEW m \in ClientMessages, Send(m)
    PROVE  ClientInv(Append(ms, m))' /\ ~IsGarbled'
<1> DEFINE M == Len(sent)
<1>1. PICK head : NewFrame(m, head)
  BY SizeIsWritten
<1>2. PICK a, b : a = Len(stream) /\ b = Len(stream')
  OBVIOUS
<1>3. /\ FrameLies(m, a, b)'
      /\ stream' = stream \o (head \o m.bytes) /\ head \o m.bytes \in Seq(Byte)
      /\ b \in Nat /\ a <= b
  <2>1. stream \in Seq(Byte)
    BY DEF TypeInv
  <2> QED  BY <1>1, <1>2, <2>1, FrameIsSent
<1>4. PICK new : new = Append(ms, m)
  OBVIOUS
<1>5. /\ ~IsGarbled /\ m.from = clientState /\ clientState' = m.to
      /\ sent' = Append(sent, [at |-> b, handler |-> m.handler, fields |-> m.fields])
  BY <1>2 DEF Send
<1>6. /\ stream \in Seq(Byte) /\ Len(stream) \in Nat /\ M \in Nat /\ Clean = a
      /\ sent \in Seq(SentRecords) /\ Len(ms) = M /\ a \in Nat
  <2>1. Clean \in 0..Len(stream) /\ ~(Len(stream) > Clean) /\ Len(stream) \in Nat
    BY <1>5, LenProperties DEF ClientInv, IsGarbled, TypeInv
  <2>2. Clean = Len(stream)
    BY <2>1
  <2> QED  BY <1>2, <2>1, <2>2, LenProperties DEF TypeInv, ClientInv
<1>7. [at |-> b, handler |-> m.handler, fields |-> m.fields] \in SentRecords
  BY <1>3 DEF SentRecords
<1>8. /\ sent' \in Seq(SentRecords) /\ Len(sent') = M + 1
      /\ sent'[M + 1].at = b /\ sent'[M + 1].handler = m.handler
      /\ sent'[M + 1].fields = m.fields /\ \A i \in 1..M : sent'[i] = sent[i]
  BY <1>5, <1>6, <1>7, AppendProperties
<1>9. /\ new \in Seq(ClientMessages) /\ Len(new) = M + 1 /\ new[M + 1] = m
      /\ \A i \in 1..M : new[i] = ms[i]
  BY <1>4, <1>6, AppendProperties
<1>10. Clean' = b
  <2>1. sent' # <<>>
    BY <1>6, <1>8
  <2> QED  BY <1>6, <1>8, <2>1 DEF Clean
<1>11. \A i \in 1..(M + 1) : SentStart(i)' = IF i = M + 1 THEN a ELSE SentStart(i)
  <2> SUFFICES ASSUME NEW i \in 1..(M + 1)
               PROVE  SentStart(i)' = IF i = M + 1 THEN a ELSE SentStart(i)
    OBVIOUS
  <2>1. CASE i = 1
    <3>1. SentStart(i)' = 0 /\ SentStart(i) = 0
      BY <2>1 DEF SentStart
    <3>2. ASSUME i = M + 1 PROVE a = 0
      <4>1. sent = <<>>
        BY <1>6, <2>1, <3>2, EmptySeq
      <4> QED  BY <1>6, <4>1 DEF Clean
    <3> QED  BY <3>1, <3>2
  <2>2. CASE i # 1
    <3>1. i - 1 \in 1..M /\ SentStart(i)' = sent'[i - 1].at /\ SentStart(i) = sent[i - 1].at
      BY <1>6, <2>2 DEF SentStart
    <3>2. sent'[i - 1] = sent[i - 1]
      BY <1>8, <3>1
    <3>3. ASSUME i = M + 1 PROVE sent[i - 1].at = a
      <4>1. i - 1 = M /\ sent # <<>>
        BY <1>6, <2>2, <3>3
      <4> QED  BY <1>6, <4>1 DEF Clean
    <3> QED  BY <3>1, <3>2, <3>3
  <2> QED  BY <2>1, <2>2
<1>12. \A i \in 1..(M + 1) :
           StateAfter(new, i)' = IF i = M + 1 THEN m.to ELSE StateAfter(ms, i)
  <2> SUFFICES ASSUME NEW i \in 1..(M + 1)
               PROVE  StateAfter(new, i)' = IF i = M + 1 THEN m.to ELSE StateAfter(ms, i)
    OBVIOUS
  <2>1. CASE i = M + 1
    BY <1>5, <1>6, <1>9, <2>1 DEF StateAfter
  <2>2. CASE i = M
    <3>1. StateAfter(new, i)' = new[M + 1].from
      BY <1>6, <1>9, <2>2 DEF StateAfter
    <3>2. StateAfter(ms, i) = clientState
      BY <1>6, <2>2 DEF StateAfter
    <3> QED  BY <1>5, <1>6, <1>9, <2>2, <3>1, <3>2
  <2>3. CASE i < M
    <3>1. i + 1 \in 1..M
      BY <1>6, <2>3
    <3>2. StateAfter(new, i)' = new[i + 1].from /\ StateAfter(ms, i) = ms[i + 1].from
      BY <1>6, <1>9, <2>3 DEF StateAfter
    <3> QED  BY <1>6, <1>9, <2>3, <3>1, <3>2
  <2> QED  BY <1>6, <2>1, <2>2, <2>3
<1>13. ASSUME NEW i \in 1..(M + 1)
       PROVE  IsSent(new, i)'
  <2>1. CASE i = M + 1
    <3>1. FrameLies(m, a, b)' /\ SentStart(i)' = a /\ sent'[i].at = b /\ new[i] = m
      BY <1>3, <1>8, <1>9, <1>11, <2>1
    <3>2. b \in 0..Clean'
      BY <1>3, <1>10
    <3>3. m.to = StateAfter(new, i)'
      BY <1>12, <2>1
    <3> QED  BY <1>8, <2>1, <3>1, <3>2, <3>3 DEF IsSent
  <2>2. CASE i # M + 1
    <3>1. i \in 1..M
      BY <1>6, <2>2
    <3>2. IsSent(ms, i)
      BY <3>1 DEF ClientInv
    <3>3. SentStart(i) \in 0..Len(stream) /\ sent[i].at \in 0..Len(stream)
      BY <3>1, SentParts
    <3>4. PICK c \in 0..Len(stream), d \in 0..Len(stream) :
              c = SentStart(i) /\ d = sent[i].at
      BY <3>3
    <3>5. FrameLies(ms[i], c, d)
      BY <3>2, <3>4 DEF IsSent
    <3>6. FrameLies(ms[i], c, d)'
      BY <1>3, <1>6, <3>5, FrameStays
    <3>7. SentStart(i)' = c /\ sent'[i] = sent[i] /\ new[i] = ms[i] /\ sent'[i].at = d
      BY <1>8, <1>9, <1>11, <2>2, <3>1, <3>4
    <3>8. sent'[i].at \in 0..Clean'
      <4>1. sent[i].at \in 0..Clean
        BY <3>2 DEF IsSent
      <4> QED  BY <1>3, <1>6, <1>10, <3>7, <4>1
    <3>9. new[i].to = StateAfter(new, i)'
      BY <1>12, <2>2, <3>2, <3>7 DEF IsSent
    <3> QED  BY <3>2, <3>6, <3>7, <3>8, <3>9 DEF IsSent
  <2> QED  BY <2>1, <2>2
<1>14. ClientInv(new)'
  <2>1. Clean' \in 0..Len(stream')
    BY <1>2, <1>3, <1>10
  <2> QED  BY <1>8, <1>9, <1>13, <2>1 DEF ClientInv
<1>15. ~IsGarbled'
  BY <1>2, <1>3, <1>10 DEF IsGarbled
<1> QED  BY <1>4, <1>14, <1>15

(* What the client has written stays while it writes nothing.              *)
LEMMA ClientRests ==
    ASSUME NEW ms, ClientInv(ms), UNCHANGED <<clientState, stream, sent>>
    PROVE  ClientInv(ms)' /\ (IsGarbled => IsGarbled')
<1>1. /\ Clean' = Clean /\ SentRecords' = SentRecords
      /\ \A i : SentStart(i)' = SentStart(i) /\ StateAfter(ms, i)' = StateAfter(ms, i)
  BY DEF Clean, SentStart, StateAfter, SentRecords
<1>2. ASSUME NEW i \in 1..Len(sent)
      PROVE  IsSent(ms, i)'
  <2>1. IsSent(ms, i)
    BY DEF ClientInv
  <2>2. FrameLies(ms[i], SentStart(i), sent[i].at)'
    BY <1>1, <2>1 DEF IsSent, FrameLies, VarIntLies
  <2> QED  BY <1>1, <2>1, <2>2 DEF IsSent
<1>3. ClientInv(ms)'
  BY <1>1, <1>2 DEF ClientInv
<1>4. IsGarbled => IsGarbled'
  BY <1>1 DEF IsGarbled
<1> QED  BY <1>3, <1>4

(* Nor does a worker that takes no packet change what has been read.       *)
LEMMA WorkersRest ==
    ASSUME NEW ms, WorkerInv(ms),
           UNCHANGED <<clientState, sent, packets, incoming, state, received>>,
           ~connected' => hungUp' \/ IsGarbled' \/ clientState' = "None"
    PROVE  WorkerInv(ms)'
<1>1. Handled' = Handled /\ Clean' = Clean /\ \A i : StateAfter(ms, i)' = StateAfter(ms, i)
  BY DEF Handled, Clean, StateAfter
<1>2. /\ (Handled \in Nat /\ \E S : received \in Seq(S))'
      /\ (\A k \in 1..Len(incoming) : incoming[k] = packets[Handled + k])'
  BY <1>1 DEF WorkerInv
<1>3. (IF Handled <= Len(sent)
       THEN Len(received) = Handled /\ state = StateAfter(ms, Handled)
       ELSE Len(received) >= Len(sent))'
  BY <1>1 DEF WorkerInv
<1>4. (\A j \in 1..Len(received) :
           IF j <= Len(sent) THEN received[j] = sent[j] ELSE received[j].at > Clean)'
  BY <1>1 DEF WorkerInv
<1> QED  BY <1>2, <1>3, <1>4 DEF WorkerInv

(* A packet is put behind those that no worker has taken.                  *)
LEMMA PacketQueued ==
    ASSUME TypeInv, TypeInv', NEW ms, WorkerInv(ms), NEW p, packets' = Append(packets, p),
           incoming' = Append(incoming, p),
           UNCHANGED <<clientState, stream, sent, hungUp, state, received, connected>>
    PROVE  WorkerInv(ms)'
<1>1. /\ packets \in Seq(PacketRecords) /\ incoming \in Seq(PacketRecords)
      /\ Len(packets) \in Nat /\ Len(incoming) \in Nat
  BY LenProperties DEF TypeInv
<1>2. /\ Len(packets') = Len(packets) + 1 /\ packets'[Len(packets) + 1] = p
      /\ \A i \in 1..Len(packets) : packets'[i] = packets[i]
      /\ Len(incoming') = Len(incoming) + 1 /\ incoming'[Len(incoming) + 1] = p
      /\ \A i \in 1..Len(incoming) : incoming'[i] = incoming[i]
  BY <1>1 DEF PacketRecords
<1>3. Handled' = Handled /\ Clean' = Clean /\ \A i : StateAfter(ms, i)' = StateAfter(ms, i)
  BY <1>1, <1>2 DEF Handled, Clean, StateAfter
<1>4. ASSUME NEW k \in 1..Len(incoming')
      PROVE  incoming'[k] = packets'[Handled + k]
  <2>1. CASE k = Len(incoming) + 1
    <3>1. Handled + k = Len(packets) + 1
      BY <1>1, <2>1 DEF Handled
    <3> QED  BY <1>2, <2>1, <3>1
  <2>2. CASE k # Len(incoming) + 1
    <3>1. k \in 1..Len(incoming) /\ Handled + k \in 1..Len(packets)
      <4>1. k \in 1..Len(incoming)
        BY <1>1, <1>2, <2>2
      <4>2. Handled \in Nat /\ Handled = Len(packets) - Len(incoming)
        BY DEF WorkerInv, Handled
      <4> QED  BY <1>1, <4>1, <4>2
    <3>2. incoming[k] = packets[Handled + k]
      BY <3>1 DEF WorkerInv
    <3> QED  BY <1>2, <3>1, <3>2
  <2> QED  BY <2>1, <2>2
<1>5. IsGarbled => IsGarbled'
  BY <1>3 DEF IsGarbled
<1>6. (IF Handled <= Len(sent)
       THEN Len(received) = Handled /\ state = StateAfter(ms, Handled)
       ELSE Len(received) >= Len(sent))'
  BY <1>3 DEF WorkerInv
<1>7. (\A j \in 1..Len(received) :
           IF j <= Len(sent) THEN received[j] = sent[j] ELSE received[j].at > Clean)'
  BY <1>3 DEF WorkerInv
<1>8. (Handled \in Nat /\ \E S : received \in Seq(S))'
  BY <1>3 DEF WorkerInv
<1>9. (\A k \in 1..Len(incoming) : incoming[k] = packets[Handled + k])'
  BY <1>3, <1>4
<1>10. (~connected => hungUp \/ IsGarbled \/ clientState = "None")'
  BY <1>5 DEF WorkerInv
<1> QED  BY <1>6, <1>7, <1>8, <1>9, <1>10 DEF WorkerInv

(* A message is written: those that have been handled stay handled.        *)
LEMMA WorkersGoOn ==
    ASSUME IsReadable, IInv, NEW ms \in Seq(ClientMessages), ClientInv(ms), WorkerInv(ms),
           NEW m \in ClientMessages, Send(m)
    PROVE  WorkerInv(Append(ms, m))'
<1>1. /\ ~IsGarbled /\ m.from = clientState /\ clientState' = m.to
      /\ sent' = Append(sent, [at |-> Len(stream'), handler |-> m.handler,
                               fields |-> m.fields])
      /\ UNCHANGED <<packets, incoming, state, received, connected>>
  BY DEF Send, readVars, workVars
<1>2. /\ sent \in Seq(SentRecords) /\ Len(sent) \in Nat /\ Len(ms) = Len(sent)
      /\ Len(packets) \in Nat /\ Len(incoming) \in Nat /\ Handled \in Nat
      /\ incoming \in Seq(PacketRecords) /\ TypeInv
  BY LenProperties DEF ClientInv, WorkerInv, IInv, TypeInv
<1>3. PICK new : new = Append(ms, m)
  OBVIOUS
<1>4. /\ Len(new) = Len(sent) + 1 /\ new[Len(sent) + 1] = m
      /\ \A i \in 1..Len(sent) : new[i] = ms[i]
  BY <1>2, <1>3, AppendProperties
<1>5. ClientInv(new)'
  BY <1>2, <1>3, MessageSent
<1>6. Len(sent') = Len(sent) + 1 /\ \A i \in 1..Len(sent) : sent'[i] = sent[i]
  <2>1. IInv'
    BY SendStep
  <2>2. Len(stream') \in Nat
    BY <2>1, LenProperties DEF IInv, TypeInv
  <2>3. [at |-> Len(stream'), handler |-> m.handler, fields |-> m.fields] \in SentRecords
    BY <2>2 DEF SentRecords
  <2> QED  BY <1>1, <1>2, <2>3, AppendProperties
<1>7. Handled <= Len(sent) /\ Handled' = Handled
  <2>1. ASSUME Handled > Len(sent) PROVE FALSE
    <3>1. Handled \in 1..Len(packets)
      BY <1>2, <2>1 DEF Handled
    <3> QED  BY <1>1, <1>2, <2>1, <3>1, PacketsBehind
  <2> QED  BY <1>1, <1>2, <2>1 DEF Handled
<1>8. Len(received) = Handled /\ state = StateAfter(ms, Handled)
  BY <1>7 DEF WorkerInv
<1>9. StateAfter(new, Handled)' = StateAfter(ms, Handled)
  <2>1. CASE Handled = Len(sent)
    <3>1. StateAfter(new, Handled)' = m.from
      BY <1>2, <1>4, <1>7, <2>1 DEF StateAfter
    <3> QED  BY <1>1, <1>2, <2>1, <3>1 DEF StateAfter
  <2>2. CASE Handled # Len(sent)
    <3>1. Handled + 1 \in 1..Len(sent) /\ Handled < Len(sent) + 1
      BY <1>2, <1>7, <2>2
    <3>2. StateAfter(new, Handled)' = new[Handled + 1].from
      BY <1>4, <1>7, <3>1 DEF StateAfter
    <3> QED  BY <1>2, <1>4, <1>7, <2>2, <3>1, <3>2 DEF StateAfter
  <2> QED  BY <2>1, <2>2
<1>10. m.from # "None"
  BY MessageIsHandled DEF Handles
<1>11. connected'
  <2>1. ~hungUp
    BY DEF Send
  <2>2. connected
    BY <1>1, <1>10, <2>1 DEF WorkerInv
  <2> QED  BY <1>1, <2>2
<1>12. (Handled \in Nat /\ \E S : received \in Seq(S))'
  BY <1>1, <1>7 DEF WorkerInv
<1>13. (\A k \in 1..Len(incoming) : incoming[k] = packets[Handled + k])'
  BY <1>1, <1>7 DEF WorkerInv
<1>14. (IF Handled <= Len(sent)
        THEN Len(received) = Handled /\ state = StateAfter(new, Handled)
        ELSE Len(received) >= Len(sent))'
  BY <1>1, <1>2, <1>6, <1>7, <1>8, <1>9
<1>15. ASSUME NEW j \in 1..Len(received')
       PROVE  j <= Len(sent') /\ received'[j] = sent'[j]
  <2>1. j \in 1..Len(received) /\ j \in 1..Len(sent) /\ j <= Len(sent')
    BY <1>1, <1>2, <1>6, <1>7, <1>8
  <2>2. received[j] = sent[j]
    BY <2>1 DEF WorkerInv
  <2> QED  BY <1>1, <1>6, <2>1, <2>2
<1>16. WorkerInv(new)'
  BY <1>11, <1>12, <1>13, <1>14, <1>15 DEF WorkerInv
<1> QED  BY <1>3, <1>16

\* What a worker does with a packet, as far as the invariant is about it.
Recorded(p, handler, read) ==
    [at |-> p.at, handler |-> handler, fields |-> read.value]

Closes(handler) ==
    \/ handler \in {"tooLarge", "unknown"}
    \/ handler = "handshake" /\ state' = "None"
    \/ state = "None"

(* That is the part of HandlePacket that the invariant is about.           *)
LEMMA PacketHandled ==
    ASSUME HandlePacket, NEW p, p = incoming[1], NEW handler, handler = packetRouter(p),
           NEW read, read = ReadAll(Reads(handler), p.data)
    PROVE  /\ incoming # <<>> /\ connected /\ incoming' = Tail(incoming)
           /\ UNCHANGED <<clientState, stream, hungUp, sent, packets, replies>>
           /\ Ok(read) => /\ state' = NextState(handler, read.value)
                          /\ received' = Append(received, Recorded(p, handler, read))
                          /\ outgoing' = outgoing \o Replies(handler, read.value)
                          /\ ~Closes(handler) => connected'
           /\ ~Ok(read) => UNCHANGED <<state, received, outgoing>>
<1>1. incoming # <<>> /\ connected /\ incoming' = Tail(incoming)
  BY DEF HandlePacket, TakePacket
<1>2. UNCHANGED <<clientState, stream, hungUp, sent, packets, replies>>
  BY DEF HandlePacket, clientVars, readVars
<1>3. ASSUME Ok(read)
      PROVE  /\ state' = NextState(handler, read.value)
             /\ received' = Append(received, Recorded(p, handler, read))
             /\ outgoing' = outgoing \o Replies(handler, read.value)
  BY <1>3 DEF HandlePacket, Recorded
<1>4. ASSUME Ok(read), ~Closes(handler)
      PROVE  connected'
  BY <1>4 DEF HandlePacket, Closes
<1>5. ASSUME ~Ok(read)
      PROVE  UNCHANGED <<state, received, outgoing>>
  BY <1>5 DEF HandlePacket
<1> QED  BY <1>1, <1>2, <1>3, <1>4, <1>5

(* The next packet, while there are messages that have not been handled, is *)
(* that of the next message; its handler reads it and leads where it says. *)
LEMMA MessageHandled ==
    ASSUME IsReadable, IInv, NEW ms \in Seq(ClientMessages), ClientInv(ms), WorkerInv(ms),
           HandlePacket, NEW i, i = Handled + 1, i \in 1..Len(packets), i <= Len(sent),
           incoming[1] = packets[i]
    PROVE  /\ received' = Append(received, sent[i]) /\ state' = StateAfter(ms, i)
           /\ outgoing' = outgoing \o Replies(sent[i].handler, sent[i].fields)
           /\ connected'
<1> DEFINE p == incoming[1]
           m == ms[i]
           read == ReadAll(Reads(m.handler), p.data)
<1>1. /\ i \in 1..Len(sent) /\ Handled \in Nat /\ Len(sent) \in Nat /\ Len(ms) = Len(sent)
      /\ sent \in Seq(SentRecords)
  BY LenProperties DEF WorkerInv, ClientInv
<1>2. m \in ClientMessages
  BY <1>1, ElementOfSeq
<1>3. IsMessagesPacket(ms, i) /\ IsSent(ms, i)
  BY <1>1, PacketsAreMessages DEF ClientInv
<1>4. p.at = sent[i].at /\ p.size = Len(m.bytes) /\ Handles(m, p.id, p.data)
  BY <1>3 DEF IsMessagesPacket
<1>5. state = m.from
  <2>1. Handled <= Len(sent) /\ Handled < Len(ms)
    BY <1>1
  <2> QED  BY <2>1 DEF WorkerInv, StateAfter
<1> HIDE DEF p, m
<1>6. packetRouter(p) = m.handler
  <2> DEFINE r == Route(m.from, p.id, m.handler)
  <2>1. r \in Routes /\ r.in = m.from /\ r.id = p.id /\ r.handler = m.handler
    BY <1>4 DEF Handles, Route
  <2>2. state = "Login" => ~(p.size > MaxPacketSize) /\ ~(p.size < 0)
    <3> SUFFICES ASSUME state = "Login" PROVE ~(p.size > MaxPacketSize) /\ ~(p.size < 0)
      OBVIOUS
    <3>1. p.size <= MaxPacketSize
      BY <1>2, <1>4, <1>5 DEF IsReadable
    <3>2. p.size \in Nat /\ MaxPacketSize \in Nat
      <4>1. m.bytes \in Seq(Byte)
        BY <1>2, MessageType
      <4> QED  BY <1>4, <4>1, LenProperties, ValuesAssumption
    <3> QED  BY <3>1, <3>2
  <2> HIDE DEF r
  <2> QED  BY <1>5, <2>1, <2>2, RouteIsTaken
<1>7. PICK end : read = Got(m.fields, end)
  BY <1>4 DEF Handles
<1>8. Ok(read) /\ read.value = m.fields
  BY <1>7 DEF Ok, Got
<1> HIDE DEF read
<1>9. /\ Ok(read) => /\ state' = NextState(m.handler, read.value)
                     /\ received' = Append(received, Recorded(p, m.handler, read))
                     /\ outgoing' = outgoing \o Replies(m.handler, read.value)
                     /\ ~Closes(m.handler) => connected'
  BY <1>6, PacketHandled DEF p, read
<1>10. Recorded(p, m.handler, read) = sent[i]
  <2>1. sent[i] \in SentRecords
    BY <1>1, ElementOfSeq
  <2>2. sent[i].handler = m.handler /\ sent[i].fields = m.fields
    BY <1>3 DEF IsSent, m
  <2> QED  BY <1>4, <1>8, <2>1, <2>2 DEF Recorded, SentRecords
<1>11. state' = m.to
  BY <1>4, <1>5, <1>8, <1>9 DEF Handles
<1>12. m.to = StateAfter(ms, i)
  BY <1>3 DEF IsSent, m
<1>13. ~Closes(m.handler)
  BY <1>4, <1>5, <1>11 DEF Closes, Handles
<1>14. sent[i].handler = m.handler /\ sent[i].fields = m.fields
  BY <1>3 DEF IsSent, m
<1> QED  BY <1>8, <1>9, <1>10, <1>11, <1>12, <1>13, <1>14

(* So what the workers have read goes on to be what the client has written. *)
LEMMA HandlerStep ==
    ASSUME IsReadable, IInv, NEW ms \in Seq(ClientMessages), ClientInv(ms), WorkerInv(ms),
           HandlePacket
    PROVE  WorkerInv(ms)'
<1>1. /\ packets \in Seq(PacketRecords) /\ incoming \in Seq(PacketRecords)
      /\ Len(packets) \in Nat /\ Len(incoming) \in Nat /\ Len(sent) \in Nat /\ Handled \in Nat
      /\ sent \in Seq(SentRecords) /\ Len(ms) = Len(sent) /\ Handled = Len(packets) - Len(incoming)
  BY LenProperties DEF IInv, TypeInv, ClientInv, WorkerInv, Handled
<1>2. /\ incoming # <<>> /\ connected /\ incoming' = Tail(incoming)
      /\ UNCHANGED <<clientState, stream, hungUp, sent, packets>>
  BY PacketHandled
<1>3. /\ Len(incoming) > 0 /\ Len(incoming') = Len(incoming) - 1
      /\ \A k \in 1..Len(incoming') : incoming'[k] = incoming[k + 1]
  <2>1. Len(incoming) > 0
    BY <1>1, <1>2, EmptySeq
  <2> QED  BY <1>1, <1>2, <2>1
<1>4. PICK i : i = Handled + 1
  OBVIOUS
<1>5. /\ i \in 1..Len(packets) /\ incoming[1] = packets[i] /\ Handled' = i
  <2>1. 1 \in 1..Len(incoming)
    BY <1>1, <1>3
  <2>2. incoming[1] = packets[Handled + 1]
    BY <2>1 DEF WorkerInv
  <2>3. Handled' = Len(packets) - (Len(incoming) - 1)
    BY <1>2, <1>3 DEF Handled
  <2> QED  BY <1>1, <1>3, <1>4, <2>2, <2>3
<1>6. (\A k \in 1..Len(incoming) : incoming[k] = packets[Handled + k])'
  <2> SUFFICES ASSUME NEW k \in 1..Len(incoming') PROVE incoming'[k] = packets'[Handled' + k]
    OBVIOUS
  <2>1. k + 1 \in 1..Len(incoming) /\ Handled + (k + 1) = i + k
    BY <1>1, <1>3, <1>4
  <2>2. incoming[k + 1] = packets[Handled + (k + 1)]
    BY <2>1 DEF WorkerInv
  <2> QED  BY <1>2, <1>3, <1>5, <2>1, <2>2
<1>7. /\ Clean' = Clean /\ (IsGarbled => IsGarbled') /\ \A k : StateAfter(ms, k)' = StateAfter(ms, k)
  BY <1>2 DEF Clean, IsGarbled, StateAfter
<1>8. PICK S : received \in Seq(S)
  BY DEF WorkerInv
<1>9. Handled' \in Nat
  BY <1>5
<1>10. CASE i <= Len(sent)
  <2>1. received' = Append(received, sent[i]) /\ state' = StateAfter(ms, i) /\ connected'
    BY <1>4, <1>5, <1>10, MessageHandled
  <2>2. Len(received) = Handled
    BY <1>1, <1>4, <1>10 DEF WorkerInv
  <2> DEFINE T == S \cup {sent[i]}
  <2>3. /\ received' \in Seq(T) /\ Len(received') = i /\ received'[i] = sent[i]
        /\ \A j \in 1..Handled : received'[j] = received[j]
    <3>1. received \in Seq(T)
      BY <1>8
    <3>2. sent[i] \in T
      OBVIOUS
    <3> HIDE DEF T
    <3> QED  BY <1>4, <2>1, <2>2, <3>1, <3>2, AppendProperties
  <2>4. (\A j \in 1..Len(received) :
             IF j <= Len(sent) THEN received[j] = sent[j] ELSE received[j].at > Clean)'
    <3> SUFFICES ASSUME NEW j \in 1..i PROVE j <= Len(sent) /\ received'[j] = sent[j]
      BY <1>2, <2>3
    <3>1. j <= Len(sent)
      BY <1>1, <1>4, <1>10
    <3>2. CASE j = i
      BY <2>3, <3>1, <3>2
    <3>3. CASE j # i
      <4>1. j \in 1..Handled /\ j \in 1..Len(received)
        BY <1>1, <1>4, <2>2, <3>3
      <4>2. received[j] = sent[j]
        BY <3>1, <4>1 DEF WorkerInv
      <4> QED  BY <2>3, <3>1, <4>1, <4>2
    <3> QED  BY <3>2, <3>3
  <2>5. (IF Handled <= Len(sent)
         THEN Len(received) = Handled /\ state = StateAfter(ms, Handled)
         ELSE Len(received) >= Len(sent))'
    <3>1. StateAfter(ms, Handled)' = StateAfter(ms, i)
      BY <1>2, <1>5 DEF StateAfter
    <3> QED  BY <1>2, <1>5, <1>10, <2>1, <2>3, <3>1
  <2>6. (\E R : received \in Seq(R))'
    BY <2>3
  <2> QED  BY <1>6, <1>9, <2>1, <2>4, <2>5, <2>6 DEF WorkerInv
<1>11. CASE ~(i <= Len(sent))
  <2>1. packets[i].at > Clean /\ IsGarbled
    BY <1>1, <1>5, <1>11, PacketsBehind DEF IInv
  <2>2. Len(received) >= Len(sent) /\ Len(received) \in Nat
    <3>1. Len(received) \in Nat
      BY <1>8, LenProperties
    <3>2. CASE Handled <= Len(sent)
      <4>1. Len(received) = Handled
        BY <3>2 DEF WorkerInv
      <4> QED  BY <1>1, <1>4, <1>11, <4>1
    <3>3. CASE ~(Handled <= Len(sent))
      BY <3>1, <3>3 DEF WorkerInv
    <3> QED  BY <3>1, <3>2, <3>3
  <2>3. \/ received' = received
        \/ \E e : received' = Append(received, e) /\ e.at > Clean
    <3> DEFINE p == incoming[1]
               handler == packetRouter(p)
               read == ReadAll(Reads(handler), p.data)
    <3>1. /\ Ok(read) => received' = Append(received, Recorded(p, handler, read))
          /\ ~Ok(read) => received' = received
      BY PacketHandled
    <3> HIDE DEF read, handler
    <3>2. Recorded(p, handler, read).at > Clean
      BY <1>5, <2>1 DEF Recorded
    <3> HIDE DEF p
    <3> QED  BY <3>1, <3>2
  <2>4. (/\ \E R : received \in Seq(R)
         /\ Len(received) >= Len(sent)
         /\ \A j \in 1..Len(received) :
                IF j <= Len(sent) THEN received[j] = sent[j] ELSE received[j].at > Clean)'
    <3>1. CASE received' = received
      <4>1. (\A j \in 1..Len(received) :
                 IF j <= Len(sent) THEN received[j] = sent[j] ELSE received[j].at > Clean)'
        BY <1>2, <1>7, <3>1 DEF WorkerInv
      <4> QED  BY <1>2, <1>8, <2>2, <3>1, <4>1
    <3>2. ASSUME NEW e, received' = Append(received, e), e.at > Clean
          PROVE  (/\ \E R : received \in Seq(R)
                  /\ Len(received) >= Len(sent)
                  /\ \A j \in 1..Len(received) :
                         IF j <= Len(sent) THEN received[j] = sent[j]
                         ELSE received[j].at > Clean)'
      <4> DEFINE T == S \cup {e}
                 L == Len(received)
      <4>1. /\ received' \in Seq(T) /\ Len(received') = L + 1 /\ received'[L + 1] = e
            /\ \A j \in 1..L : received'[j] = received[j]
        <5>1. received \in Seq(T) /\ e \in T
          BY <1>8
        <5> HIDE DEF T
        <5> QED  BY <3>2, <5>1, AppendProperties
      <4>2. ASSUME NEW j \in 1..(L + 1)
            PROVE  IF j <= Len(sent) THEN received'[j] = sent[j] ELSE received'[j].at > Clean
        <5>1. CASE j = L + 1
          BY <1>1, <2>2, <3>2, <4>1, <5>1
        <5>2. CASE j # L + 1
          <6>1. j \in 1..L
            BY <2>2, <5>2
          <6> HIDE DEF L
          <6>2. IF j <= Len(sent) THEN received[j] = sent[j] ELSE received[j].at > Clean
            BY <6>1 DEF WorkerInv, L
          <6> QED  BY <4>1, <6>1, <6>2
        <5> QED  BY <5>1, <5>2
      <4>3. (\A j \in 1..Len(received) :
                 IF j <= Len(sent) THEN received[j] = sent[j] ELSE received[j].at > Clean)'
        BY <1>2, <1>7, <4>1, <4>2
      <4> QED  BY <1>1, <1>2, <2>2, <4>1, <4>3
    <3> QED  BY <2>3, <3>1, <3>2
  <2>5. IsGarbled' /\ ~(Handled' <= Len(sent'))
    BY <1>2, <1>5, <1>7, <1>11, <2>1
  <2> QED  BY <1>6, <1>9, <2>4, <2>5 DEF WorkerInv
<1> QED  BY <1>10, <1>11

(* Every step keeps the invariant about the messages,                      *)
LEMMA MessagesStep ==
    ASSUME IsReadable, IInv, IInv', MessagesInv, [Next]_vars
    PROVE  MessagesInv'
<1>1. PICK ms \in Seq(ClientMessages) : ClientInv(ms) /\ WorkerInv(ms)
  BY DEF MessagesInv
<1>2. TypeInv /\ TypeInv'
  BY DEF IInv
<1>3. ~connected => hungUp \/ IsGarbled \/ clientState = "None"
  BY <1>1 DEF WorkerInv
<1>4. ASSUME ClientInv(ms)', WorkerInv(ms)' PROVE MessagesInv'
  <2>1. Seq(ClientMessages)' = Seq(ClientMessages)
    OBVIOUS
  <2> QED  BY <1>4, <2>1 DEF MessagesInv
<1>5. ASSUME UNCHANGED <<clientState, stream, sent, packets, incoming, state, received>>,
             hungUp => hungUp', ~connected' => ~connected \/ hungUp \/ IsGarbled \/ state = "None"
      PROVE  MessagesInv'
  <2>1. ClientInv(ms)' /\ (IsGarbled => IsGarbled')
    BY <1>1, <1>5, ClientRests
  <2>2. state = "None" => IsGarbled \/ clientState = "None"
    <3> SUFFICES ASSUME state = "None", ~IsGarbled PROVE clientState = "None"
      OBVIOUS
    <3>1. Handled \in Nat /\ Len(sent) \in Nat /\ Len(ms) = Len(sent) /\ Len(packets) \in Nat
          /\ Len(incoming) \in Nat
      BY <1>1, <1>2, LenProperties DEF WorkerInv, ClientInv, TypeInv
    <3>2. Handled <= Len(sent)
      <4> SUFFICES ASSUME Handled > Len(sent) PROVE FALSE
        BY <3>1
      <4>1. Handled \in 1..Len(packets)
        BY <3>1 DEF Handled
      <4> QED  BY <1>1, <4>1, PacketsBehind
    <3>3. "None" = StateAfter(ms, Handled)
      BY <1>1, <3>2 DEF WorkerInv
    <3>4. ASSUME Handled < Len(ms) PROVE FALSE
      <4>1. ms[Handled + 1] \in ClientMessages
        <5>1. Handled + 1 \in 1..Len(ms)
          BY <3>1, <3>4
        <5> QED  BY <5>1, ElementOfSeq
      <4>2. ms[Handled + 1].from # "None"
        BY <4>1, MessageIsHandled DEF Handles
      <4> QED  BY <3>3, <3>4, <4>2 DEF StateAfter
    <3> QED  BY <3>3, <3>4 DEF StateAfter
  <2>3. ~connected' => hungUp' \/ IsGarbled' \/ clientState' = "None"
    BY <1>3, <1>5, <2>1, <2>2
  <2>4. WorkerInv(ms)'
    BY <1>1, <1>5, <2>3, WorkersRest
  <2> QED  BY <1>4, <2>1, <2>4
<1>6. ASSUME NEW p, packets' = Append(packets, p), incoming' = Append(incoming, p),
             UNCHANGED <<clientState, stream, sent, hungUp, state, received, connected>>
      PROVE  MessagesInv'
  <2>1. ClientInv(ms)'
    BY <1>1, <1>6, ClientRests
  <2>2. WorkerInv(ms)'
    BY <1>1, <1>2, <1>6, PacketQueued
  <2> QED  BY <1>4, <2>1, <2>2
<1> USE DEF clientVars, readVars, workVars
<1>7. ASSUME NEW m \in ClientMessages, Send(m) PROVE MessagesInv'
  <2>1. Append(ms, m) \in Seq(ClientMessages)
    BY <1>1, AppendProperties
  <2>2. ClientInv(Append(ms, m))'
    BY <1>1, <1>2, <1>7, MessageSent
  <2>3. WorkerInv(Append(ms, m))'
    BY <1>1, <1>7, WorkersGoOn
  <2>4. PICK new : new = Append(ms, m)
    OBVIOUS
  <2>5. new \in Seq(ClientMessages) /\ ClientInv(new)' /\ WorkerInv(new)'
    BY <2>1, <2>2, <2>3, <2>4
  <2> QED  BY <2>5 DEF MessagesInv
<1>8. CASE SendGarbage
  <2>1. PICK g \in Garbage : stream' = stream \o g
    BY <1>8 DEF SendGarbage
  <2>2. g \in Seq(Byte)
    BY ValuesAssumption
  <2>3. /\ UNCHANGED <<clientState, sent, packets, incoming, state, received, hungUp, connected>>
    BY <1>8 DEF SendGarbage
  <2>4. ClientInv(ms)' /\ (IsGarbled => IsGarbled')
    BY <1>1, <1>2, <2>1, <2>2, <2>3, ClientStays
  <2>5. ~connected' => hungUp' \/ IsGarbled' \/ clientState' = "None"
    BY <1>3, <2>3, <2>4
  <2>6. WorkerInv(ms)'
    BY <1>1, <2>3, <2>5, WorkersRest
  <2> QED  BY <1>4, <2>4, <2>6
<1>9. CASE HangUp
  BY <1>5, <1>9 DEF HangUp
<1>10. CASE VarintContinues
  BY <1>5, <1>10 DEF VarintContinues
<1>11. CASE SizeIsRead
  BY <1>5, <1>11 DEF SizeIsRead
<1>12. CASE IdIsRead
  <2>1. UNCHANGED <<clientState, stream, sent, hungUp, state, received, connected>>
    BY <1>12 DEF IdIsRead
  <2>2. CASE UNCHANGED <<packets, incoming>>
    BY <1>5, <2>1, <2>2
  <2>3. CASE Deliver(VarintValue, reader.size, <<>>)
    <3>1. PICK p : packets' = Append(packets, p) /\ incoming' = Append(incoming, p)
      BY <2>3 DEF Deliver
    <3> QED  BY <1>6, <2>1, <3>1
  <2> QED  BY <1>12, <2>2, <2>3 DEF IdIsRead
<1>13. CASE ReadBody
  <2>1. UNCHANGED <<clientState, stream, sent, hungUp, state, received, connected>>
    BY <1>13 DEF ReadBody
  <2>2. CASE UNCHANGED <<packets, incoming>>
    BY <1>5, <2>1, <2>2
  <2>3. ASSUME NEW data, Deliver(reader.id, reader.size, data) PROVE MessagesInv'
    <3>1. PICK p : packets' = Append(packets, p) /\ incoming' = Append(incoming, p)
      BY <2>3 DEF Deliver
    <3> QED  BY <1>6, <2>1, <3>1
  <2> QED  BY <1>13, <2>2, <2>3 DEF ReadBody
<1>14. CASE ReadFails
  <2>1. hungUp \/ IsGarbled
    BY <1>1, <1>14, MessagesAreRead
  <2>2. UNCHANGED <<clientState, stream, sent, packets, incoming, state, received, hungUp>>
    BY <1>14 DEF ReadFails
  <2> QED  BY <1>5, <2>1, <2>2
<1>15. CASE HandlePacket
  <2>1. UNCHANGED <<clientState, stream, sent>>
    BY <1>15 DEF HandlePacket
  <2>2. ClientInv(ms)'
    BY <1>1, <2>1, ClientRests
  <2>3. WorkerInv(ms)'
    BY <1>1, <1>15, HandlerStep
  <2> QED  BY <1>4, <2>2, <2>3
<1>16. CASE SendReply
  BY <1>5, <1>16 DEF SendReply
<1>17. CASE UNCHANGED vars
  BY <1>5, <1>17 DEF vars
<1> QED
  BY <1>7, <1>8, <1>9, <1>10, <1>11, <1>12, <1>13, <1>14, <1>15, <1>16, <1>17
  DEF Next, Receive

(* which holds therefore of every state: the workers have read the messages*)
(* of the client, each in the state it is for, and nothing else before the *)
(* stream was broken.                                                      *)
THEOREM MessagesHold ==
    ASSUME IsReadable
    PROVE  Spec => []MessagesInv
<1>1. Init => MessagesInv
  BY MessagesInit
<1>2. IInv /\ IInv' /\ MessagesInv /\ [Next]_vars => MessagesInv'
  BY MessagesStep
<1> QED  BY <1>1, <1>2, InvariantHolds, PTL DEF Spec

(* The packets that the constructor of Packet makes of a client's messages *)
(* reach the handlers one by one, each read as it was written, whatever    *)
(* the pieces are in which the bytes arrive.                               *)
THEOREM MessagesAreReadAsSent ==
    ASSUME IsReadable
    PROVE  Spec => []HandlersReadWhatWasSent
<1>1. MessagesInv => HandlersReadWhatWasSent
  <2> SUFFICES ASSUME MessagesInv, NEW i \in DOMAIN received
               PROVE  IF i \in DOMAIN sent THEN received[i] = sent[i]
                      ELSE received[i].at > Clean
    BY DEF HandlersReadWhatWasSent
  <2>1. PICK ms \in Seq(ClientMessages) : ClientInv(ms) /\ WorkerInv(ms)
    BY DEF MessagesInv
  <2>2. DOMAIN received = 1..Len(received) /\ Len(received) \in Nat
    BY <2>1, LenProperties DEF WorkerInv
  <2>3. DOMAIN sent = 1..Len(sent) /\ Len(sent) \in Nat
    BY <2>1, LenProperties DEF ClientInv
  <2>4. i \in DOMAIN sent <=> i <= Len(sent)
    BY <2>2, <2>3
  <2> QED  BY <2>1, <2>2, <2>4 DEF WorkerInv
<1> QED  BY <1>1, MessagesHold, PTL

(* As long as the client writes messages, in an order of the protocol, the *)
(* server neither gives up reading nor takes a packet for another: only    *)
(* the client's end, other bytes or a pong's end the connection.           *)
THEOREM MessagesKeepConnections ==
    ASSUME IsReadable
    PROVE  Spec => []OnlyBrokenStreamsAreClosed
<1>1. MessagesInv => OnlyBrokenStreamsAreClosed
  BY DEF MessagesInv, WorkerInv, OnlyBrokenStreamsAreClosed
<1> QED  BY <1>1, MessagesHold, PTL

-----------------------------------------------------------------------------
(* What the server writes is what the client would: numbers.               *)

(* The numbers that are written are those of an int that are not negative. *)
LEMMA NaturalInts ==
    ASSUME NEW v \in 0..MaxInt
    PROVE  /\ v \in Nat /\ v \in 0..(2^Width - 1) /\ (v % 2^Width) = v /\ MaxInt \in Nat
           /\ 2^Group \in Nat \ {0}
<1> DEFINE M == 2^Width
<1>1. M \in Nat \ {0} /\ MaxInt \in Nat /\ MaxInt <= M - 1 /\ 2^Group \in Nat \ {0}
  BY Halves, WidthsAssumption DEF MaxInt
<1>2. v \in Nat /\ v \in 0..(M - 1)
  BY <1>1
<1> HIDE DEF M
<1>3. v % M = v
  BY <1>1, <1>2, SmallRemainder
<1> QED  BY <1>1, <1>2, <1>3 DEF M

\* So many bytes are the fewest for a number.
IsShortest(v, n) ==
    /\ n \in 1..Width /\ v < 2^(Group * n)
    /\ \A k \in 1..(n - 1) : v >= 2^(Group * k)

(* The client writes the fewest,                                           *)
LEMMA ShortestIs ==
    ASSUME NEW v \in 0..MaxInt
    PROVE  IsShortest(v, ShortestVarInt(v))
<1>1. v \in Int /\ (v % 2^Width) = v
  BY NaturalInts
<1> QED  BY <1>1, ShortestProperties DEF IsShortest

(* of which there is one number.                                           *)
LEMMA ShortestIsUnique ==
    ASSUME NEW v \in Nat, NEW n, IsShortest(v, n), NEW m, IsShortest(v, m)
    PROVE  n = m
<1>1. n \in 1..Width /\ m \in 1..Width /\ n \in Int /\ m \in Int
  BY WidthsAssumption DEF IsShortest
<1>2. 2^(Group * n) \in Nat /\ 2^(Group * m) \in Nat
  <2>1. n \in 0..Width /\ m \in 0..Width
    BY <1>1, WidthsAssumption
  <2>2. Group * n \in 0..(Group * Width) /\ Group * m \in 0..(Group * Width)
    BY <2>1, Places
  <2> QED  BY <2>2, Powers
<1>3. ~(n < m)
  <2> SUFFICES ASSUME n < m PROVE FALSE
    OBVIOUS
  <2>1. n \in 1..(m - 1)
    BY <1>1
  <2>2. v >= 2^(Group * n) /\ v < 2^(Group * n)
    BY <2>1 DEF IsShortest
  <2> QED  BY <1>2, <2>2
<1>4. ~(m < n)
  <2> SUFFICES ASSUME m < n PROVE FALSE
    OBVIOUS
  <2>1. m \in 1..(n - 1)
    BY <1>1
  <2>2. v >= 2^(Group * m) /\ v < 2^(Group * m)
    BY <2>1 DEF IsShortest
  <2> QED  BY <1>2, <2>2
<1> QED  BY <1>1, <1>3, <1>4

(* The server counts the same number.                                      *)
LEMMA getVarintSizeIs ==
    ASSUME NEW v \in 0..MaxInt
    PROVE  getVarintSize(v) = ShortestVarInt(v)
<1> DEFINE Fits(n) == v < 2^(Group * n) /\ (n > 1 => v >= 2^(Group * (n - 1)))
           s == ShortestVarInt(v)
           n == CHOOSE k \in 1..Width : Fits(k)
<1>1. v \in Nat /\ IsShortest(v, s)
  BY NaturalInts, ShortestIs
<1> HIDE DEF s
<1>2. s \in 1..Width /\ Fits(s)
  <2>1. s \in 1..Width /\ v < 2^(Group * s)
    BY <1>1 DEF IsShortest
  <2>2. ASSUME s > 1 PROVE v >= 2^(Group * (s - 1))
    <3>1. s - 1 \in 1..(s - 1)
      BY <2>1, <2>2
    <3> QED  BY <1>1, <3>1 DEF IsShortest
  <2> QED  BY <2>1, <2>2
<1>3. n \in 1..Width /\ Fits(n)
  <2> HIDE DEF Fits
  <2> QED  BY <1>2
<1>4. getVarintSize(v) = n
  BY DEF getVarintSize
<1> HIDE DEF n
<1>5. IsShortest(v, n)
  <2> SUFFICES ASSUME NEW k \in 1..(n - 1) PROVE v >= 2^(Group * k)
    BY <1>3 DEF IsShortest
  <2>1. v >= 2^(Group * (n - 1))
    BY <1>3, WidthsAssumption
  <2> DEFINE a == Group * k
             b == Group * (n - 1)
  <2>2. a \in 0..(Group * Width) /\ b \in 0..(Group * Width)
    <3>1. k \in 0..Width /\ n - 1 \in 0..Width
      BY <1>3, WidthsAssumption
    <3> QED  BY <3>1, Places
  <2>3. a <= b
    <3>1. k \in Int /\ n - 1 \in Int /\ k <= n - 1
      BY <1>3
    <3> QED  BY <3>1, WidthsAssumption
  <2> HIDE DEF a, b
  <2>4. b \in a..(Group * Width)
    BY <2>2, <2>3, WidthsAssumption
  <2>5. 2^a <= 2^b /\ 2^a \in Nat /\ 2^b \in Nat
    BY <2>2, <2>4, PowersGrow, Powers
  <2>6. v >= 2^b
    BY <2>1 DEF b
  <2>7. v >= 2^a
    BY <1>1, <2>5, <2>6
  <2> QED  BY <2>7 DEF a
<1> QED  BY <1>1, <1>4, <1>5, ShortestIsUnique DEF s

(* A number of one digit is written as it is.                              *)
LEMMA OneDigit ==
    ASSUME NEW v \in 0..MaxInt, v < 2^Group
    PROVE  ClientVarInt(v) = <<v>>
<1>1. v \in Nat /\ (v % 2^Width) = v /\ 2^Group \in Nat \ {0}
  BY NaturalInts
<1>2. IsShortest(v, 1)
  <2>1. Group * 1 = Group /\ 1 \in 1..Width /\ 1..(1 - 1) = {}
    BY WidthsAssumption
  <2> QED  BY <2>1 DEF IsShortest
<1>3. ShortestVarInt(v) = 1
  BY <1>1, <1>2, ShortestIs, ShortestIsUnique
<1>4. (v \div 1) % 2^Group = v
  <2>1. v \div 1 = v
    <3>1. v = 1 * v + 0 /\ 0 \in 0..(1 - 1) /\ 1 \in Nat \ {0} /\ v \in Int
      BY <1>1
    <3> QED  BY <3>1, RemainderIsUnique
  <2> DEFINE w == 2^Group
  <2>2. w \in Nat \ {0} /\ v \in 0..(w - 1)
    BY <1>1
  <2> HIDE DEF w
  <2>3. v % w = v
    BY <2>2, SmallRemainder
  <2> QED  BY <2>1, <2>3 DEF w
<1>5. Padded(v, 1) = [i \in 1..1 |-> v]
  <2> DEFINE byte(i) == (((v % 2^Width) \div 2^(Group * (i - 1))) % 2^Group)
                        + (IF i < 1 THEN 2^Group ELSE 0)
  <2>1. \A i \in 1..1 : byte(i) = v
    <3>1. Group * (1 - 1) = 0 /\ 2^0 = 1
      BY PowersAssumption, WidthsAssumption
    <3>2. ((v \div 2^(Group * (1 - 1))) % 2^Group) = v
      BY <1>4, <3>1
    <3>3. byte(1) = v + 0
      BY <1>1, <3>2
    <3> HIDE DEF byte
    <3>4. \A i \in 1..1 : i = 1
      OBVIOUS
    <3> QED  BY <1>1, <3>3, <3>4
  <2>2. Padded(v, 1) = [i \in 1..1 |-> byte(i)]
    BY DEF Padded
  <2> HIDE DEF byte
  <2> QED  BY <2>1, <2>2
<1>6. [i \in 1..1 |-> v] = <<v>>
  OBVIOUS
<1> QED  BY <1>3, <1>5, <1>6 DEF ClientVarInt

(* Dividing in two steps is dividing by the product.                       *)
LEMMA QuotientOfQuotient ==
    ASSUME NEW v \in Nat, NEW p \in Nat \ {0}, NEW q \in Nat \ {0}
    PROVE  (v \div q) \div p = v \div (p * q)
<1> DEFINE a == v \div q
           r == v % q
           b == a \div p
           s == a % p
           t == q * s + r
<1>1. a \in Int /\ r \in 0..(q - 1) /\ v = q * a + r
  BY Remainder
<1> HIDE DEF a, r
<1>2. b \in Int /\ s \in 0..(p - 1) /\ a = p * b + s
  BY <1>1, Remainder
<1> HIDE DEF b, s
<1>3. v = (p * q) * b + t
  <2>1. q * a = q * (p * b) + q * s
    BY <1>1, <1>2
  <2>2. q * (p * b) = (p * q) * b
    BY <1>2
  <2>3. q * s \in Int /\ (p * q) * b \in Int
    BY <1>2
  <2> QED  BY <1>1, <2>1, <2>2, <2>3
<1>4. t \in 0..((p * q) - 1)
  <2>1. q * s <= q * (p - 1) /\ q * s >= 0 /\ q * s \in Int
    BY <1>2
  <2>2. q * (p - 1) = p * q - q /\ p * q \in Int
    OBVIOUS
  <2> QED  BY <1>1, <2>1, <2>2
<1>5. p * q \in Nat \ {0}
  OBVIOUS
<1>6. v \div (p * q) = b
  <2> DEFINE m == p * q
  <2> HIDE DEF m, t
  <2>1. m \in Nat \ {0} /\ t \in 0..(m - 1) /\ v = m * b + t /\ v \in Int
    BY <1>3, <1>4, <1>5 DEF m
  <2>2. v \div m = b
    BY <1>2, <2>1, RemainderIsUnique
  <2> QED  BY <2>2 DEF m
<1> QED  BY <1>6 DEF a, b

(* The weight of the next digit.                                           *)
LEMMA NextPlace ==
    ASSUME NEW k \in 0..(Width - 1)
    PROVE  /\ 2^(Group * (k + 1)) = 2^(Group * k) * 2^Group
           /\ 2^(Group * k) \in Nat \ {0} /\ 2^(Group * (k + 1)) \in Nat
<1> DEFINE a == Group * k
           b == Group * (k + 1)
<1>1. /\ a \in 0..(Group * Width) /\ b \in 0..(Group * Width)
  <2>1. k \in 0..Width /\ k + 1 \in 0..Width
    BY WidthsAssumption
  <2> QED  BY <2>1, Places
<1>2. b = a + Group
  BY WidthsAssumption
<1> HIDE DEF a, b
<1>3. Group \in 0..(Group * Width - a)
  BY <1>1, <1>2, WidthsAssumption
<1>4. 2^(a + Group) = 2^a * 2^Group
  BY <1>1, <1>3, PowerOfSum
<1>5. 2^a \in Nat /\ a < 2^a /\ 2^b \in Nat
  BY <1>1, Powers
<1>6. 2^a \in Nat \ {0}
  BY <1>1, <1>5
<1> QED  BY <1>2, <1>4, <1>5, <1>6 DEF a, b

(* Without its lowest digit a number is one digit shorter.                 *)
LEMMA DigitLess ==
    ASSUME NEW v \in 0..MaxInt, v >= 2^Group, NEW u, u = v \div 2^Group,
           NEW n, n = ShortestVarInt(v)
    PROVE  n \in 2..Width /\ IsShortest(u, n - 1) /\ u \in 0..MaxInt /\ u < v
<1> DEFINE w == 2^Group
<1>1. v \in Nat /\ w \in Nat \ {0} /\ MaxInt \in Nat /\ IsShortest(v, n) /\ w >= 2
  <2>1. Group < w
    <3>1. Group \in 0..(Group * Width)
      BY WidthsAssumption
    <3> QED  BY <3>1, Powers
  <2> QED  BY <2>1, NaturalInts, ShortestIs, WidthsAssumption
<1>2. n \in 2..Width
  <2>1. n \in 1..Width
    BY <1>1 DEF IsShortest
  <2>2. n # 1
    <3> SUFFICES ASSUME n = 1 PROVE FALSE
      OBVIOUS
    <3>1. Group * 1 = Group
      BY WidthsAssumption
    <3>2. v < 2^Group
      BY <1>1, <3>1 DEF IsShortest
    <3> QED  BY <1>1, <3>2
  <2> QED  BY <2>1, <2>2, WidthsAssumption
<1>3. u \in Nat /\ (v % w) \in 0..(w - 1) /\ v = w * u + (v % w) /\ u < v
  <2> DEFINE r == v % w
  <2>1. u \in Int /\ r \in 0..(w - 1) /\ v = w * u + r
    <3>1. u = v \div w
      OBVIOUS
    <3> HIDE DEF w
    <3>2. v \div w \in Int /\ v % w \in 0..(w - 1) /\ v = w * (v \div w) + (v % w)
      BY <1>1, Remainder
    <3> QED  BY <3>1, <3>2
  <2> HIDE DEF r
  <2>2. u >= 0
    <3> SUFFICES ASSUME u <= -1 PROVE FALSE
      BY <2>1
    <3>1. w * u <= w * (-1)
      BY <1>1, <2>1
    <3> QED  BY <1>1, <2>1, <3>1
  <2>3. w * u >= 2 * u /\ w * u \in Int
    BY <1>1, <2>1, <2>2
  <2>4. u < v
    <3>1. CASE u = 0
      BY <1>1, <2>1, <3>1 DEF w
    <3>2. CASE u # 0
      BY <1>1, <2>1, <2>2, <2>3, <3>2
    <3> QED  BY <3>1, <3>2
  <2> QED  BY <2>1, <2>2, <2>4 DEF r
<1>4. u < 2^(Group * (n - 1))
  <2> DEFINE P == 2^(Group * (n - 1))
  <2>1. n - 1 \in 0..(Width - 1) /\ (n - 1) + 1 = n
    BY <1>2, WidthsAssumption
  <2>2. 2^(Group * n) = P * w /\ P \in Nat \ {0}
    BY <2>1, NextPlace
  <2>3. v < P * w
    BY <1>1, <2>2 DEF IsShortest
  <2> HIDE DEF P
  <2>4. u \in 0..(P - 1)
    <3> HIDE DEF w
    <3>1. v \div w \in 0..(P - 1)
      BY <1>1, <2>2, <2>3, QuotientBound
    <3> QED  BY <3>1 DEF w
  <2>5. u < P
    BY <2>2, <2>4
  <2> QED  BY <2>5 DEF P
<1>5. ASSUME NEW k \in 1..((n - 1) - 1)
      PROVE  u >= 2^(Group * k)
  <2> DEFINE P == 2^(Group * k)
             r == v % w
  <2>1. k \in 0..(Width - 1) /\ k + 1 \in 1..(n - 1)
    BY <1>2, WidthsAssumption
  <2>2. 2^(Group * (k + 1)) = P * w /\ P \in Nat \ {0}
    BY <2>1, NextPlace
  <2>3. v >= P * w
    BY <1>1, <2>1, <2>2 DEF IsShortest
  <2> HIDE DEF P
  <2>4. ~(u < P)
    <3> SUFFICES ASSUME u <= P - 1 PROVE FALSE
      BY <1>3, <2>2
    <3> HIDE DEF w, r
    <3>1. r \in 0..(w - 1) /\ v = w * u + r
      BY <1>3 DEF r
    <3>2. w * u <= w * (P - 1) /\ w * (P - 1) = P * w - w /\ P * w \in Int /\ w * u \in Int
      BY <1>1, <1>3, <2>2
    <3> QED  BY <1>1, <2>3, <3>1, <3>2
  <2>5. u >= P
    BY <1>3, <2>2, <2>4
  <2> QED  BY <2>5 DEF P
<1>6. IsShortest(u, n - 1)
  <2>1. n - 1 \in 1..Width
    BY <1>2, WidthsAssumption
  <2> QED  BY <1>4, <1>5, <2>1 DEF IsShortest
<1>7. u \in 0..MaxInt
  BY <1>1, <1>3
<1> QED  BY <1>2, <1>3, <1>6, <1>7

(* It is written with that digit first, which announces the others.        *)
LEMMA MoreDigits ==
    ASSUME NEW v \in 0..MaxInt, v >= 2^Group
    PROVE  ClientVarInt(v) = <<Digit(v) + 2^Group>> \o ClientVarInt(v \div 2^Group)
<1> DEFINE w == 2^Group
           u == v \div w
           n == ShortestVarInt(v)
           whole == Padded(v, n)
           rest == Padded(u, n - 1)
           first == <<Digit(v) + w>>
<1>1. n \in 2..Width /\ IsShortest(u, n - 1) /\ u \in 0..MaxInt
  BY DigitLess
<1>2. /\ u \in Nat /\ v \in Nat /\ w \in Nat \ {0}
      /\ (u % 2^Width) = u /\ (v % 2^Width) = v
  BY <1>1, NaturalInts
<1>3. ShortestVarInt(u) = n - 1
  <2> HIDE DEF u, n
  <2> QED  BY <1>1, <1>2, ShortestIs, ShortestIsUnique
<1> HIDE DEF n
<1>4. ClientVarInt(v) = whole /\ ClientVarInt(u) = rest
  BY <1>3 DEF ClientVarInt, n
<1>5. /\ whole \in Seq(Byte) /\ Len(whole) = n /\ rest \in Seq(Byte) /\ Len(rest) = n - 1
      /\ n \in Nat
  <2>1. n \in 0..(Width + 1) /\ n - 1 \in 0..(Width + 1) /\ n \in Nat
    BY <1>1, WidthsAssumption
  <2> HIDE DEF u
  <2> QED  BY <1>2, <2>1, PaddedType
<1> DEFINE byte(x, m, i) == (((x % 2^Width) \div 2^(Group * (i - 1))) % w)
                            + (IF i < m THEN w ELSE 0)
<1>6. /\ \A i \in 1..n : whole[i] = byte(v, n, i)
      /\ \A i \in 1..(n - 1) : rest[i] = byte(u, n - 1, i)
  <2> HIDE DEF u
  <2> QED  BY DEF Padded
<1> HIDE DEF whole, rest
<1>7. whole[1] = Digit(v) + w
  <2>1. Group * (1 - 1) = 0 /\ 2^0 = 1 /\ 1 \in 1..n /\ 1 < n
    BY <1>1, PowersAssumption, WidthsAssumption
  <2>2. v \div 1 = v
    <3>1. v = 1 * v + 0 /\ 0 \in 0..(1 - 1) /\ 1 \in Nat \ {0} /\ v \in Int
      BY <1>2
    <3> QED  BY <3>1, RemainderIsUnique
  <2>3. byte(v, n, 1) = (v % w) + w
    BY <1>2, <2>1, <2>2
  <2> HIDE DEF byte
  <2> QED  BY <1>6, <2>1, <2>3 DEF Digit
<1>8. ASSUME NEW i \in 1..(n - 1)
      PROVE  whole[i + 1] = rest[i]
  <2> DEFINE p == 2^(Group * (i - 1))
  <2>1. i - 1 \in 0..(Width - 1) /\ (i - 1) + 1 = i /\ (i + 1) - 1 = i /\ i + 1 \in 1..n
        /\ (i + 1 < n <=> i < n - 1)
    BY <1>1, WidthsAssumption
  <2>2. 2^(Group * i) = p * w /\ p \in Nat \ {0}
    BY <2>1, NextPlace
  <2>3. v \div 2^(Group * i) = u \div p
    <3> HIDE DEF p, w
    <3>1. (v \div w) \div p = v \div (p * w)
      BY <1>2, <2>2, QuotientOfQuotient
    <3> QED  BY <2>2, <3>1
  <2>4. byte(v, n, i + 1) = byte(u, n - 1, i)
    <3> HIDE DEF u, w
    <3> QED  BY <1>2, <2>1, <2>3
  <2> HIDE DEF byte
  <2> QED  BY <1>6, <2>1, <2>4
<1>9. whole = first \o rest
  <2> DEFINE joined == first \o rest
  <2>1. first \in Seq(Int) /\ Len(first) = 1 /\ first[1] = Digit(v) + w /\ rest \in Seq(Int)
        /\ whole \in Seq(Int)
    <3>1. Digit(v) \in Nat
      BY <1>2, DigitType
    <3> QED  BY <1>2, <1>5, <3>1, BytesAreInts
  <2> HIDE DEF first
  <2>2. /\ joined \in Seq(Int) /\ Len(joined) = n
        /\ \A i \in 1..n : joined[i] = IF i <= 1 THEN first[i] ELSE rest[i - 1]
    <3>1. /\ joined \in Seq(Int) /\ Len(joined) = Len(first) + Len(rest)
          /\ \A i \in 1..(Len(first) + Len(rest)) :
                 joined[i] = IF i <= Len(first) THEN first[i] ELSE rest[i - Len(first)]
      BY <2>1, ConcatProperties
    <3>2. Len(first) + Len(rest) = n
      BY <1>5, <2>1
    <3> HIDE DEF joined
    <3> QED  BY <2>1, <3>1, <3>2
  <2> HIDE DEF joined
  <2>3. ASSUME NEW i \in 1..n PROVE whole[i] = joined[i]
    <3>1. CASE i = 1
      BY <1>7, <2>1, <2>2, <3>1
    <3>2. CASE i # 1
      <4>1. i - 1 \in 1..(n - 1) /\ (i - 1) + 1 = i /\ ~(i <= 1)
        BY <1>5, <3>2
      <4>2. whole[(i - 1) + 1] = rest[i - 1]
        BY <1>8, <4>1
      <4> QED  BY <2>2, <4>1, <4>2
    <3> QED  BY <3>1, <3>2
  <2> QED  BY <1>5, <2>1, <2>2, <2>3, SeqEqual DEF joined
<1> QED  BY <1>4, <1>9

(* So the server's VarInts are those of a client.                          *)
LEMMA writeVarIntIs ==
    ASSUME NEW v \in 0..MaxInt
    PROVE  writeVarInt(v) = ClientVarInt(v)
<1> DEFINE N == MaxInt
           w == 2^Group
           bytes[x \in 0..N] ==
               IF x < w THEN <<x>> ELSE <<Digit(x) + w>> \o bytes[x \div w]
           IsBytes(f) ==
               f = [x \in 0..N |->
                        IF x < w THEN <<x>> ELSE <<Digit(x) + w>> \o f[x \div w]]
           g == [x \in 0..N |-> ClientVarInt(x)]
<1>1. /\ N \in Nat /\ w \in Nat \ {0}
      /\ \A x \in 0..N : x >= w => x \div w \in 0..N /\ x \div w < x
  <2>1. N \in Nat /\ w \in Nat \ {0}
    BY NaturalInts
  <2>2. ASSUME NEW x \in 0..MaxInt, x >= 2^Group
        PROVE  x \div 2^Group \in 0..MaxInt /\ x \div 2^Group < x
    BY <2>2, DigitLess
  <2> QED  BY <2>1, <2>2
<1>2. \A x \in 0..N : ClientVarInt(x) = IF x < w THEN <<x>>
                                        ELSE <<Digit(x) + w>> \o ClientVarInt(x \div w)
  <2> SUFFICES ASSUME NEW x \in 0..N
               PROVE  ClientVarInt(x) = IF x < w THEN <<x>>
                                        ELSE <<Digit(x) + w>> \o ClientVarInt(x \div w)
    OBVIOUS
  <2>1. CASE x < w
    <3>1. ClientVarInt(x) = <<x>>
      BY <2>1, OneDigit
    <3> QED  BY <2>1, <3>1
  <2>2. CASE ~(x < w)
    <3>1. x >= 2^Group
      BY <1>1, <2>2
    <3>2. ClientVarInt(x) = <<Digit(x) + 2^Group>> \o ClientVarInt(x \div 2^Group)
      BY <3>1, MoreDigits
    <3> QED  BY <2>2, <3>2
  <2> QED  BY <2>1, <2>2
<1>3. writeVarInt(v) = bytes[v]
  BY DEF writeVarInt
<1> HIDE DEF w, N
<1>4. IsBytes(g)
  <2>1. \A x \in 0..N : ~(x < w) => g[x \div w] = ClientVarInt(x \div w)
    BY <1>1
  <2> DEFINE step(f, x) == IF x < w THEN <<x>> ELSE <<Digit(x) + w>> \o f[x \div w]
  <2>2. \A x \in 0..N : ClientVarInt(x) = step(g, x)
    <3> HIDE DEF g
    <3> QED  BY <1>2, <2>1
  <2> HIDE DEF step
  <2>3. g = [x \in 0..N |-> step(g, x)]
    BY <2>2
  <2> HIDE DEF g
  <2> QED  BY <2>3 DEF step
<1>5. IsBytes(bytes)
  <2> HIDE DEF g
  <2> QED  BY <1>4
<1>6. \A x \in 0..N :
          bytes[x] = IF x < w THEN <<x>> ELSE <<Digit(x) + w>> \o bytes[x \div w]
  <2> HIDE DEF bytes
  <2> QED  BY <1>5
<1> HIDE DEF bytes
<1> DEFINE T == {x \in 0..N : bytes[x] # ClientVarInt(x)}
<1>7. T = {}
  <2> SUFFICES ASSUME T # {} PROVE FALSE
    OBVIOUS
  <2>1. T \subseteq Nat
    BY <1>1
  <2>2. PICK x \in T : \A y \in T : x <= y
    <3> HIDE DEF T
    <3> QED  BY <2>1, LeastNumber
  <2>3. x \in 0..N /\ bytes[x] # ClientVarInt(x)
    OBVIOUS
  <2>4. ~(x < w)
    BY <1>2, <1>6, <2>3
  <2>5. x \div w \in 0..N /\ x \div w < x
    BY <1>1, <2>3, <2>4
  <2>6. x \div w \notin T
    <3> DEFINE y == x \div w
    <3> HIDE DEF y, T
    <3> QED  BY <1>1, <2>2, <2>3, <2>5 DEF y
  <2>7. bytes[x \div w] = ClientVarInt(x \div w)
    BY <2>5, <2>6
  <2> QED  BY <1>2, <1>6, <2>3, <2>4, <2>7
<1>8. v \in 0..N
  BY DEF N
<1> QED  BY <1>3, <1>7, <1>8

(* A digit of a number is that of the remainder that has it as its first.  *)
LEMMA DigitOfQuotient ==
    ASSUME NEW v \in Int, NEW b \in Nat \ {0}, NEW p \in Nat \ {0}
    PROVE  ((v % (b * p)) \div p) = ((v \div p) % b)
<1> DEFINE q == v \div p
           r == v % p
           s == q \div b
           d == q % b
           t == p * d + r
           m == b * p
<1>1. q \in Int /\ r \in 0..(p - 1) /\ v = p * q + r
  BY Remainder
<1> HIDE DEF q, r
<1>2. s \in Int /\ d \in 0..(b - 1) /\ q = b * s + d
  BY <1>1, Remainder
<1> HIDE DEF s, d
<1>3. m \in Nat \ {0} /\ p * d \in Int /\ m * s \in Int
  BY <1>2
<1>4. v = m * s + t
  <2>1. p * q = p * (b * s) + p * d
    BY <1>1, <1>2
  <2>2. p * (b * s) = m * s
    BY <1>2
  <2> QED  BY <1>1, <1>2, <1>3, <2>1, <2>2
<1>5. t \in 0..(m - 1)
  <2>1. p * d <= p * (b - 1) /\ p * d >= 0
    BY <1>2
  <2>2. p * (b - 1) = m - p
    OBVIOUS
  <2> QED  BY <1>1, <1>3, <2>1, <2>2
<1>6. v % m = t
  <2> HIDE DEF m, t
  <2> QED  BY <1>2, <1>3, <1>4, <1>5, RemainderIsUnique
<1>7. t \div p = d
  <2>1. t = p * d + r /\ t \in Int /\ d \in Int
    BY <1>1, <1>2, <1>3
  <2> HIDE DEF t
  <2> QED  BY <1>1, <2>1, RemainderIsUnique
<1>8. (v % m) \div p = d
  <2> HIDE DEF m, t
  <2> QED  BY <1>6, <1>7
<1> QED  BY <1>8 DEF m, d, q

(* The server's longs are those of a client.                               *)
LEMMA writeLongIs ==
    ASSUME NEW v \in Int
    PROVE  writeLong(v) = ClientLong(v)
<1> DEFINE L == LongBytes
<1>1. L \in Nat /\ Base \in Nat \ {0}
  BY Halves, WidthsAssumption
<1>2. ASSUME NEW i \in 1..L
      PROVE  (v % Base^(L - i + 1)) \div Base^(L - i) = (v \div Base^(L - i)) % Base
  <2> DEFINE k == L - i
             p == Base^k
             M == Base^(k + 1)
  <2>1. k \in 0..LongBytes /\ k + 1 \in 1..LongBytes /\ (k + 1) - 1 = k
    BY <1>1
  <2>2. p \in Nat \ {0} /\ M = Base * p
    BY <2>1, BasePowers, PowersAssumption
  <2> DEFINE b == Base
  <2>3. M = b * p /\ b \in Nat \ {0}
    BY <1>1, <2>2
  <2> HIDE DEF M, p, b
  <2>4. ((v % (b * p)) \div p) = ((v \div p) % b)
    BY <2>2, <2>3, DigitOfQuotient
  <2>5. (v % M) \div p = (v \div p) % b
    BY <2>3, <2>4
  <2> QED  BY <2>5 DEF M, p, b
<1>3. ClientLong(v) = [i \in 1..L |-> (v % Base^(L - i + 1)) \div Base^(L - i)]
  BY DEF ClientLong
<1>4. writeLong(v) = [i \in 1..L |-> (v \div Base^(L - i)) % Base]
  BY DEF writeLong, BigEndianBytes
<1> DEFINE x(i) == (v % Base^(L - i + 1)) \div Base^(L - i)
           y(i) == (v \div Base^(L - i)) % Base
<1>5. \A i \in 1..L : x(i) = y(i)
  BY <1>2
<1>6. ClientLong(v) = [i \in 1..L |-> x(i)] /\ writeLong(v) = [i \in 1..L |-> y(i)]
  BY <1>3, <1>4
<1> HIDE DEF x, y, L
<1> QED  BY <1>5, <1>6

-----------------------------------------------------------------------------
(* What the server answers are frames, with the payloads that a client     *)
(* expects.                                                                *)

\* A size that ends at the k-th byte, and as many bytes as it says.
EndsAt(bytes, k) ==
    /\ k \in 1..Len(bytes) /\ Group * (k - 1) < Width
    /\ \A j \in 1..k : More(bytes[j]) <=> j < k
    /\ k + Spelled(SubSeq(bytes, 1, k)) = Len(bytes)

IsFrame(bytes, payload) ==
    /\ bytes \in Seq(Byte) /\ payload \in Seq(Byte)
    /\ \E k \in 1..Len(bytes) :
           EndsAt(bytes, k) /\ SubSeq(bytes, k + 1, Len(bytes)) = payload

(* Sizes that can be written are read again,                               *)
LEMMA SizeProperties ==
    ASSUME NEW v \in 0..MaxInt
    PROVE  /\ ClientVarInt(v) \in Seq(Byte) /\ Len(ClientVarInt(v)) \in 1..Width
           /\ Len(ClientVarInt(v)) = getVarintSize(v)
           /\ Spelled(ClientVarInt(v)) = v /\ Group * (Len(ClientVarInt(v)) - 1) < Width
           /\ \A j \in 1..Len(ClientVarInt(v)) :
                  More(ClientVarInt(v)[j]) <=> j < Len(ClientVarInt(v))
<1> DEFINE n == ShortestVarInt(v)
<1>1. v \in Nat /\ v \in 0..(2^Width - 1) /\ IsShortest(v, n) /\ v \in Int
  BY NaturalInts, ShortestIs
<1>2. n \in 1..Width /\ v < 2^(Group * n) /\ n \in 0..(Width + 1)
  BY <1>1, WidthsAssumption DEF IsShortest
<1>3. ClientVarInt(v) = Padded(v, n)
  BY DEF ClientVarInt
<1>4. getVarintSize(v) = n
  BY getVarintSizeIs
<1> HIDE DEF n
<1>5. Padded(v, n) \in Seq(Byte) /\ Len(Padded(v, n)) = n
  BY <1>1, <1>2, PaddedType
<1>6. Spelled(Padded(v, n)) = v
  BY <1>1, <1>2, PaddedSpells
<1>7. \A j \in 1..n : More(Padded(v, n)[j]) <=> j < n
  BY <1>1, <1>2, PaddedBytes
<1>8. Group * (n - 1) < Width
  <2>1. CASE n = 1
    BY <2>1, WidthsAssumption
  <2>2. CASE n # 1
    <3> DEFINE a == Group * (n - 1)
    <3>1. a \in 0..(Group * Width)
      <4>1. n - 1 \in 0..Width
        BY <1>2, WidthsAssumption
      <4> QED  BY <4>1, Places
    <3>2. v >= 2^a
      <4>1. n - 1 \in 1..(n - 1)
        BY <1>2, <2>2, WidthsAssumption
      <4> QED  BY <1>1, <4>1 DEF IsShortest
    <3>3. MaxInt = 2^(Width - 1) - 1 /\ Width - 1 \in 0..(Group * Width)
          /\ 2^(Width - 1) \in Nat /\ 2^a \in Nat
      <4>1. Width - 1 \in 0..(Group * Width)
        BY WidthsAssumption
      <4> QED  BY <3>1, <4>1, Powers DEF MaxInt
    <3> HIDE DEF a
    <3>4. ~(a >= Width)
      <4> SUFFICES ASSUME a >= Width PROVE FALSE
        OBVIOUS
      <4>1. a \in (Width - 1)..(Group * Width)
        BY <3>1, WidthsAssumption
      <4>2. 2^(Width - 1) <= 2^a
        BY <3>3, <4>1, PowersGrow
      <4> QED  BY <1>1, <3>2, <3>3, <4>2
    <3>5. a < Width
      BY <3>1, <3>4, WidthsAssumption
    <3> QED  BY <3>5 DEF a
  <2> QED  BY <2>1, <2>2
<1> QED  BY <1>2, <1>3, <1>4, <1>5, <1>6, <1>7, <1>8

(* so that they make a frame of what follows.                              *)
LEMMA FrameOf ==
    ASSUME NEW p \in Seq(Byte), Len(p) <= MaxInt
    PROVE  IsFrame(writeVarInt(Len(p)) \o p, p)
<1> DEFINE v == Len(p)
           head == ClientVarInt(v)
           frame == head \o p
           k == Len(head)
<1>1. v \in 0..MaxInt /\ v \in Nat
  BY LenProperties, NaturalInts
<1>2. writeVarInt(v) = head
  BY <1>1, writeVarIntIs
<1>3. /\ head \in Seq(Byte) /\ k \in 1..Width /\ Spelled(head) = v
      /\ Group * (k - 1) < Width /\ \A j \in 1..k : More(head[j]) <=> j < k
  BY <1>1, SizeProperties
<1> HIDE DEF head
<1>4. /\ frame \in Seq(Byte) /\ Len(frame) = k + v
      /\ \A j \in 1..k : frame[j] = head[j]
      /\ \A j \in 1..v : frame[k + j] = p[j]
  <2>1. /\ frame \in Seq(Byte) /\ Len(frame) = k + v
        /\ \A j \in 1..(k + v) : frame[j] = IF j <= k THEN head[j] ELSE p[j - k]
    BY <1>3, ConcatProperties
  <2> HIDE DEF frame, v
  <2>2. \A j \in 1..k : j \in 1..(k + v) /\ j <= k
    BY <1>1, <1>3, WidthsAssumption
  <2>3. \A j \in 1..v : k + j \in 1..(k + v) /\ ~(k + j <= k) /\ (k + j) - k = j
    BY <1>1, <1>3, WidthsAssumption
  <2> QED  BY <2>1, <2>2, <2>3
<1> HIDE DEF frame
<1>5. SubSeq(frame, 1, k) = head
  <2> DEFINE t == SubSeq(frame, 0 + 1, k)
  <2>1. 0 \in 0..Len(frame) /\ k \in 0..Len(frame) /\ k - 0 = k /\ 0 + 1 = 1
    BY <1>1, <1>3, <1>4
  <2>2. t \in Seq(Byte) /\ Len(t) = k /\ \A j \in 1..k : t[j] = frame[0 + j]
    <3> HIDE DEF k, v
    <3> QED  BY <1>4, <2>1, Piece
  <2> HIDE DEF t
  <2>3. \A j \in 1..k : t[j] = head[j]
    BY <1>4, <2>2
  <2>4. t = head
    BY <1>3, <2>2, <2>3, SeqEqual
  <2> QED  BY <2>1, <2>4 DEF t
<1>6. SubSeq(frame, k + 1, Len(frame)) = p
  <2> DEFINE b == Len(frame)
             t == SubSeq(frame, k + 1, b)
  <2>1. k \in 0..Len(frame) /\ b \in k..Len(frame) /\ b - k = v
    BY <1>1, <1>3, <1>4
  <2> HIDE DEF k, v, b
  <2>2. t \in Seq(Byte) /\ Len(t) = v /\ \A j \in 1..v : t[j] = frame[k + j]
    BY <1>4, <2>1, Piece
  <2> HIDE DEF t
  <2>3. t = p
    <3>1. \A j \in 1..v : t[j] = p[j]
      BY <1>4, <2>2
    <3> QED  BY <2>2, <3>1, SeqEqual DEF v
  <2> QED  BY <2>3 DEF t, b
<1>7. EndsAt(frame, k)
  <2>1. \A j \in 1..k : More(frame[j]) <=> j < k
    BY <1>3, <1>4
  <2>2. k \in 1..Len(frame)
    BY <1>1, <1>3, <1>4
  <2>3. k + Spelled(SubSeq(frame, 1, k)) = Len(frame)
    BY <1>3, <1>4, <1>5
  <2> QED  BY <1>3, <2>1, <2>2, <2>3 DEF EndsAt
<1>8. IsFrame(frame, p)
  <2>1. k \in 1..Len(frame)
    BY <1>7 DEF EndsAt
  <2> QED  BY <1>4, <1>6, <1>7, <2>1 DEF IsFrame
<1> QED  BY <1>2, <1>8 DEF frame, v

\* Frames, each with its payload.
AreFrames(frames, payloads) ==
    /\ frames \in Seq(Seq(Byte)) /\ payloads \in Seq(Seq(Byte))
    /\ Len(frames) = Len(payloads)
    /\ \A i \in 1..Len(frames) : IsFrame(frames[i], payloads[i])

(* One of them, or none.                                                   *)
LEMMA OneFrame ==
    ASSUME NEW f, NEW p, IsFrame(f, p)
    PROVE  AreFrames(<<f>>, <<p>>)
<1>1. f \in Seq(Byte) /\ p \in Seq(Byte)
  BY DEF IsFrame
<1>2. /\ <<f>> \in Seq(Seq(Byte)) /\ <<p>> \in Seq(Seq(Byte))
      /\ Len(<<f>>) = 1 /\ Len(<<p>>) = 1 /\ <<f>>[1] = f /\ <<p>>[1] = p
  BY <1>1
<1>3. \A i \in 1..1 : i = 1
  OBVIOUS
<1> DEFINE fs == <<f>>
           ps == <<p>>
<1>4. /\ fs \in Seq(Seq(Byte)) /\ ps \in Seq(Seq(Byte)) /\ Len(fs) = 1 /\ Len(ps) = 1
      /\ fs[1] = f /\ ps[1] = p
  BY <1>2
<1> HIDE DEF fs, ps
<1>5. AreFrames(fs, ps)
  BY <1>3, <1>4 DEF AreFrames
<1> QED  BY <1>5 DEF fs, ps

(* No reply is a sequence of frames, too.                                  *)
LEMMA NoFrames == AreFrames(<<>>, <<>>)
<1>1. <<>> \in Seq(Seq(Byte)) /\ Len(<<>>) = 0
  BY EmptySeq
<1> QED  BY <1>1 DEF AreFrames

(* Bytes can be put together in any order.                                 *)
LEMMA BytesAssociate ==
    \A s, t, u \in Seq(Byte) : (s \o t) \o u = s \o (t \o u)
BY ConcatAssociative

(* The ids of the replies are numbers that can be written.                 *)
LEMMA SmallIds ==
    ASSUME IsSendable
    PROVE  /\ {0, 1, 2} \subseteq 0..MaxInt /\ writeVarInt(0) = <<0>>
           /\ Width \in Nat /\ MaxInt \in Nat /\ LongBytes \in Nat /\ MaxName \in Nat
<1>1. Width \in Nat /\ Width >= 2 /\ LongBytes \in Nat /\ MaxName \in Nat
  BY WidthsAssumption, ValuesAssumption
<1>2. MaxInt \in Nat
  BY Halves, WidthsAssumption DEF MaxInt
<1>3. {0, 1, 2} \subseteq 0..MaxInt
  BY <1>1, <1>2 DEF IsSendable
<1>4. writeVarInt(0) = <<0>>
  <2>1. 0 \in 0..MaxInt /\ 2^Group \in Nat \ {0}
    BY <1>3, NaturalInts
  <2>2. 0 < 2^Group
    BY <2>1
  <2> QED  BY <2>1, <2>2, OneDigit, writeVarIntIs
<1> QED  BY <1>1, <1>2, <1>3, <1>4

(* Sized makes a frame of an id and what follows.                          *)
LEMMA SizedIsFrame ==
    ASSUME NEW id \in 0..MaxInt, NEW body \in Seq(Byte), Width + Len(body) <= MaxInt
    PROVE  IsFrame(Sized(id, body), ClientVarInt(id) \o body)
<1> DEFINE head == ClientVarInt(id)
           p == head \o body
           size == writeVarInt(Len(p))
<1>1. head \in Seq(Byte) /\ Len(head) \in 1..Width /\ Len(head) = getVarintSize(id)
  BY SizeProperties
<1>2. writeVarInt(id) = head
  BY writeVarIntIs
<1> HIDE DEF head
<1>3. p \in Seq(Byte) /\ Len(p) = Len(head) + Len(body)
  BY <1>1, BytesAppended
<1>4. Len(p) \in 0..MaxInt
  <2>1. Len(head) \in Nat /\ Len(body) \in Nat /\ Len(head) <= Width /\ Width \in Nat
        /\ MaxInt \in Int
    BY <1>1, LenProperties, WidthsAssumption, Halves DEF MaxInt
  <2> HIDE DEF p
  <2> QED  BY <1>3, <2>1
<1>5. size \in Seq(Byte)
  <2>1. size = ClientVarInt(Len(p))
    <3> HIDE DEF p
    <3> QED  BY <1>4, writeVarIntIs
  <2>2. ClientVarInt(Len(p)) \in Seq(Byte)
    <3> HIDE DEF p
    <3> QED  BY <1>4, SizeProperties
  <2> QED  BY <2>1, <2>2
<1>6. IsFrame(size \o p, p)
  <2> HIDE DEF p
  <2>1. Len(p) <= MaxInt
    BY <1>4, NaturalInts
  <2> QED  BY <1>3, <2>1, FrameOf
<1>7. Sized(id, body) = (size \o head) \o body
  BY <1>1, <1>2, <1>3 DEF Sized
<1> HIDE DEF size
<1>8. (size \o head) \o body = size \o p
  BY <1>1, <1>5, BytesAssociate
<1> QED  BY <1>6, <1>7, <1>8 DEF p, head

(* The status,                                                             *)
LEMMA StatusIsFrame ==
    ASSUME IsSendable
    PROVE  IsFrame(handleStatusPacket, ClientVarInt(0) \o ClientString(Json))
<1> DEFINE text == writeVarInt(Len(Json))
           id == writeVarInt(0)
           body == text \o Json
           n == getVarintSize(0) + getVarintSize(Len(Json)) + Len(Json)
           size == writeVarInt(n)
<1>1. Json \in Seq(Byte) /\ Len(Json) \in 0..MaxInt /\ Width \in Nat /\ 0 \in 0..MaxInt
  <2>1. Json \in Seq(Byte) /\ Len(Json) \in Nat
    BY ValuesAssumption, LenProperties
  <2> QED  BY <2>1, SmallIds DEF IsSendable
<1>2. text = ClientVarInt(Len(Json))
  BY <1>1, writeVarIntIs
<1>3. text \in Seq(Byte) /\ Len(text) \in 1..Width /\ Len(text) = getVarintSize(Len(Json))
  BY <1>1, <1>2, SizeProperties
<1>4. id \in Seq(Byte)
  BY <1>1, SizeProperties, writeVarIntIs
<1>5. body \in Seq(Byte) /\ Len(body) = Len(text) + Len(Json)
  <2> HIDE DEF text
  <2> QED  BY <1>1, <1>3, BytesAppended
<1>6. Width + Len(body) <= MaxInt
  <2>1. Len(Json) + 2 * Width <= MaxInt /\ MaxInt \in Nat
    BY SmallIds DEF IsSendable
  <2> HIDE DEF text, body
  <2> QED  BY <1>1, <1>3, <1>5, <2>1
<1>7. IsFrame(Sized(0, body), ClientVarInt(0) \o body)
  <2> HIDE DEF body
  <2> QED  BY <1>1, <1>5, <1>6, SizedIsFrame
<1>8. n = getVarintSize(0) + Len(body)
  <2>1. getVarintSize(0) = Len(ClientVarInt(0)) /\ Len(ClientVarInt(0)) \in 1..Width
    BY <1>1, SizeProperties
  <2> HIDE DEF text, body
  <2> QED  BY <1>1, <1>3, <1>5, <2>1
<1>9. size \in Seq(Byte)
  <2>1. n \in 0..MaxInt
    <3>1. getVarintSize(0) = Len(ClientVarInt(0)) /\ Len(ClientVarInt(0)) \in 1..Width
      BY <1>1, SizeProperties
    <3>2. Len(body) \in Nat /\ MaxInt \in Nat
      BY <1>5, LenProperties, SmallIds
    <3> HIDE DEF body, n
    <3> QED  BY <1>1, <1>6, <1>8, <3>1, <3>2
  <2> HIDE DEF n
  <2> QED  BY <2>1, SizeProperties, writeVarIntIs
<1>10. handleStatusPacket = ((size \o id) \o text) \o Json
  BY DEF handleStatusPacket
<1>11. Sized(0, body) = (size \o id) \o body
  BY <1>8 DEF Sized
<1> HIDE DEF size, id, text
<1>12. ((size \o id) \o text) \o Json = (size \o id) \o body
  <2> DEFINE front == size \o id
  <2>1. front \in Seq(Byte)
    BY <1>4, <1>9, BytesAppended
  <2> HIDE DEF front
  <2>2. (front \o text) \o Json = front \o (text \o Json)
    BY <1>1, <1>3, <2>1, BytesAssociate
  <2> QED  BY <2>2 DEF front
<1>13. body = ClientString(Json)
  BY <1>2 DEF ClientString
<1> QED  BY <1>7, <1>10, <1>11, <1>12, <1>13

(* the pong                                                                *)
LEMMA PongIsFrame ==
    ASSUME IsSendable, NEW timestamp \in Int
    PROVE  IsFrame(handlePingPacket(timestamp), ClientVarInt(1) \o ClientLong(timestamp))
<1> DEFINE long == ClientLong(timestamp)
<1>1. long \in Seq(Byte) /\ Len(long) = LongBytes /\ writeLong(timestamp) = long
  BY ClientLongType, writeLongIs
<1>2. 1 \in 0..MaxInt /\ Width + LongBytes <= MaxInt
  <2>1. LongBytes + Width <= MaxInt
    BY DEF IsSendable
  <2> QED  BY <2>1, SmallIds
<1>3. handlePingPacket(timestamp) = Sized(1, long)
  BY <1>1 DEF handlePingPacket, Sized
<1> HIDE DEF long
<1>4. IsFrame(Sized(1, long), ClientVarInt(1) \o long)
  BY <1>1, <1>2, SizedIsFrame
<1> QED  BY <1>3, <1>4 DEF long

(* and the end of the login are frames.                                    *)
LEMMA LoginIsFrame ==
    ASSUME IsSendable, NEW username \in Seq(Byte), Len(username) <= MaxName
    PROVE  IsFrame(handleLoginStartPacket(username),
                   ClientVarInt(2) \o Uuid \o ClientString(username) \o <<0>>)
<1> DEFINE id == ClientVarInt(2)
           text == ClientVarInt(Len(username))
           name == text \o username
           zero == <<0>>
           front == Uuid \o name
           body == front \o zero
<1>1. /\ 2 \in 0..MaxInt /\ 0 \in 0..MaxInt /\ writeVarInt(0) = zero
      /\ Uuid \in Seq(Byte) /\ Width \in Nat /\ MaxInt \in Nat /\ MaxName \in Nat
      /\ Len(Uuid) \in Nat /\ Len(username) \in Nat /\ Width >= 1
      /\ Len(Uuid) + MaxName + 3 * Width <= MaxInt
  <2>1. Uuid \in Seq(Byte) /\ Width >= 1
    BY ValuesAssumption, WidthsAssumption
  <2> QED  BY <2>1, SmallIds, LenProperties DEF IsSendable
<1>2. Len(username) \in 0..MaxInt
  BY <1>1
<1>3. writeString(username) = name
  BY <1>2, writeVarIntIs DEF writeString
<1>4. text \in Seq(Byte) /\ Len(text) \in 1..Width
  BY <1>2, SizeProperties
<1>5. id \in Seq(Byte)
  BY <1>1, SizeProperties
<1>6. zero \in Seq(Byte) /\ Len(zero) = 1
  BY SmallBytes, OneByte
<1> HIDE DEF text, id, zero
<1>7. name \in Seq(Byte) /\ Len(name) = Len(text) + Len(username)
  BY <1>4, BytesAppended
<1> HIDE DEF name
<1>8. front \in Seq(Byte) /\ Len(front) = Len(Uuid) + Len(name)
  BY <1>1, <1>7, BytesAppended
<1> HIDE DEF front
<1>9. body \in Seq(Byte) /\ Len(body) = Len(front) + 1
  BY <1>6, <1>8, BytesAppended
<1> HIDE DEF body
<1>10. Width + Len(body) <= MaxInt
  BY <1>1, <1>4, <1>7, <1>8, <1>9
<1>11. IsFrame(Sized(2, body), id \o body)
  BY <1>1, <1>9, <1>10, SizedIsFrame DEF id
<1>12. handleLoginStartPacket(username) = Sized(2, body)
  BY <1>1, <1>3 DEF handleLoginStartPacket, body, front
<1>13. id \o body = id \o Uuid \o name \o zero
  <2>1. (id \o front) \o zero = id \o (front \o zero)
    BY <1>5, <1>6, <1>8, BytesAssociate
  <2>2. (id \o Uuid) \o name = id \o (Uuid \o name)
    BY <1>1, <1>5, <1>7, BytesAssociate
  <2> QED  BY <2>1, <2>2 DEF body, front
<1>14. name = ClientString(username)
  BY DEF name, text, ClientString
<1> QED  BY <1>11, <1>12, <1>13, <1>14 DEF id, zero

(* So are the replies that do not depend on the request.                   *)
LEMMA FixedAreFrames ==
    ASSUME IsSendable, NEW h \in DOMAIN FixedReplies
    PROVE  AreFrames([i \in DOMAIN FixedReplies[h] |-> Prefixed(FixedReplies[h][i])],
                     FixedReplies[h])
<1> DEFINE ps == FixedReplies[h]
           n == Len(ps)
           fs == [i \in DOMAIN ps |-> Prefixed(ps[i])]
<1>1. ps \in Seq(Seq(Byte)) /\ \A i \in DOMAIN ps : Len(ps[i]) <= MaxInt
  BY FixedRepliesAssumption DEF IsSendable
<1> HIDE DEF ps
<1>2. DOMAIN ps = 1..n /\ n \in Nat /\ \A i \in 1..n : ps[i] \in Seq(Byte)
  BY <1>1, LenProperties, ElementOfSeq
<1>3. \A i \in 1..n : IsFrame(Prefixed(ps[i]), ps[i])
  <2> SUFFICES ASSUME NEW i \in 1..n PROVE IsFrame(Prefixed(ps[i]), ps[i])
    OBVIOUS
  <2> DEFINE p == ps[i]
  <2>1. p \in Seq(Byte) /\ Len(p) <= MaxInt
    BY <1>1, <1>2
  <2> HIDE DEF p
  <2>2. IsFrame(writeVarInt(Len(p)) \o p, p)
    BY <2>1, FrameOf
  <2> QED  BY <2>2 DEF Prefixed, p
<1>4. fs = [i \in 1..n |-> Prefixed(ps[i])]
  BY <1>2
<1> HIDE DEF n, fs
<1>5. fs \in [1..n -> Seq(Byte)] /\ \A i \in 1..n : fs[i] = Prefixed(ps[i])
  BY <1>3, <1>4 DEF IsFrame
<1>6. fs \in Seq(Seq(Byte)) /\ Len(fs) = n
  BY <1>2, <1>5, SeqDef, LenProperties
<1>7. AreFrames(fs, ps)
  BY <1>1, <1>3, <1>5, <1>6 DEF AreFrames, n
<1> QED  BY <1>7 DEF fs, ps

\* What a handler has to have read for its reply.
AreAnswerable(handler, fields) ==
    /\ handler = "ping" => fields[1] \in Int
    /\ handler = "loginStart" => fields[1] \in Seq(Byte) /\ Len(fields[1]) <= MaxName

(* The replies to a message are frames with the payloads that are expected. *)
LEMMA RepliesAreFrames ==
    ASSUME IsSendable, NEW m, AreAnswerable(m.handler, m.fields)
    PROVE  AreFrames(Replies(m.handler, m.fields), Expected(m))
<1> DEFINE h == m.handler
           r == Replies(h, m.fields)
           e == Expected(m)
<1>1. \A g \in DOMAIN FixedReplies : g \notin {"status", "ping", "loginStart"}
  BY FixedRepliesAssumption
<1>2. CASE h = "status"
  <2>1. r = <<handleStatusPacket>> /\ e = <<ClientVarInt(0) \o ClientString(Json)>>
    BY <1>1, <1>2 DEF Replies, Expected
  <2> HIDE DEF r, e
  <2> QED  BY <2>1, StatusIsFrame, OneFrame DEF r, e
<1>3. CASE h = "ping"
  <2>1. r = <<handlePingPacket(m.fields[1])>>
        /\ e = <<ClientVarInt(1) \o ClientLong(m.fields[1])>>
    BY <1>1, <1>3 DEF Replies, Expected
  <2>2. m.fields[1] \in Int
    BY <1>3 DEF AreAnswerable
  <2>3. IsFrame(handlePingPacket(m.fields[1]), ClientVarInt(1) \o ClientLong(m.fields[1]))
    BY <2>2, PongIsFrame
  <2> HIDE DEF r, e
  <2> QED  BY <2>1, <2>3, OneFrame DEF r, e
<1>4. CASE h = "loginStart"
  <2>1. r = <<handleLoginStartPacket(m.fields[1])>>
        /\ e = <<ClientVarInt(2) \o Uuid \o ClientString(m.fields[1]) \o <<0>>>>
    BY <1>1, <1>4 DEF Replies, Expected
  <2>2. m.fields[1] \in Seq(Byte) /\ Len(m.fields[1]) <= MaxName
    BY <1>4 DEF AreAnswerable
  <2>3. IsFrame(handleLoginStartPacket(m.fields[1]),
                ClientVarInt(2) \o Uuid \o ClientString(m.fields[1]) \o <<0>>)
    BY <2>2, LoginIsFrame
  <2> HIDE DEF r, e
  <2> QED  BY <2>1, <2>3, OneFrame DEF r, e
<1>5. CASE h \in DOMAIN FixedReplies
  <2>1. h # "status" /\ h # "ping" /\ h # "loginStart"
    BY <1>1, <1>5
  <2>2. /\ r = [i \in DOMAIN FixedReplies[h] |-> Prefixed(FixedReplies[h][i])]
        /\ e = FixedReplies[h]
    BY <1>5, <2>1 DEF Replies, Expected
  <2> HIDE DEF r, e, h
  <2> QED  BY <1>5, <2>2, FixedAreFrames DEF r, e, h
<1>6. CASE h \notin DOMAIN FixedReplies \cup {"status", "ping", "loginStart"}
  <2>1. r = <<>> /\ e = <<>>
    BY <1>6 DEF Replies, Expected
  <2> HIDE DEF r, e
  <2> QED  BY <2>1, NoFrames DEF r, e
<1> QED  BY <1>2, <1>3, <1>4, <1>5, <1>6

-----------------------------------------------------------------------------
(* What a handler has read, whatever the bytes are, can be answered.       *)

(* A read of one field gives its value.                                    *)
LEMMA FieldIsRead ==
    ASSUME NEW type, NEW data, Ok(ReadAll(<<type>>, data))
    PROVE  /\ Ok(Read(type, data, 0))
           /\ ReadAll(<<type>>, data).value[1] = Read(type, data, 0).value
<1> DEFINE r == Read(type, data, 0)
           start == Got(<<>>, 0)
           types == <<type>>
           N == Len(types)
           Step(before, i) ==
               LET x == Read(types[i], data, before.pos)
               IN  IF ~Ok(before) THEN before
                   ELSE IF ~Ok(x) THEN x
                   ELSE Got(Append(before.value, x.value), x.pos)
           upTo[i \in 0..N] == IF i = 0 THEN start ELSE Step(upTo[i - 1], i)
           IsUpTo(g) == g = [i \in 0..N |-> IF i = 0 THEN start ELSE Step(g[i - 1], i)]
           f == [i \in 0..N |-> IF i = 0 THEN start ELSE Step(start, 1)]
<1>1. ReadAll(types, data) = upTo[N]
  BY DEF ReadAll, InTurn, Step
<1>2. N = 1 /\ types[1] = type
  OBVIOUS
<1>3. start.thrown = "none" /\ start.value = <<>> /\ start.pos = 0
  BY DEF Got
<1>4. Step(start, 1) = IF ~Ok(r) THEN r ELSE Got(Append(<<>>, r.value), r.pos)
  <2> HIDE DEF start, types
  <2> QED  BY <1>2, <1>3 DEF Ok
<1> HIDE DEF Step, start, N
<1>5. IsUpTo(f)
  BY <1>2
<1>6. IsUpTo(upTo)
  <2> HIDE DEF f
  <2> QED  BY <1>5
<1>7. upTo[1] = Step(start, 1)
  <2>1. upTo[0] = start
    <3> HIDE DEF upTo
    <3> QED  BY <1>2, <1>6
  <2>2. upTo[1] = Step(upTo[0], 1)
    <3> HIDE DEF upTo
    <3> QED  BY <1>2, <1>6
  <2> QED  BY <2>1, <2>2
<1> HIDE DEF upTo, r
<1>8. ReadAll(types, data) = IF ~Ok(r) THEN r ELSE Got(Append(<<>>, r.value), r.pos)
  BY <1>1, <1>2, <1>4, <1>7
<1>9. Ok(r)
  BY <1>8
<1>10. ReadAll(types, data).value = Append(<<>>, r.value)
  BY <1>8, <1>9 DEF Got
<1>11. Append(<<>>, r.value)[1] = r.value
  OBVIOUS
<1> QED  BY <1>9, <1>10, <1>11 DEF r

(* Bytes that are read are there.                                          *)
LEMMA readBytesType ==
    ASSUME NEW data \in Seq(Byte), NEW pos \in 0..Len(data), NEW n \in Int,
           Ok(readBytes(n, data, pos))
    PROVE  /\ readBytes(n, data, pos).value \in Seq(Byte)
           /\ Len(readBytes(n, data, pos).value) = IF n >= 0 THEN n ELSE 0
<1> DEFINE r == readBytes(n, data, pos)
           end == pos + n
           piece == SubSeq(data, pos + 1, end)
<1>1. Len(data) \in Nat
  BY LenProperties
<1>2. r = IF end > Len(data) THEN Thrown("underflow") ELSE Got(piece, end)
  BY DEF readBytes
<1>3. r.thrown = "none"
  BY DEF Ok
<1> HIDE DEF r, piece
<1>4. ~(end > Len(data)) /\ r.value = piece
  <2>1. Thrown("underflow").thrown = "underflow" /\ Got(piece, end).value = piece
    BY DEF Thrown, Got
  <2> QED  BY <1>2, <1>3, <2>1
<1>5. CASE n >= 0
  <2>1. end \in pos..Len(data) /\ end - pos = n
    BY <1>1, <1>4, <1>5
  <2> HIDE DEF end
  <2>2. piece \in Seq(Byte) /\ Len(piece) = end - pos
    BY <2>1, Piece DEF piece
  <2> QED  BY <1>4, <1>5, <2>1, <2>2 DEF r
<1>6. CASE ~(n >= 0)
  <2>1. pos + 1 \in Int /\ end \in Int /\ end < pos + 1
    BY <1>1, <1>6
  <2> HIDE DEF end
  <2>2. piece = <<>>
    BY <2>1, SubSeqEmpty DEF piece
  <2>3. <<>> \in Seq(Byte) /\ Len(<<>>) = 0
    OBVIOUS
  <2> QED  BY <1>4, <1>6, <2>2, <2>3 DEF r
<1> QED  BY <1>5, <1>6

(* A long that is read is a number,                                        *)
LEMMA readLongType ==
    ASSUME NEW data \in Seq(Byte), Ok(readLong(data, 0))
    PROVE  readLong(data, 0).value \in Int
<1> DEFINE r == readBytes(LongBytes, data, 0)
           n == BigEndian(r.value, Base)
           bits == LongBytes * (Group + 1)
<1>1. readLong(data, 0) = IF ~Ok(r) THEN r ELSE Got(Signed(n, bits), r.pos)
  BY DEF readLong
<1>2. Ok(r) /\ readLong(data, 0).value = Signed(n, bits)
  <2> HIDE DEF r, n
  <2>1. Ok(r)
    BY <1>1
  <2> QED  BY <1>1, <2>1 DEF Got
<1>3. r.value \in Seq(Int)
  <2>1. 0 \in 0..Len(data) /\ LongBytes \in Int
    BY LenProperties, WidthsAssumption
  <2>2. r.value \in Seq(Byte)
    BY <1>2, <2>1, readBytesType
  <2> HIDE DEF r
  <2> QED  BY <2>2, BytesAreInts
<1> HIDE DEF r
<1>4. n \in Int
  <2>1. Base \in Int /\ Len(r.value) \in Nat
    BY <1>3, Halves, LenProperties
  <2>2. PICK f \in [0..Len(r.value) -> Int] : n = f[Len(r.value)]
    BY <1>3, <2>1, BigEndianProperties
  <2> QED  BY <2>1, <2>2
<1> HIDE DEF n
<1>5. Signed(n, bits) \in Int
  <2> DEFINE M == 2^bits
             u == n % M
  <2>1. M = Base^LongBytes /\ Base^LongBytes \in Nat \ {0}
    <3>1. LongBytes \in 0..LongBytes
      BY WidthsAssumption
    <3> QED  BY <3>1, PowersAssumption, BasePowers
  <2>2. Signed(n, bits) = IF u >= 2^(bits - 1) THEN u - M ELSE u
    BY DEF Signed
  <2>3. M \in Nat \ {0}
    BY <2>1
  <2> HIDE DEF M
  <2>4. u \in Int
    <3>1. n % M \in 0..(M - 1)
      BY <1>4, <2>3, Remainder
    <3> QED  BY <2>3, <3>1
  <2>5. u - M \in Int
    BY <2>3, <2>4
  <2> HIDE DEF u
  <2> QED  BY <2>2, <2>4, <2>5
<1> QED  BY <1>2, <1>5

(* a VarInt is one, with a place behind it,                                *)
LEMMA readVarIntType ==
    ASSUME NEW data \in Seq(Byte), Ok(readVarInt(data, 0))
    PROVE  readVarInt(data, 0).value \in Int /\ readVarInt(data, 0).pos \in 0..Len(data)
<1> DEFINE r == readVarInt(data, 0)
           ends == {n \in 1..MaxVarInt : 0 + n <= Len(data) /\ ~More(data[0 + n])}
           n == CHOOSE k \in ends : \A j \in ends : k <= j
           piece == SubSeq(data, 0 + 1, 0 + n)
           v == Signed(Spelled(piece), Width)
           exception == IF Len(data) - 0 <= MaxVarInt THEN "underflow" ELSE "VarInt too big"
<1>1. r = IF ends # {} THEN Got(v, 0 + n) ELSE Thrown(exception)
  BY DEF readVarInt
<1>2. r.thrown = "none"
  BY DEF Ok
<1>3. exception # "none"
  OBVIOUS
<1> HIDE DEF exception, v, r, ends
<1>4. ends # {} /\ r = Got(v, 0 + n)
  <2>1. Thrown(exception).thrown = exception
    BY DEF Thrown
  <2> QED  BY <1>1, <1>2, <1>3, <2>1
<1>5. n \in ends
  <2>1. ends \subseteq Nat
    BY DEF ends
  <2>2. \E k \in ends : \A j \in ends : k <= j
    BY <1>4, <2>1, LeastNumber
  <2> QED  BY <2>2
<1> HIDE DEF n
<1>6. n \in 1..MaxVarInt /\ n <= Len(data)
  BY <1>5 DEF ends
<1>7. Len(data) \in Nat /\ MaxVarInt \in Nat /\ MaxVarInt <= Width
  BY LenProperties, MaxVarIntProperties, WidthsAssumption
<1>8. n \in 0..Len(data) /\ 0 + n = n /\ 0 \in 0..Len(data)
  BY <1>6, <1>7
<1>9. piece \in Seq(Int) /\ Len(piece) <= Width
  <2>1. n - 0 = n /\ n <= Width
    BY <1>6, <1>7, WidthsAssumption
  <2>2. SubSeq(data, 0 + 1, n) \in Seq(Byte) /\ Len(SubSeq(data, 0 + 1, n)) = n - 0
    BY <1>8, Piece
  <2> QED  BY <1>8, <2>1, <2>2, BytesAreInts
<1> HIDE DEF piece
<1>10. Spelled(piece) \in Int
  <2>1. Len(piece) \in Nat
    BY <1>9, LenProperties
  <2>2. PICK f \in [0..Len(piece) -> Nat] : Spelled(piece) = f[Len(piece)]
    BY <1>9, SpelledProperties
  <2> QED  BY <2>1, <2>2
<1>11. v \in Int
  BY <1>10, SignedProperties DEF v
<1> QED  BY <1>4, <1>8, <1>11 DEF Got, r

(* and a string has at most as many bytes as are allowed.                  *)
LEMMA readStringType ==
    ASSUME NEW data \in Seq(Byte), NEW max \in Nat, Ok(readString(max, data, 0))
    PROVE  /\ readString(max, data, 0).value \in Seq(Byte)
           /\ Len(readString(max, data, 0).value) <= max
<1> DEFINE s == readString(max, data, 0)
           l == readVarInt(data, 0)
           b == readBytes(l.value, data, l.pos)
<1>1. s = IF ~Ok(l) THEN l
          ELSE IF l.value > max THEN Thrown("String length exceeds") ELSE b
  BY DEF readString
<1> HIDE DEF s, b
<1>2. Ok(l) /\ ~(l.value > max) /\ s = b
  <2> HIDE DEF l
  <2>1. Ok(s)
    BY DEF s
  <2>2. ~Ok(Thrown("String length exceeds"))
    BY DEF Ok, Thrown
  <2> QED  BY <1>1, <2>1, <2>2
<1>3. l.value \in Int /\ l.pos \in 0..Len(data)
  BY <1>2, readVarIntType
<1>4. Ok(b)
  BY <1>2 DEF s
<1> HIDE DEF l
<1>5. b.value \in Seq(Byte) /\ Len(b.value) = IF l.value >= 0 THEN l.value ELSE 0
  BY <1>3, <1>4, readBytesType DEF b
<1>6. Len(b.value) <= max
  BY <1>2, <1>3, <1>5
<1> QED  BY <1>2, <1>5, <1>6 DEF s

(* So the replies to what has been read can be built.                      *)
LEMMA ReadIsAnswerable ==
    ASSUME NEW handler, NEW data \in Seq(Byte), Ok(ReadAll(Reads(handler), data))
    PROVE  AreAnswerable(handler, ReadAll(Reads(handler), data).value)
<1> DEFINE fields == ReadAll(Reads(handler), data).value
<1>1. ASSUME handler = "ping" PROVE fields[1] \in Int
  <2>1. Reads(handler) = <<"Long">>
    BY <1>1 DEF Reads
  <2>2. Ok(Read("Long", data, 0)) /\ fields[1] = Read("Long", data, 0).value
    BY <2>1, FieldIsRead
  <2>3. Read("Long", data, 0) = readLong(data, 0)
    BY DEF Read
  <2>4. readLong(data, 0).value \in Int
    BY <2>2, <2>3, readLongType
  <2> HIDE DEF fields
  <2> QED  BY <2>2, <2>3, <2>4
<1>2. ASSUME handler = "loginStart"
      PROVE  fields[1] \in Seq(Byte) /\ Len(fields[1]) <= MaxName
  <2>1. Reads(handler) = <<"Name">>
    BY <1>2 DEF Reads
  <2>2. Ok(Read("Name", data, 0)) /\ fields[1] = Read("Name", data, 0).value
    BY <2>1, FieldIsRead
  <2>3. Read("Name", data, 0) = readString(MaxName, data, 0)
    BY DEF Read
  <2>4. /\ readString(MaxName, data, 0).value \in Seq(Byte)
        /\ Len(readString(MaxName, data, 0).value) <= MaxName
    BY <2>2, <2>3, readStringType, ValuesAssumption
  <2> HIDE DEF fields
  <2> QED  BY <2>2, <2>3, <2>4
<1> QED  BY <1>1, <1>2 DEF AreAnswerable

-----------------------------------------------------------------------------
(* The answers to several messages, one behind the other.                  *)

(* FlattenSeq adds one sequence after the other.                           *)
LEMMA FlattenProperties ==
    ASSUME NEW S, NEW ss \in Seq(Seq(S))
    PROVE  \E f \in [0..Len(ss) -> Seq(S)] :
               /\ f[0] = <<>> /\ FlattenSeq(ss) = f[Len(ss)]
               /\ \A i \in 1..Len(ss) : f[i] = f[i - 1] \o ss[i]
<1> DEFINE N == Len(ss)
           T == Seq(S)
           step == [p \in (1..N) \X T |-> p[2] \o ss[p[1]]]
<1>1. N \in Nat /\ \A i \in 1..N : ss[i] \in T
  BY LenProperties, ElementOfSeq
<1>2. \A i \in 1..N : \A x \in T : x \o ss[i] \in T
  BY <1>1, ConcatProperties
<1>3. step \in [(1..N) \X T -> T]
  <2> HIDE DEF N, T
  <2> QED  BY <1>2
<1>4. PICK f \in [0..N -> T] : IsIteration(f, N, <<>>, step)
  <2>1. <<>> \in T
    OBVIOUS
  <2> HIDE DEF step, N, T
  <2> QED  BY <1>1, <1>3, <2>1, Iteration
<1>5. f[0] = <<>>
  BY <1>4 DEF IsIteration
<1>6. \A i \in 1..N : f[i] = f[i - 1] \o ss[i]
  <2> SUFFICES ASSUME NEW i \in 1..N PROVE f[i] = f[i - 1] \o ss[i]
    OBVIOUS
  <2>1. f[i] = step[<<i, f[i - 1]>>]
    BY <1>4 DEF IsIteration
  <2> HIDE DEF N, T
  <2>2. f[i - 1] \in T
    BY <1>1, <1>4
  <2> QED  BY <2>1, <2>2
<1>7. CASE N = 0
  <2>1. ss = <<>>
    BY <1>7, EmptySeq
  <2>2. FlattenSeq(ss) = ss
    BY <1>7 DEF FlattenSeq
  <2>3. FlattenSeq(ss) = f[N]
    BY <1>5, <1>7, <2>1, <2>2
  <2> HIDE DEF N
  <2> QED  BY <1>4, <1>5, <1>6, <2>3 DEF N
<1>8. CASE N # 0
  <2> DEFINE flatten[i \in 1..N] == IF i = 1 THEN ss[i] ELSE flatten[i - 1] \o ss[i]
             IsFlat(g) == g = [i \in 1..N |-> IF i = 1 THEN ss[i] ELSE g[i - 1] \o ss[i]]
             h == [i \in 1..N |-> f[i]]
  <2>1. f[1] = ss[1]
    <3>1. 1 \in 1..N /\ 1 - 1 = 0
      BY <1>1, <1>8
    <3>2. f[1] = <<>> \o ss[1] /\ ss[1] \in T
      <4> HIDE DEF T, N
      <4> QED  BY <1>1, <1>5, <1>6, <3>1
    <3> QED  BY <3>2, ConcatEmptySeq
  <2>2. IsFlat(h)
    <3>1. \A i \in 1..N : i # 1 => i - 1 \in 1..N
      <4> HIDE DEF N
      <4> QED  BY <1>1
    <3>2. \A i \in 1..N : f[i] = IF i = 1 THEN ss[i] ELSE h[i - 1] \o ss[i]
      <4> HIDE DEF N
      <4> QED  BY <1>6, <2>1, <3>1
    <3> DEFINE x(i) == IF i = 1 THEN ss[i] ELSE h[i - 1] \o ss[i]
    <3>3. \A i \in 1..N : f[i] = x(i)
      BY <3>2
    <3> HIDE DEF x, N
    <3>4. h = [i \in 1..N |-> x(i)]
      BY <3>3
    <3> HIDE DEF h
    <3> QED  BY <3>4 DEF x
  <2>3. IsFlat(flatten)
    <3> HIDE DEF N, h
    <3> QED  BY <2>2
  <2>4. FlattenSeq(ss) = flatten[N]
    BY <1>8 DEF FlattenSeq
  <2> HIDE DEF h
  <2>5. \A i \in 1..N : flatten[i] = IF i = 1 THEN ss[i] ELSE flatten[i - 1] \o ss[i]
    <3> HIDE DEF N, flatten
    <3> QED  BY <2>3
  <2> HIDE DEF flatten
  <2> DEFINE g == [i \in 0..N |-> IF i = 0 THEN <<>> ELSE flatten[i]]
  <2>6. SameSteps(g, f, N)
    <3>1. ASSUME NEW i \in 1..N, g[i - 1] = f[i - 1] PROVE g[i] = f[i]
      <4>1. CASE i = 1
        <5> HIDE DEF N
        <5> QED  BY <1>1, <2>1, <2>5, <4>1
      <4>2. CASE i # 1
        <5>1. i - 1 \in 0..N /\ i - 1 # 0 /\ i \in 0..N /\ i # 0
          <6> HIDE DEF N
          <6> QED  BY <1>1, <4>2
        <5>2. g[i] = flatten[i] /\ g[i - 1] = flatten[i - 1]
          <6> HIDE DEF N
          <6> QED  BY <5>1
        <5>3. flatten[i] = flatten[i - 1] \o ss[i]
          BY <2>5, <4>2
        <5>4. f[i] = f[i - 1] \o ss[i]
          BY <1>6
        <5> HIDE DEF g
        <5> QED  BY <3>1, <5>2, <5>3, <5>4
      <4> QED  BY <4>1, <4>2
    <3>2. g[0] = f[0]
      <4> HIDE DEF N
      <4> QED  BY <1>1, <1>5
    <3> HIDE DEF g
    <3> QED  BY <3>1, <3>2 DEF SameSteps
  <2>7. g[N] = f[N]
    <3> HIDE DEF g, N
    <3>1. \A i \in 0..N : g[i] = f[i]
      BY <1>1, <2>6, SameIteration
    <3> QED  BY <1>1, <3>1
  <2>8. g[N] = flatten[N]
    <3> HIDE DEF N
    <3> QED  BY <1>1, <1>8
  <2>9. FlattenSeq(ss) = f[N]
    BY <2>4, <2>7, <2>8
  <2> HIDE DEF N
  <2> QED  BY <1>4, <1>5, <1>6, <2>9 DEF N
<1> QED  BY <1>7, <1>8

\* What the first k of the sequences are together.
Joined(ss, k) == FlattenSeq(SubSeq(ss, 1, k))

(* Each of them comes behind those before it.                              *)
LEMMA JoinedProperties ==
    ASSUME NEW S, NEW ss \in Seq(Seq(S))
    PROVE  /\ Joined(ss, 0) = <<>> /\ Joined(ss, Len(ss)) = FlattenSeq(ss)
           /\ \A k \in 0..Len(ss) : Joined(ss, k) \in Seq(S)
           /\ \A k \in 1..Len(ss) : Joined(ss, k) = Joined(ss, k - 1) \o ss[k]
<1> DEFINE N == Len(ss)
<1>1. N \in Nat
  BY LenProperties
<1>2. PICK f \in [0..N -> Seq(S)] :
          /\ f[0] = <<>> /\ FlattenSeq(ss) = f[N]
          /\ \A i \in 1..N : f[i] = f[i - 1] \o ss[i]
  BY FlattenProperties
<1>3. ASSUME NEW k \in 0..N PROVE Joined(ss, k) = f[k]
  <2> DEFINE t == SubSeq(ss, 0 + 1, k)
  <2>1. k \in Nat /\ 0 \in 0..Len(ss) /\ k - 0 = k /\ 0 + 1 = 1
    BY <1>1
  <2>2. t \in Seq(Seq(S)) /\ Len(t) = k /\ \A i \in 1..k : t[i] = ss[0 + i]
    BY <2>1, Piece
  <2> HIDE DEF t
  <2>3. PICK g \in [0..k -> Seq(S)] :
            /\ g[0] = <<>> /\ FlattenSeq(t) = g[k]
            /\ \A i \in 1..k : g[i] = g[i - 1] \o t[i]
    BY <2>2, FlattenProperties
  <2>4. SameSteps(g, f, k)
    <3> SUFFICES ASSUME NEW i \in 1..k, g[i - 1] = f[i - 1] PROVE g[i] = f[i]
      BY <1>2, <2>3 DEF SameSteps
    <3>1. i \in 1..N /\ 0 + i = i
      BY <1>1
    <3>2. t[i] = ss[i]
      BY <2>2, <3>1
    <3>3. f[i] = f[i - 1] \o ss[i]
      BY <1>2, <3>1
    <3>4. g[i] = g[i - 1] \o t[i]
      BY <2>3
    <3> QED  BY <3>2, <3>3, <3>4
  <2>5. \A i \in 0..k : g[i] = f[i]
    <3>1. k \in Nat
      BY <2>1
    <3> HIDE DEF N
    <3> QED  BY <2>4, <3>1, SameIteration
  <2>6. g[k] = f[k]
    BY <2>1, <2>5
  <2>7. Joined(ss, k) = FlattenSeq(t)
    BY <2>1 DEF Joined, t
  <2> QED  BY <2>3, <2>6, <2>7
<1>4. \A k \in 1..N : k \in 0..N /\ k - 1 \in 0..N
  BY <1>1
<1>5. 0 \in 0..N /\ N \in 0..N
  BY <1>1
<1> HIDE DEF N
<1>6. Joined(ss, 0) = <<>> /\ Joined(ss, N) = FlattenSeq(ss)
  BY <1>2, <1>3, <1>5
<1>7. \A k \in 0..N : Joined(ss, k) \in Seq(S)
  BY <1>2, <1>3
<1>8. \A k \in 1..N : Joined(ss, k) = Joined(ss, k - 1) \o ss[k]
  BY <1>2, <1>3, <1>4
<1> QED  BY <1>6, <1>7, <1>8 DEF N

\* What one sequence begins with, element by element.
Begins(s, t) == Len(s) <= Len(t) /\ \A i \in 1..Len(s) : t[i] = s[i]

(* Of what is joined the first are the beginning of the whole.             *)
LEMMA JoinedBegins ==
    ASSUME NEW S, NEW ss \in Seq(Seq(S)), NEW k \in 0..Len(ss)
    PROVE  Begins(Joined(ss, k), FlattenSeq(ss))
<1> DEFINE N == Len(ss)
           s == Joined(ss, k)
           T == {m \in 0..(N - k) : Begins(s, Joined(ss, k + m))}
<1>1. N \in Nat /\ N - k \in Nat /\ k + (N - k) = N /\ k + 0 = k /\ k \in Int
  BY LenProperties
<1>2. /\ Joined(ss, N) = FlattenSeq(ss)
      /\ \A j \in 0..N : Joined(ss, j) \in Seq(S)
      /\ \A j \in 1..N : Joined(ss, j) = Joined(ss, j - 1) \o ss[j]
      /\ \A j \in 1..N : ss[j] \in Seq(S)
  BY JoinedProperties, ElementOfSeq
<1>3. s \in Seq(S) /\ Len(s) \in Nat
  BY <1>2, LenProperties
<1> HIDE DEF s, N
<1>4. 0 \in T
  BY <1>1, <1>3 DEF Begins, s
<1>5. ASSUME NEW m \in 0..((N - k) - 1), m \in T PROVE m + 1 \in T
  <2> DEFINE old == Joined(ss, k + m)
             new == Joined(ss, k + (m + 1))
             x == ss[k + (m + 1)]
  <2>1. k + m \in 0..N /\ k + (m + 1) \in 1..N /\ (k + (m + 1)) - 1 = k + m
        /\ m + 1 \in 0..(N - k)
    BY <1>1
  <2>2. new = old \o x /\ old \in Seq(S) /\ x \in Seq(S)
    BY <1>2, <2>1
  <2>3. Begins(s, old)
    BY <1>5
  <2> HIDE DEF old, new, x
  <2>4. /\ Len(new) = Len(old) + Len(x) /\ Len(old) \in Nat /\ Len(x) \in Nat
        /\ \A i \in 1..Len(old) : new[i] = old[i]
    BY <2>2, ConcatProperties, LenProperties
  <2>5. Begins(s, new)
    BY <1>3, <2>3, <2>4 DEF Begins
  <2> QED  BY <2>1, <2>5 DEF new
<1>6. 0..(N - k) \subseteq T
  <2> HIDE DEF T
  <2> QED  BY <1>1, <1>4, <1>5, Induction
<1>7. N - k \in T
  <2> DEFINE m == N - k
  <2>1. m \in 0..m
    BY <1>1
  <2> HIDE DEF T
  <2> QED  BY <1>6, <2>1
<1> QED  BY <1>1, <1>2, <1>7 DEF s

-----------------------------------------------------------------------------
(* What the client finds in the bytes that the server has written.         *)

\* Where a size may end that begins behind p, and the end of its payload.
Ends(bytes, p) ==
    {q \in (p + 1)..Len(bytes) :
         /\ ~More(bytes[q]) /\ Group * (q - p - 1) < Width
         /\ \A k \in (p + 1)..(q - 1) : More(bytes[k])
         /\ q + Spelled(SubSeq(bytes, p + 1, q)) <= Len(bytes)}

EndBehind(bytes, p, q) == q + Spelled(SubSeq(bytes, p + 1, q))

Founds(bytes) == [at : 0..Len(bytes), found : Seq(Seq(Byte))]

Found(at, found) == [at |-> at, found |-> found]

\* One step of Payloads.
NextPayload(bytes, before) ==
    LET p == before.at
        q == CHOOSE q \in Ends(bytes, p) : TRUE
        end == EndBehind(bytes, p, q)
    IN  IF p = Len(bytes) THEN before
        ELSE IF Ends(bytes, p) = {}
        THEN Found(Len(bytes), Append(before.found, <<>>))
        ELSE Found(end, Append(before.found, SubSeq(bytes, q + 1, end)))

(* A step leaves what has been found, and ends at the end of the bytes.    *)
LEMMA NextPayloadType ==
    ASSUME NEW bytes \in Seq(Byte), NEW before \in Founds(bytes)
    PROVE  /\ NextPayload(bytes, before) \in Founds(bytes)
           /\ before.at = Len(bytes) => NextPayload(bytes, before) = before
           /\ Begins(before.found, NextPayload(bytes, before).found)
<1> DEFINE p == before.at
           q == CHOOSE q \in Ends(bytes, p) : TRUE
           end == EndBehind(bytes, p, q)
           next == NextPayload(bytes, before)
           old == before.found
           L == Len(bytes)
<1>1. /\ L \in Nat /\ p \in 0..L /\ old \in Seq(Seq(Byte)) /\ Len(old) \in Nat
  BY LenProperties DEF Founds
<1>2. next = IF p = L THEN before
             ELSE IF Ends(bytes, p) = {} THEN Found(L, Append(old, <<>>))
             ELSE Found(end, Append(old, SubSeq(bytes, q + 1, end)))
  BY DEF NextPayload
<1> HIDE DEF next, end, old, q
<1>3. ASSUME NEW e \in 0..L, NEW b \in Seq(Byte), next = Found(e, Append(old, b))
      PROVE  next \in Founds(bytes) /\ Begins(old, next.found)
  <2> DEFINE new == Append(old, b)
  <2>1. /\ new \in Seq(Seq(Byte)) /\ Len(new) = Len(old) + 1
        /\ \A i \in 1..Len(old) : new[i] = old[i]
    BY <1>1, AppendProperties
  <2> HIDE DEF new
  <2>2. next = Found(e, new)
    BY <1>3 DEF new
  <2> QED  BY <1>1, <2>1, <2>2 DEF Found, Founds, Begins
<1>4. CASE p = L
  <2>1. next = before
    BY <1>2, <1>4
  <2>2. Begins(old, old)
    BY <1>1 DEF Begins
  <2> QED  BY <2>1, <2>2 DEF next, old
<1>5. CASE p # L /\ Ends(bytes, p) = {}
  <2>1. L \in 0..L /\ <<>> \in Seq(Byte)
    BY <1>1
  <2>2. next = Found(L, Append(old, <<>>))
    BY <1>2, <1>5
  <2> QED  BY <1>3, <1>5, <2>1, <2>2 DEF next, old
<1>6. CASE p # L /\ Ends(bytes, p) # {}
  <2>1. q \in Ends(bytes, p)
    BY <1>6 DEF q
  <2>2. q \in (p + 1)..L /\ Group * (q - p - 1) < Width /\ end <= L
    BY <2>1 DEF Ends, end, EndBehind
  <2>3. q - p <= Width
    <3> DEFINE d == q - p - 1
    <3>1. d \in Nat /\ Group * d < Width
      BY <1>1, <2>2
    <3> HIDE DEF d
    <3>2. Group * d >= d
      BY <3>1, WidthsAssumption
    <3>3. d < Width /\ d \in Int
      BY <3>1, <3>2, WidthsAssumption
    <3> QED  BY <1>1, <2>2, <3>3, WidthsAssumption DEF d
  <2> DEFINE size == SubSeq(bytes, p + 1, q)
  <2>4. size \in Seq(Int) /\ Len(size) <= Width
    <3>1. q \in p..Len(bytes) /\ p \in 0..Len(bytes)
      BY <1>1, <2>2
    <3>2. size \in Seq(Byte) /\ Len(size) = q - p
      <4> HIDE DEF p
      <4> QED  BY <3>1, Piece
    <3> HIDE DEF size
    <3> QED  BY <2>3, <3>2, BytesAreInts
  <2>5. Spelled(size) \in Nat
    <3> HIDE DEF size
    <3>1. Len(size) \in Nat
      BY <2>4, LenProperties
    <3>2. PICK f \in [0..Len(size) -> Nat] : Spelled(size) = f[Len(size)]
      BY <2>4, SpelledProperties
    <3> QED  BY <3>1, <3>2
  <2>6. q \in 0..Len(bytes) /\ end \in q..Len(bytes)
    <3>1. end = q + Spelled(size)
      BY DEF end, EndBehind
    <3> HIDE DEF size
    <3> QED  BY <1>1, <2>2, <2>5, <3>1
  <2>7. SubSeq(bytes, q + 1, end) \in Seq(Byte) /\ end \in 0..L
    BY <1>1, <2>6, Piece
  <2>8. next = Found(end, Append(old, SubSeq(bytes, q + 1, end)))
    BY <1>2, <1>6
  <2> QED  BY <1>3, <1>6, <2>7, <2>8 DEF next, old
<1> QED  BY <1>4, <1>5, <1>6

(* Where a frame lies its payload is found.                                *)
LEMMA FrameIsFound ==
    ASSUME NEW bytes \in Seq(Byte), NEW p \in 0..Len(bytes), NEW e \in p..Len(bytes),
           NEW payload, IsFrame(SubSeq(bytes, p + 1, e), payload), NEW found
    PROVE  /\ NextPayload(bytes, Found(p, found)) = Found(e, Append(found, payload))
           /\ p < e /\ payload \in Seq(Byte)
<1> DEFINE frame == SubSeq(bytes, p + 1, e)
<1>1. frame \in Seq(Byte) /\ Len(frame) = e - p /\ \A i \in 1..(e - p) : frame[i] = bytes[p + i]
  BY Piece
<1>2. PICK k \in 1..Len(frame) :
          EndsAt(frame, k) /\ SubSeq(frame, k + 1, Len(frame)) = payload
  BY DEF IsFrame
<1>3. Len(bytes) \in Nat /\ k \in 1..(e - p) /\ p < e /\ k \in Nat
  BY <1>1, <1>2, LenProperties
<1>4. SubSeq(frame, 1, k) = SubSeq(bytes, p + 1, p + k)
  <2>1. 0 \in 0..(e - p) /\ k \in 0..(e - p) /\ p + 0 = p /\ 0 + 1 = 1
    BY <1>3
  <2>2. SubSeq(frame, 0 + 1, k) = SubSeq(bytes, (p + 0) + 1, p + k)
    BY <2>1, PieceOfPiece
  <2> QED  BY <2>1, <2>2
<1>5. payload = SubSeq(bytes, (p + k) + 1, e)
  <2> DEFINE d == e - p
  <2>1. k \in 0..(e - p) /\ d \in k..(e - p) /\ p + d = e
    BY <1>3
  <2> HIDE DEF d
  <2>2. SubSeq(frame, k + 1, d) = SubSeq(bytes, (p + k) + 1, p + d)
    BY <2>1, PieceOfPiece
  <2> QED  BY <1>1, <1>2, <2>1, <2>2 DEF d
<1> HIDE DEF frame
<1>6. /\ Group * (k - 1) < Width /\ \A j \in 1..k : More(frame[j]) <=> j < k
      /\ k + Spelled(SubSeq(frame, 1, k)) = e - p
  BY <1>1, <1>2 DEF EndsAt
<1>7. \A j \in (p + 1)..(p + k) : More(bytes[j]) <=> j < p + k
  <2> SUFFICES ASSUME NEW j \in (p + 1)..(p + k)
               PROVE  More(bytes[j]) <=> j < p + k
    OBVIOUS
  <2> DEFINE i == j - p
  <2>1. i \in 1..k /\ i \in 1..(e - p) /\ p + i = j /\ (i < k <=> j < p + k)
    BY <1>3
  <2> HIDE DEF i
  <2> QED  BY <1>1, <1>6, <2>1
<1> DEFINE q == p + k
<1>8. q \in (p + 1)..Len(bytes) /\ (q - p) - 1 = k - 1 /\ q \in Nat /\ ~(p = Len(bytes))
  BY <1>3
<1>9. Group * (q - p - 1) < Width
  BY <1>6, <1>8
<1>10. EndBehind(bytes, p, q) = e
  <2> DEFINE s == Spelled(SubSeq(frame, 1, k))
  <2>1. EndBehind(bytes, p, q) = q + s
    BY <1>4 DEF EndBehind
  <2>2. k + s = e - p
    BY <1>6
  <2>3. s \in Int
    <3>1. SubSeq(bytes, p + 1, q) \in Seq(Byte) /\ Len(SubSeq(bytes, p + 1, q)) = k
      <4>1. q \in p..Len(bytes) /\ q - p = k
        BY <1>3
      <4> HIDE DEF q
      <4> QED  BY <4>1, Piece
    <3>2. k <= Width
      <4>1. Group * (k - 1) >= k - 1
        BY <1>3, WidthsAssumption
      <4> DEFINE g == Group * (k - 1)
      <4>2. g < Width /\ g >= k - 1 /\ g \in Int
        BY <1>3, <1>6, <4>1, WidthsAssumption
      <4> HIDE DEF g
      <4> QED  BY <1>3, <4>2, WidthsAssumption
    <3> DEFINE size == SubSeq(bytes, p + 1, q)
    <3>3. size \in Seq(Byte) /\ Len(size) = k /\ s = Spelled(size)
      BY <1>4, <3>1
    <3> HIDE DEF size, s
    <3>4. size \in Seq(Int)
      BY <3>3, BytesAreInts
    <3>5. PICK f \in [0..Len(size) -> Nat] : Spelled(size) = f[Len(size)]
      BY <3>2, <3>3, <3>4, SpelledProperties
    <3> QED  BY <1>3, <3>3, <3>5
  <2> HIDE DEF s
  <2> QED  BY <1>3, <2>1, <2>2, <2>3
<1>11. q \in Ends(bytes, p)
  <2>1. ~More(bytes[q])
    BY <1>7, <1>8
  <2>2. \A j \in (p + 1)..(q - 1) : More(bytes[j])
    BY <1>3, <1>7
  <2>3. q + Spelled(SubSeq(bytes, p + 1, q)) <= Len(bytes)
    <3>1. e <= Len(bytes)
      BY <1>3
    <3> QED  BY <1>10, <3>1 DEF EndBehind
  <2> QED  BY <1>8, <1>9, <2>1, <2>2, <2>3 DEF Ends
<1>12. ASSUME NEW r \in Ends(bytes, p) PROVE r = q
  <2>1. r \in (p + 1)..Len(bytes) /\ ~More(bytes[r])
        /\ \A j \in (p + 1)..(r - 1) : More(bytes[j])
    BY DEF Ends
  <2>2. ~(r < q)
    <3> SUFFICES ASSUME r < q PROVE FALSE
      OBVIOUS
    <3>1. r \in (p + 1)..(p + k)
      BY <1>3, <2>1
    <3> QED  BY <1>7, <2>1, <3>1
  <2>3. ~(q < r)
    <3> SUFFICES ASSUME q < r PROVE FALSE
      OBVIOUS
    <3>1. q \in (p + 1)..(r - 1)
      BY <1>3, <1>8, <2>1
    <3>2. ~More(bytes[q])
      BY <1>7, <1>8
    <3> QED  BY <2>1, <3>1, <3>2
  <2> QED  BY <1>3, <1>8, <2>1, <2>2, <2>3
<1> DEFINE c == CHOOSE r \in Ends(bytes, p) : TRUE
<1>13. c = q
  <2> HIDE DEF q
  <2>1. c \in Ends(bytes, p)
    BY <1>11
  <2> QED  BY <1>12, <2>1
<1>14. Found(p, found).at = p /\ Found(p, found).found = found
  BY DEF Found
<1>15. NextPayload(bytes, Found(p, found)) =
           IF p = Len(bytes) THEN Found(p, found)
           ELSE IF Ends(bytes, p) = {} THEN Found(Len(bytes), Append(found, <<>>))
           ELSE Found(EndBehind(bytes, p, c),
                      Append(found, SubSeq(bytes, c + 1, EndBehind(bytes, p, c))))
  BY <1>14 DEF NextPayload
<1> HIDE DEF c, q
<1>16. NextPayload(bytes, Found(p, found)) = Found(e, Append(found, payload))
  BY <1>5, <1>8, <1>10, <1>11, <1>13, <1>15 DEF q
<1> QED  BY <1>3, <1>16 DEF IsFrame

(* Payloads takes one of these steps for each byte.                        *)
LEMMA PayloadsProperties ==
    ASSUME NEW bytes \in Seq(Byte)
    PROVE  \E f \in [0..Len(bytes) -> Founds(bytes)] :
               /\ f[0] = Found(0, <<>>) /\ Payloads(bytes) = f[Len(bytes)].found
               /\ \A i \in 1..Len(bytes) : f[i] = NextPayload(bytes, f[i - 1])
<1> DEFINE N == Len(bytes)
           S == Founds(bytes)
           start == Found(0, <<>>)
           next(before) == NextPayload(bytes, before)
           step == [x \in (1..N) \X S |-> next(x[2])]
<1>1. N \in Nat /\ start \in S
  <2>1. N \in Nat /\ <<>> \in Seq(Seq(Byte))
    BY LenProperties
  <2> QED  BY <2>1 DEF Found, Founds
<1>2. \A x \in S : next(x) \in S
  BY NextPayloadType
<1> DEFINE upTo[n \in 0..N] == IF n = 0 THEN start ELSE next(upTo[n - 1])
           IsUpTo(g) == g = [n \in 0..N |-> IF n = 0 THEN start ELSE next(g[n - 1])]
<1>3. Payloads(bytes) = upTo[N].found
  BY DEF Payloads, NextPayload, Found, Ends, EndBehind
<1> HIDE DEF next, start, S
<1>4. step \in [(1..N) \X S -> S]
  <2> HIDE DEF N
  <2> QED  BY <1>2
<1>5. PICK f \in [0..N -> S] : IsIteration(f, N, start, step)
  <2> HIDE DEF step, N
  <2> QED  BY <1>1, <1>4, Iteration
<1>6. f[0] = start
  BY <1>5 DEF IsIteration
<1>7. \A i \in 1..N : f[i] = next(f[i - 1])
  <2> SUFFICES ASSUME NEW i \in 1..N PROVE f[i] = next(f[i - 1])
    OBVIOUS
  <2>1. f[i] = step[<<i, f[i - 1]>>]
    BY <1>5 DEF IsIteration
  <2> HIDE DEF N
  <2>2. f[i - 1] \in S
    BY <1>1, <1>5
  <2> QED  BY <2>1, <2>2
<1>8. IsUpTo(f)
  <2> HIDE DEF N
  <2> QED  BY <1>1, <1>5, <1>6, <1>7
<1>9. IsUpTo(upTo)
  <2> HIDE DEF N
  <2> QED  BY <1>8
<1>10. \A i \in 0..N : upTo[i] = f[i]
  <2> HIDE DEF N, upTo
  <2>1. upTo[0] = f[0]
    BY <1>1, <1>6, <1>9
  <2>2. ASSUME NEW i \in 1..N, upTo[i - 1] = f[i - 1] PROVE upTo[i] = f[i]
    BY <1>1, <1>7, <1>9, <2>2
  <2>3. SameSteps(upTo, f, N)
    BY <2>1, <2>2 DEF SameSteps
  <2> QED  BY <1>1, <2>3, SameIteration
<1>11. upTo[N] = f[N]
  <2> HIDE DEF upTo, N
  <2> QED  BY <1>1, <1>10
<1> HIDE DEF upTo
<1> QED  BY <1>3, <1>5, <1>6, <1>7, <1>11 DEF start, S, next

\* Frames with these payloads lie at these places, the one behind the other.
Splits(bytes, payloads, at) ==
    /\ at \in [0..Len(payloads) -> 0..Len(bytes)] /\ at[0] = 0
    /\ \A i \in 1..Len(payloads) :
           /\ at[i - 1] <= at[i]
           /\ IsFrame(SubSeq(bytes, at[i - 1] + 1, at[i]), payloads[i])

(* They are what the client finds, first; and all that it finds, if        *)
(* nothing follows them.                                                   *)
LEMMA PayloadsAreFound ==
    ASSUME NEW bytes \in Seq(Byte), NEW payloads \in Seq(Seq(Byte)), NEW at,
           Splits(bytes, payloads, at)
    PROVE  /\ Payloads(bytes) \in Seq(Seq(Byte)) /\ Begins(payloads, Payloads(bytes))
           /\ at[Len(payloads)] = Len(bytes) => Payloads(bytes) = payloads
<1> DEFINE n == Len(payloads)
           N == Len(bytes)
           first(i) == SubSeq(payloads, 1, i)
<1>1. /\ N \in Nat /\ n \in Nat /\ 0 \in 0..n /\ n \in 0..n
      /\ at \in [0..n -> 0..N] /\ at[0] = 0
  BY LenProperties DEF Splits
<1>2. PICK f \in [0..N -> Founds(bytes)] :
          /\ f[0] = Found(0, <<>>) /\ Payloads(bytes) = f[N].found
          /\ \A i \in 1..N : f[i] = NextPayload(bytes, f[i - 1])
  BY PayloadsProperties
<1>3. /\ first(0) = <<>> /\ first(n) = payloads
      /\ \A i \in 1..n : first(i) = Append(first(i - 1), payloads[i])
  BY Beginnings
<1>4. ASSUME NEW i \in 1..n, NEW found
      PROVE  /\ NextPayload(bytes, Found(at[i - 1], found)) =
                    Found(at[i], Append(found, payloads[i]))
             /\ at[i - 1] < at[i]
  <2> DEFINE p == at[i - 1]
             e == at[i]
  <2>1. p \in 0..Len(bytes) /\ e \in p..Len(bytes)
        /\ IsFrame(SubSeq(bytes, p + 1, e), payloads[i])
    <3>1. i - 1 \in 0..n /\ i \in 0..n
      BY <1>1
    <3>2. p <= e /\ IsFrame(SubSeq(bytes, p + 1, e), payloads[i])
      BY DEF Splits
    <3>3. p \in 0..N /\ e \in 0..N
      <4> HIDE DEF n, N
      <4> QED  BY <1>1, <3>1
    <3> HIDE DEF p, e
    <3> QED  BY <1>1, <3>2, <3>3
  <2> HIDE DEF p, e
  <2>2. /\ NextPayload(bytes, Found(p, found)) = Found(e, Append(found, payloads[i]))
        /\ p < e
    BY <2>1, FrameIsFound
  <2> QED  BY <2>2 DEF p, e
<1> HIDE DEF first, n, N
<1> DEFINE Fits == {i \in 0..n : i <= at[i]}
<1>5. 0..n \subseteq Fits
  <2>1. 0 \in Fits
    BY <1>1
  <2>2. ASSUME NEW i \in 0..(n - 1), i \in Fits PROVE i + 1 \in Fits
    <3>1. i + 1 \in 1..n /\ (i + 1) - 1 = i /\ i \in 0..n /\ i + 1 \in 0..n
      BY <1>1
    <3>2. at[i] < at[i + 1]
      BY <1>4, <3>1
    <3>3. at[i] \in 0..N /\ at[i + 1] \in 0..N
      BY <1>1, <3>1
    <3> QED  BY <1>1, <2>2, <3>1, <3>2, <3>3
  <2> HIDE DEF Fits
  <2> QED  BY <1>1, <2>1, <2>2, Induction
<1>6. n <= N /\ \A i \in 0..n : i \in 0..N /\ (i > 0 => i \in 1..N)
  <2>1. n <= at[n] /\ at[n] \in 0..N
    BY <1>1, <1>5
  <2> QED  BY <1>1, <2>1
<1> DEFINE Right == {i \in 0..n : f[i] = Found(at[i], first(i))}
<1>7. 0..n \subseteq Right
  <2>1. 0 \in Right
    BY <1>1, <1>2, <1>3
  <2>2. ASSUME NEW i \in 0..(n - 1), i \in Right PROVE i + 1 \in Right
    <3>1. i + 1 \in 1..n /\ (i + 1) - 1 = i /\ i + 1 \in 0..n /\ i + 1 > 0 /\ i + 1 \in 1..N
      BY <1>1, <1>6
    <3>2. f[i + 1] = NextPayload(bytes, f[i])
      BY <1>2, <3>1
    <3>3. f[i] = Found(at[i], first(i))
      BY <2>2
    <3>4. NextPayload(bytes, Found(at[i], first(i))) =
              Found(at[i + 1], Append(first(i), payloads[i + 1]))
      BY <1>4, <3>1
    <3>5. first(i + 1) = Append(first(i), payloads[i + 1])
      BY <1>3, <3>1
    <3> QED  BY <3>1, <3>2, <3>3, <3>4, <3>5
  <2> HIDE DEF Right
  <2> QED  BY <1>1, <2>1, <2>2, Induction
<1>8. f[n] = Found(at[n], payloads) /\ f[n].at = at[n] /\ f[n].found = payloads
  <2>1. f[n] = Found(at[n], payloads)
    BY <1>1, <1>3, <1>7
  <2> QED  BY <2>1 DEF Found
<1> DEFINE Stays == {m \in 0..(N - n) :
                         /\ Begins(payloads, f[n + m].found)
                         /\ at[n] = N => f[n + m] = f[n]}
<1>9. 0..(N - n) \subseteq Stays
  <2>1. 0 \in Stays
    <3>1. n + 0 = n /\ 0 \in 0..(N - n)
      BY <1>1, <1>6
    <3>2. Begins(payloads, payloads)
      BY <1>1 DEF Begins, n
    <3> QED  BY <1>8, <3>1, <3>2
  <2>2. ASSUME NEW m \in 0..((N - n) - 1), m \in Stays PROVE m + 1 \in Stays
    <3> DEFINE old == f[n + m]
               new == f[n + (m + 1)]
    <3>1. /\ n + (m + 1) \in 1..N /\ (n + (m + 1)) - 1 = n + m /\ n + m \in 0..N
          /\ m + 1 \in 0..(N - n) /\ n + (m + 1) \in 0..N
      BY <1>1, <1>6
    <3>2. new = NextPayload(bytes, old) /\ old \in Founds(bytes) /\ new \in Founds(bytes)
      BY <1>2, <3>1
    <3>3. /\ old.at = Len(bytes) => NextPayload(bytes, old) = old
          /\ Begins(old.found, NextPayload(bytes, old).found)
      BY <3>2, NextPayloadType
    <3>4. Begins(payloads, old.found) /\ (at[n] = N => old = f[n])
      BY <2>2
    <3> HIDE DEF old, new
    <3>5. Len(payloads) \in Nat /\ Len(old.found) \in Nat /\ Len(new.found) \in Nat
      BY <3>2, LenProperties DEF Founds
    <3>6. Begins(payloads, new.found)
      BY <3>2, <3>3, <3>4, <3>5 DEF Begins
    <3>7. at[n] = N => new = f[n]
      BY <1>8, <3>2, <3>3, <3>4 DEF N
    <3> QED  BY <3>1, <3>6, <3>7 DEF new
  <2>3. N - n \in Nat
    BY <1>1, <1>6
  <2> HIDE DEF Stays
  <2> QED  BY <2>1, <2>2, <2>3, Induction
<1>10. N - n \in Stays /\ n + (N - n) = N
  <2> DEFINE d == N - n
  <2>1. d \in 0..d /\ n + d = N
    BY <1>1, <1>6
  <2> HIDE DEF Stays, d
  <2>2. 0..d \subseteq Stays
    BY <1>9 DEF d
  <2> QED  BY <2>1, <2>2 DEF d
<1>11. Begins(payloads, f[N].found) /\ (at[n] = N => f[N] = f[n])
  BY <1>10
<1>12. Payloads(bytes) \in Seq(Seq(Byte))
  <2>1. f[N] \in Founds(bytes)
    BY <1>1, <1>2
  <2> QED  BY <1>2, <2>1 DEF Founds
<1>13. at[n] = N => Payloads(bytes) = payloads
  BY <1>2, <1>8, <1>11
<1> QED  BY <1>2, <1>11, <1>12, <1>13 DEF n, N

-----------------------------------------------------------------------------
(* The server writes what the client expects.                              *)

\* The first n of the payloads that are due have been written, as frames; the
\* others wait, before whatever else waits.
Written(bytes, waiting, due, n, at) ==
    /\ bytes \in Seq(Byte) /\ waiting \in Seq(Seq(Byte)) /\ due \in Seq(Seq(Byte))
    /\ n \in 0..Len(due) /\ Splits(bytes, SubSeq(due, 1, n), at)
    /\ n < Len(due) => at[n] = Len(bytes)
    /\ \A i \in 1..(Len(due) - n) :
           i <= Len(waiting) /\ IsFrame(waiting[i], due[n + i])

\* Nothing else has been written, and nothing else waits.
Exactly(bytes, waiting, due, n, at) ==
    at[n] = Len(bytes) /\ Len(waiting) = Len(due) - n

(* The first n of a sequence are n of its elements, and stay when it grows. *)
LEMMA FirstOnes ==
    ASSUME NEW S, NEW s \in Seq(S), NEW n \in 0..Len(s)
    PROVE  /\ SubSeq(s, 1, n) \in Seq(S) /\ Len(SubSeq(s, 1, n)) = n /\ n \in Nat
           /\ \A i \in 1..n : SubSeq(s, 1, n)[i] = s[i]
           /\ \A t \in Seq(S) : SubSeq(s \o t, 1, n) = SubSeq(s, 1, n)
<1>1. 0 \in 0..Len(s) /\ n \in 0..Len(s) /\ 0 + 1 = 1 /\ n - 0 = n /\ Len(s) \in Nat /\ n \in Nat
  BY LenProperties
<1>2. \A i \in 1..n : 0 + i = i
  BY <1>1
<1>3. /\ SubSeq(s, 0 + 1, n) \in Seq(S) /\ Len(SubSeq(s, 0 + 1, n)) = n - 0
      /\ \A i \in 1..(n - 0) : SubSeq(s, 0 + 1, n)[i] = s[0 + i]
  BY <1>1, Piece
<1>4. \A t \in Seq(S) : SubSeq(s \o t, 0 + 1, n) = SubSeq(s, 0 + 1, n)
  BY <1>1, SamePiece
<1> QED  BY <1>1, <1>2, <1>3, <1>4

(* What is put behind the replies that wait does not disturb those.        *)
LEMMA WrittenMore ==
    ASSUME NEW bytes, NEW waiting, NEW due, NEW n, NEW at, Written(bytes, waiting, due, n, at),
           NEW more \in Seq(Seq(Byte))
    PROVE  Written(bytes, waiting \o more, due, n, at)
<1> DEFINE all == waiting \o more
<1>1. /\ waiting \in Seq(Seq(Byte)) /\ Len(waiting) \in Nat
      /\ \A i \in 1..(Len(due) - n) : i <= Len(waiting) /\ IsFrame(waiting[i], due[n + i])
      /\ Len(due) \in Nat /\ n \in 0..Len(due)
  BY LenProperties DEF Written
<1>2. /\ all \in Seq(Seq(Byte)) /\ Len(all) = Len(waiting) + Len(more) /\ Len(more) \in Nat
      /\ \A i \in 1..Len(waiting) : all[i] = waiting[i]
  BY <1>1, ConcatProperties, LenProperties
<1> HIDE DEF all
<1>3. \A i \in 1..(Len(due) - n) : i <= Len(all) /\ IsFrame(all[i], due[n + i])
  <2> SUFFICES ASSUME NEW i \in 1..(Len(due) - n)
               PROVE  i <= Len(all) /\ IsFrame(all[i], due[n + i])
    OBVIOUS
  <2>1. i <= Len(waiting) /\ IsFrame(waiting[i], due[n + i])
    BY <1>1
  <2>2. i \in 1..Len(waiting) /\ i <= Len(all)
    BY <1>1, <1>2, <2>1
  <2> QED  BY <1>2, <2>1, <2>2
<1>4. Written(bytes, all, due, n, at)
  BY <1>2, <1>3 DEF Written
<1> QED  BY <1>4 DEF all

(* Further frames may wait for further payloads.                           *)
LEMMA WrittenDue ==
    ASSUME NEW bytes, NEW waiting, NEW due, NEW n, NEW at, Written(bytes, waiting, due, n, at),
           Exactly(bytes, waiting, due, n, at), NEW frames, NEW payloads,
           AreFrames(frames, payloads)
    PROVE  /\ Written(bytes, waiting \o frames, due \o payloads, n, at)
           /\ Exactly(bytes, waiting \o frames, due \o payloads, n, at)
<1> DEFINE all == waiting \o frames
           new == due \o payloads
<1>1. /\ waiting \in Seq(Seq(Byte)) /\ Len(waiting) \in Nat
      /\ due \in Seq(Seq(Byte)) /\ Len(due) \in Nat /\ n \in 0..Len(due)
      /\ Len(waiting) = Len(due) - n /\ at[n] = Len(bytes)
      /\ bytes \in Seq(Byte) /\ Splits(bytes, SubSeq(due, 1, n), at)
  BY LenProperties DEF Written, Exactly
<1>2. /\ frames \in Seq(Seq(Byte)) /\ payloads \in Seq(Seq(Byte))
      /\ Len(frames) = Len(payloads) /\ Len(payloads) \in Nat
      /\ \A i \in 1..Len(frames) : IsFrame(frames[i], payloads[i])
  BY LenProperties DEF AreFrames
<1>3. /\ all \in Seq(Seq(Byte)) /\ Len(all) = Len(waiting) + Len(frames)
      /\ \A i \in 1..Len(waiting) + Len(frames) :
             all[i] = IF i <= Len(waiting) THEN waiting[i] ELSE frames[i - Len(waiting)]
  <2> DEFINE T == Seq(Byte)
  <2>1. waiting \in Seq(T) /\ frames \in Seq(T)
    BY <1>1, <1>2
  <2> HIDE DEF T
  <2>2. /\ all \in Seq(T) /\ Len(all) = Len(waiting) + Len(frames)
        /\ \A i \in 1..Len(waiting) + Len(frames) :
               all[i] = IF i <= Len(waiting) THEN waiting[i] ELSE frames[i - Len(waiting)]
    BY <2>1, ConcatProperties, Zenon
  <2> QED  BY <2>2 DEF T
<1>4. /\ new \in Seq(Seq(Byte)) /\ Len(new) = Len(due) + Len(payloads)
      /\ \A i \in 1..Len(due) + Len(payloads) :
             new[i] = IF i <= Len(due) THEN due[i] ELSE payloads[i - Len(due)]
  BY <1>1, <1>2, ConcatProperties
<1>5. SubSeq(new, 1, n) = SubSeq(due, 1, n)
  BY <1>1, <1>2, FirstOnes
<1> HIDE DEF all, new
<1>6. Len(all) = Len(new) - n /\ n \in 0..Len(new) /\ Len(new) - n \in Nat
  BY <1>1, <1>2, <1>3, <1>4
<1>7. ASSUME NEW i \in 1..(Len(new) - n)
      PROVE  i <= Len(all) /\ IsFrame(all[i], new[n + i])
  <2> DEFINE W == Len(waiting)
             j == i - W
  <2>1. i <= Len(all) /\ i \in 1..(W + Len(frames)) /\ n + i \in 1..(Len(due) + Len(payloads))
    BY <1>1, <1>2, <1>3, <1>4, <1>6
  <2>2. CASE i <= W
    <3>1. n + i <= Len(due) /\ i \in 1..(Len(due) - n)
      BY <1>1, <2>1, <2>2
    <3>2. IsFrame(waiting[i], due[n + i])
      BY <3>1 DEF Written
    <3>3. all[i] = waiting[i] /\ new[n + i] = due[n + i]
      BY <1>3, <1>4, <2>1, <2>2, <3>1
    <3> QED  BY <2>1, <3>2, <3>3
  <2>3. CASE ~(i <= W)
    <3>1. ~(n + i <= Len(due)) /\ j \in 1..Len(frames) /\ (n + i) - Len(due) = j
      BY <1>1, <1>2, <2>1, <2>3
    <3>2. all[i] = frames[j]
      BY <1>3, <2>1, <2>3
    <3>3. new[n + i] = payloads[j]
      BY <1>4, <2>1, <3>1
    <3> HIDE DEF j
    <3>4. IsFrame(frames[j], payloads[j])
      BY <1>2, <3>1
    <3> QED  BY <2>1, <3>2, <3>3, <3>4
  <2> QED  BY <2>2, <2>3
<1>8. Written(bytes, all, new, n, at)
  BY <1>1, <1>3, <1>4, <1>5, <1>6, <1>7 DEF Written
<1>9. Exactly(bytes, all, new, n, at)
  BY <1>1, <1>6 DEF Exactly
<1> QED  BY <1>8, <1>9 DEF all, new

(* Frames lie where they lay when bytes are written behind them.           *)
LEMMA SplitsStay ==
    ASSUME NEW bytes \in Seq(Byte), NEW payloads \in Seq(Seq(Byte)), NEW at,
           Splits(bytes, payloads, at), NEW more \in Seq(Byte)
    PROVE  Splits(bytes \o more, payloads, at)
<1> DEFINE all == bytes \o more
           N == Len(payloads)
<1>1. all \in Seq(Byte) /\ Len(bytes) <= Len(all) /\ Len(bytes) \in Nat /\ Len(all) \in Nat
  BY BytesAppended, LenProperties
<1>2. N \in Nat /\ at \in [0..N -> 0..Len(bytes)] /\ at[0] = 0
  BY LenProperties DEF Splits
<1>3. ASSUME NEW i \in 1..N
      PROVE  /\ at[i - 1] <= at[i]
             /\ IsFrame(SubSeq(all, at[i - 1] + 1, at[i]), payloads[i])
  <2>1. at[i - 1] <= at[i] /\ IsFrame(SubSeq(bytes, at[i - 1] + 1, at[i]), payloads[i])
    BY DEF Splits
  <2>2. i \in 0..N /\ i - 1 \in 0..N
    BY <1>2
  <2> DEFINE a == at[i - 1]
             b == at[i]
  <2>3. a \in 0..Len(bytes) /\ b \in 0..Len(bytes)
    <3> HIDE DEF N
    <3> QED  BY <1>2, <2>2
  <2>4. a <= b
    BY <2>1
  <2> HIDE DEF a, b
  <2>5. b \in a..Len(bytes)
    BY <1>1, <2>3, <2>4
  <2>6. SubSeq(all, a + 1, b) = SubSeq(bytes, a + 1, b)
    BY <2>3, <2>5, SamePiece
  <2> QED  BY <2>1, <2>6 DEF a, b
<1>4. at \in [0..N -> 0..Len(all)]
  <2>1. 0..Len(bytes) \subseteq 0..Len(all)
    BY <1>1
  <2> HIDE DEF all, N
  <2> QED  BY <1>2, <2>1
<1>5. Splits(all, payloads, at)
  <2> HIDE DEF all
  <2> QED  BY <1>2, <1>3, <1>4 DEF Splits
<1> QED  BY <1>5

(* A frame that is written behind all of them is the next.                 *)
LEMMA SplitsGrow ==
    ASSUME NEW bytes \in Seq(Byte), NEW payloads \in Seq(Seq(Byte)), NEW at,
           Splits(bytes, payloads, at), at[Len(payloads)] = Len(bytes),
           NEW frame, NEW payload, IsFrame(frame, payload)
    PROVE  \E places : /\ Splits(bytes \o frame, Append(payloads, payload), places)
                       /\ places[Len(payloads) + 1] = Len(bytes \o frame)
<1> DEFINE all == bytes \o frame
           N == Len(payloads)
           L == Len(bytes)
           M == Len(all)
           new == Append(payloads, payload)
           places == [i \in 0..(N + 1) |-> IF i = N + 1 THEN M ELSE at[i]]
<1>1. frame \in Seq(Byte) /\ payload \in Seq(Byte)
  BY DEF IsFrame
<1>2. /\ all \in Seq(Byte) /\ M = L + Len(frame) /\ L \in Nat /\ Len(frame) \in Nat
      /\ M \in Nat /\ N \in Nat
  BY <1>1, BytesAppended, LenProperties
<1>3. Has(all, L, frame)
  BY <1>1, Behind
<1>4. /\ new \in Seq(Seq(Byte)) /\ Len(new) = N + 1 /\ new[N + 1] = payload
      /\ \A i \in 1..N : new[i] = payloads[i]
  BY <1>1, AppendProperties
<1>5. Splits(all, payloads, at)
  BY <1>1, SplitsStay
<1>6. SubSeq(all, L + 1, M) = frame
  BY <1>2, <1>3 DEF Has
<1>7. at \in [0..N -> 0..M] /\ at[0] = 0
  BY <1>5 DEF Splits
<1>8. at[N] = L
  OBVIOUS
<1> HIDE DEF all, new, L, M, N
<1>9. /\ places \in [0..(N + 1) -> 0..M] /\ places[0] = 0 /\ places[N + 1] = M
      /\ \A i \in 0..N : places[i] = at[i]
  BY <1>2, <1>7
<1> HIDE DEF places
<1>10. ASSUME NEW i \in 1..(N + 1)
       PROVE  /\ places[i - 1] <= places[i]
              /\ IsFrame(SubSeq(all, places[i - 1] + 1, places[i]), new[i])
  <2>1. CASE i = N + 1
    <3>1. i - 1 = N /\ N \in 0..N
      BY <1>2, <2>1
    <3>2. places[i - 1] = L /\ places[i] = M /\ new[i] = payload
      BY <1>4, <1>8, <1>9, <2>1, <3>1
    <3>3. L <= M
      BY <1>2
    <3> QED  BY <1>6, <3>2, <3>3
  <2>2. CASE i # N + 1
    <3>1. i \in 1..N /\ i \in 0..N /\ i - 1 \in 0..N
      BY <1>2, <2>2
    <3>2. places[i - 1] = at[i - 1] /\ places[i] = at[i] /\ new[i] = payloads[i]
      BY <1>4, <1>9, <3>1
    <3>3. at[i - 1] <= at[i] /\ IsFrame(SubSeq(all, at[i - 1] + 1, at[i]), payloads[i])
      BY <1>5, <3>1 DEF Splits, N
    <3> QED  BY <3>2, <3>3
  <2> QED  BY <2>1, <2>2
<1>11. Splits(all, new, places)
  BY <1>4, <1>9, <1>10 DEF Splits, M
<1>12. \E p : Splits(all, new, p) /\ p[N + 1] = M
  BY <1>9, <1>11
<1> QED  BY <1>12 DEF all, new, M, N

(* The first reply that waits is written: of those that are due, the next. *)
LEMMA WrittenReply ==
    ASSUME NEW bytes, NEW waiting, NEW due, NEW n, NEW at, Written(bytes, waiting, due, n, at),
           waiting # <<>>
    PROVE  \E k, places :
               /\ Written(bytes \o waiting[1], Tail(waiting), due, k, places)
               /\ Exactly(bytes, waiting, due, n, at) =>
                      Exactly(bytes \o waiting[1], Tail(waiting), due, k, places)
<1> DEFINE reply == waiting[1]
           all == bytes \o reply
           rest == Tail(waiting)
           first == SubSeq(due, 1, n)
<1>1. /\ waiting \in Seq(Seq(Byte)) /\ Len(waiting) \in Nat
      /\ due \in Seq(Seq(Byte)) /\ Len(due) \in Nat /\ n \in 0..Len(due)
      /\ bytes \in Seq(Byte) /\ Splits(bytes, first, at)
  BY LenProperties DEF Written
<1>2. /\ Len(waiting) > 0 /\ rest \in Seq(Seq(Byte)) /\ Len(rest) = Len(waiting) - 1
      /\ \A i \in 1..Len(rest) : rest[i] = waiting[i + 1]
      /\ reply \in Seq(Byte)
  <2>1. Len(waiting) > 0
    BY <1>1, EmptySeq
  <2>2. 1 \in 1..Len(waiting)
    BY <1>1, <2>1
  <2>3. reply \in Seq(Byte)
    BY <1>1, <2>2, ElementOfSeq
  <2>4. /\ rest \in Seq(Seq(Byte)) /\ Len(rest) = Len(waiting) - 1
        /\ \A i \in 1..Len(rest) : rest[i] = waiting[i + 1]
    <3> DEFINE T == Seq(Byte)
    <3>1. waiting \in Seq(T)
      BY <1>1
    <3> HIDE DEF T
    <3>2. /\ rest \in Seq(T) /\ Len(rest) = Len(waiting) - 1
          /\ \A i \in 1..Len(rest) : rest[i] = waiting[i + 1]
      BY <2>1, <3>1
    <3> QED  BY <3>2 DEF T
  <2> QED  BY <2>1, <2>3, <2>4
<1>3. all \in Seq(Byte) /\ first \in Seq(Seq(Byte)) /\ Len(first) = n
  BY <1>1, <1>2, BytesAppended, FirstOnes
<1> HIDE DEF reply, all, rest, first
<1>4. ASSUME NEW k \in 0..Len(due), n <= k, k <= n + 1, k = n => n = Len(due)
      PROVE  \A i \in 1..(Len(due) - k) : i <= Len(rest) /\ IsFrame(rest[i], due[k + i])
  <2> SUFFICES ASSUME NEW i \in 1..(Len(due) - k)
               PROVE  i <= Len(rest) /\ IsFrame(rest[i], due[k + i])
    OBVIOUS
  <2>1. i + 1 \in 1..(Len(due) - n) /\ n + (i + 1) = k + i
    BY <1>1, <1>4
  <2>2. i + 1 <= Len(waiting) /\ IsFrame(waiting[i + 1], due[n + (i + 1)])
    BY <2>1 DEF Written
  <2>3. i \in 1..Len(rest)
    BY <1>1, <1>2, <2>2
  <2> QED  BY <1>2, <2>1, <2>2, <2>3
<1>5. CASE n < Len(due)
  <2>1. at[Len(first)] = Len(bytes) /\ 1 \in 1..(Len(due) - n)
    BY <1>1, <1>3, <1>5 DEF Written
  <2>2. IsFrame(reply, due[n + 1])
    BY <2>1 DEF Written, reply
  <2>3. PICK places : /\ Splits(all, Append(first, due[n + 1]), places)
                      /\ places[n + 1] = Len(all)
    BY <1>1, <1>3, <2>1, <2>2, SplitsGrow DEF all
  <2>4. SubSeq(due, 1, n + 1) = Append(first, due[n + 1])
    <3>1. n + 1 \in 1..Len(due) /\ (n + 1) - 1 = n
      BY <1>1, <1>5
    <3> QED  BY <1>1, <3>1, Beginnings DEF first
  <2>5. n + 1 \in 0..Len(due) /\ n <= n + 1 /\ n + 1 # n
    BY <1>1, <1>5
  <2>6. \A i \in 1..(Len(due) - (n + 1)) : i <= Len(rest) /\ IsFrame(rest[i], due[(n + 1) + i])
    BY <1>4, <2>5
  <2>7. Written(all, rest, due, n + 1, places)
    BY <1>1, <1>2, <1>3, <2>3, <2>4, <2>5, <2>6 DEF Written
  <2>8. Exactly(bytes, waiting, due, n, at) => Exactly(all, rest, due, n + 1, places)
    BY <1>1, <1>2, <2>3 DEF Exactly
  <2> QED  BY <2>7, <2>8 DEF all, rest, reply
<1>6. CASE ~(n < Len(due))
  <2>1. n = Len(due)
    BY <1>1, <1>6
  <2>2. Splits(all, first, at)
    BY <1>1, <1>2, <1>3, SplitsStay DEF all
  <2>3. \A i \in 1..(Len(due) - n) : i <= Len(rest) /\ IsFrame(rest[i], due[n + i])
    BY <1>1, <1>4, <2>1
  <2>4. Written(all, rest, due, n, at)
    BY <1>1, <1>2, <1>3, <1>6, <2>2, <2>3 DEF Written, first
  <2>5. ~Exactly(bytes, waiting, due, n, at)
    BY <1>1, <1>2, <2>1 DEF Exactly
  <2> QED  BY <2>4, <2>5 DEF all, rest, reply
<1> QED  BY <1>5, <1>6

\* What the client expects to its messages; those that have been handled; and
\* what is due to them.
AnswersTo(messages) == [i \in DOMAIN messages |-> Expected(messages[i])]

OnlyMessages == Handled <= Len(sent)

Answered == IF OnlyMessages THEN Handled ELSE Len(sent)

Due == Joined(AnswersTo(sent), Answered)

\* The replies to the messages that have been handled have been written or
\* wait, in order; others come behind them, and only when the client has left
\* the protocol.
AnswersInv ==
    \E n, at : /\ Written(replies, outgoing, Due, n, at)
               /\ OnlyMessages => Exactly(replies, outgoing, Due, n, at)

(* Sequences with the same first elements begin with the same sequence.    *)
LEMMA SameFirstOnes ==
    ASSUME NEW S, NEW s \in Seq(S), NEW t \in Seq(S), NEW n \in 0..Len(s), n <= Len(t),
           \A i \in 1..n : s[i] = t[i]
    PROVE  SubSeq(s, 1, n) = SubSeq(t, 1, n)
<1> DEFINE u == SubSeq(s, 1, n)
           v == SubSeq(t, 1, n)
<1>1. Len(s) \in Nat /\ Len(t) \in Nat /\ n \in 0..Len(t) /\ n \in Nat
  BY LenProperties
<1>2. u \in Seq(S) /\ Len(u) = n /\ \A i \in 1..n : u[i] = s[i]
  BY FirstOnes
<1>3. v \in Seq(S) /\ Len(v) = n /\ \A i \in 1..n : v[i] = t[i]
  BY <1>1, FirstOnes
<1> HIDE DEF u, v
<1>4. \A i \in 1..Len(u) : u[i] = v[i]
  BY <1>2, <1>3
<1>5. u = v
  BY <1>1, <1>2, <1>3, <1>4, SeqEqual
<1> QED  BY <1>5 DEF u, v

(* What a sequence begins with is its prefix.                              *)
LEMMA BeginningIsPrefix ==
    ASSUME NEW S, NEW s \in Seq(S), NEW t \in Seq(S), Begins(s, t)
    PROVE  IsPrefix(s, t)
<1>1. Len(s) \in Nat /\ Len(s) \in 0..Len(s) /\ Len(s) <= Len(t)
      /\ \A i \in 1..Len(s) : s[i] = t[i]
  BY LenProperties DEF Begins
<1>2. SubSeq(s, 1, Len(s)) = SubSeq(t, 1, Len(s))
  BY <1>1, SameFirstOnes
<1> QED  BY <1>1, <1>2 DEF IsPrefix

(* A message of the client can be answered as the client expects.          *)
LEMMA MessageIsAnswered ==
    ASSUME IsReadable, IsSendable, NEW m \in ClientMessages
    PROVE  AreFrames(Replies(m.handler, m.fields), Expected(m))
<1>1. PICK id, body : body \in Seq(Byte) /\ Handles(m, id, body)
  BY MessageIsHandled
<1>2. PICK end : ReadAll(Reads(m.handler), body) = Got(m.fields, end)
  BY <1>1 DEF Handles
<1>3. /\ Ok(ReadAll(Reads(m.handler), body))
      /\ ReadAll(Reads(m.handler), body).value = m.fields
  BY <1>2 DEF Ok, Got
<1>4. AreAnswerable(m.handler, ReadAll(Reads(m.handler), body).value)
  BY <1>1, <1>3, ReadIsAnswerable
<1>5. AreAnswerable(m.handler, m.fields)
  BY <1>3, <1>4
<1> QED  BY <1>5, RepliesAreFrames

\* The entry of the history is for a message of the client.
IsEntry(r) == \E m \in ClientMessages : r.handler = m.handler /\ r.fields = m.fields

(* So can those that it has written.                                       *)
LEMMA AnswersToMessages ==
    ASSUME IsReadable, IsSendable, NEW S, NEW list \in Seq(S),
           \A i \in 1..Len(list) : IsEntry(list[i])
    PROVE  /\ AnswersTo(list) \in Seq(Seq(Seq(Byte))) /\ Len(AnswersTo(list)) = Len(list)
           /\ \A i \in 1..Len(list) :
                  /\ AnswersTo(list)[i] = Expected(list[i])
                  /\ AreFrames(Replies(list[i].handler, list[i].fields), AnswersTo(list)[i])
<1> DEFINE answers == AnswersTo(list)
           N == Len(list)
           T == Seq(Seq(Byte))
<1>1. DOMAIN list = 1..N /\ N \in Nat
  BY LenProperties
<1>2. ASSUME NEW i \in 1..N
      PROVE  /\ Expected(list[i]) \in T
             /\ AreFrames(Replies(list[i].handler, list[i].fields), Expected(list[i]))
  <2>1. PICK m \in ClientMessages : list[i].handler = m.handler /\ list[i].fields = m.fields
    BY DEF IsEntry
  <2>2. Expected(list[i]) = Expected(m)
    BY <2>1 DEF Expected
  <2>3. AreFrames(Replies(m.handler, m.fields), Expected(m))
    BY MessageIsAnswered
  <2> QED  BY <2>1, <2>2, <2>3 DEF AreFrames
<1>3. answers = [i \in 1..N |-> Expected(list[i])]
  BY <1>1 DEF AnswersTo
<1>4. \A i \in 1..N : answers[i] = Expected(list[i])
  BY <1>3
<1> HIDE DEF N, T
<1>5. answers \in [1..N -> T]
  BY <1>2, <1>3
<1> HIDE DEF answers
<1>6. answers \in Seq(T) /\ Len(answers) = N
  BY <1>1, <1>5
<1> QED  BY <1>2, <1>4, <1>6 DEF answers, N, T

(* The client's messages are such entries.                                 *)
LEMMA SentAreEntries ==
    ASSUME NEW ms \in Seq(ClientMessages), ClientInv(ms)
    PROVE  /\ sent \in Seq(SentRecords) /\ Len(sent) \in Nat
           /\ \A i \in 1..Len(sent) : IsEntry(sent[i])
<1>1. sent \in Seq(SentRecords) /\ Len(sent) \in Nat /\ Len(ms) = Len(sent)
  BY LenProperties DEF ClientInv
<1>2. ASSUME NEW i \in 1..Len(sent) PROVE IsEntry(sent[i])
  <2>1. ms[i] \in ClientMessages
    BY <1>1, ElementOfSeq
  <2>2. sent[i].handler = ms[i].handler /\ sent[i].fields = ms[i].fields
    BY DEF ClientInv, IsSent
  <2> QED  BY <2>1, <2>2 DEF IsEntry
<1> QED  BY <1>1, <1>2

(* At the start nothing is due, and nothing has been written.              *)
LEMMA AnswersInit == Init => AnswersInv
<1> SUFFICES ASSUME Init PROVE AnswersInv
  OBVIOUS
<1>1. /\ sent = <<>> /\ packets = <<>> /\ incoming = <<>>
      /\ replies = <<>> /\ outgoing = <<>>
  BY DEF Init
<1>2. Len(<<>>) = 0 /\ <<>> \in Seq(Byte) /\ <<>> \in Seq(Seq(Byte)) /\ <<>> \in Seq(Seq(Seq(Byte)))
  BY EmptySeq
<1>3. AnswersTo(sent) = <<>>
  <2>1. DOMAIN sent = {}
    BY <1>1
  <2> QED  BY <1>1, <2>1 DEF AnswersTo
<1>4. Answered = 0 /\ Handled = 0
  BY <1>1, <1>2 DEF Answered, OnlyMessages, Handled
<1>5. Due = <<>>
  <2>1. Joined(AnswersTo(sent), 0) = <<>>
    BY <1>2, <1>3, JoinedProperties
  <2> QED  BY <1>4, <2>1 DEF Due
<1> DEFINE at == [i \in {0} |-> 0]
           none == <<>>
<1>6. SubSeq(none, 1, 0) = none
  BY <1>2, Beginnings
<1>7. Splits(none, none, at)
  <2>1. Len(none) = 0 /\ 0..0 = {0} /\ 1..0 = {}
    BY <1>2
  <2>2. at \in [{0} -> {0}] /\ at[0] = 0
    OBVIOUS
  <2> HIDE DEF at, none
  <2> QED  BY <2>1, <2>2 DEF Splits
<1>8. at[0] = 0 /\ 0 \in 0..0 /\ ~(0 < 0) /\ 1..(0 - 0) = {}
  OBVIOUS
<1> HIDE DEF at
<1>9. Written(none, none, none, 0, at)
  BY <1>2, <1>6, <1>7, <1>8 DEF Written
<1>10. Exactly(none, none, none, 0, at)
  BY <1>2, <1>8 DEF Exactly
<1>11. Written(replies, outgoing, Due, 0, at) /\ Exactly(replies, outgoing, Due, 0, at)
  BY <1>1, <1>5, <1>9, <1>10
<1> QED  BY <1>11 DEF AnswersInv

(* It stays so while nothing is handled and nothing written.               *)
LEMMA AnswersStay ==
    ASSUME AnswersInv, Due' = Due, OnlyMessages' => OnlyMessages,
           UNCHANGED <<outgoing, replies>>
    PROVE  AnswersInv'
<1>1. PICK n, at : /\ Written(replies, outgoing, Due, n, at)
                   /\ OnlyMessages => Exactly(replies, outgoing, Due, n, at)
  BY DEF AnswersInv
<1>2. Written(replies', outgoing', Due', n, at)
  BY <1>1
<1>3. OnlyMessages' => Exactly(replies', outgoing', Due', n, at)
  BY <1>1
<1> QED  BY <1>2, <1>3 DEF AnswersInv

(* When a message is written nothing is due yet that was not before.       *)
LEMMA AnswersGoOn ==
    ASSUME IsReadable, IsSendable, IInv, NEW ms \in Seq(ClientMessages), ClientInv(ms),
           WorkerInv(ms), AnswersInv, NEW m \in ClientMessages, Send(m)
    PROVE  AnswersInv'
<1>1. /\ sent' = Append(sent, [at |-> Len(stream'), handler |-> m.handler,
                               fields |-> m.fields])
      /\ UNCHANGED <<packets, incoming, outgoing, replies>> /\ ~IsGarbled
  BY DEF Send, readVars, workVars
<1>2. /\ Len(packets) \in Nat /\ Len(incoming) \in Nat /\ Handled \in Nat
      /\ Handled = Len(packets) - Len(incoming)
  BY LenProperties DEF IInv, TypeInv, WorkerInv, Handled
<1>3. /\ sent \in Seq(SentRecords) /\ Len(sent) \in Nat
      /\ \A i \in 1..Len(sent) : IsEntry(sent[i])
  BY SentAreEntries
<1>4. PICK r : r = [at |-> Len(stream'), handler |-> m.handler, fields |-> m.fields]
  OBVIOUS
<1>5. r \in SentRecords /\ IsEntry(r)
  <2>1. IInv'
    BY SendStep
  <2>2. Len(stream') \in Nat
    BY <2>1, LenProperties DEF IInv, TypeInv
  <2> QED  BY <1>4, <2>2 DEF SentRecords, IsEntry
<1>6. PICK old, new : old = sent /\ new = sent'
  OBVIOUS
<1>7. /\ old \in Seq(SentRecords) /\ new \in Seq(SentRecords) /\ Len(new) = Len(old) + 1
      /\ Len(old) \in Nat /\ \A i \in 1..Len(old) : new[i] = old[i] /\ IsEntry(old[i])
      /\ \A i \in 1..Len(new) : IsEntry(new[i])
  <2>1. new = Append(old, r) /\ old \in Seq(SentRecords) /\ Len(old) \in Nat
    BY <1>1, <1>3, <1>4, <1>6
  <2>2. /\ new \in Seq(SentRecords) /\ Len(new) = Len(old) + 1 /\ new[Len(old) + 1] = r
        /\ \A i \in 1..Len(old) : new[i] = old[i]
    BY <1>5, <2>1, AppendProperties
  <2>3. \A i \in 1..Len(old) : IsEntry(old[i])
    BY <1>3, <1>6
  <2>4. \A i \in 1..Len(new) : IsEntry(new[i])
    <3> SUFFICES ASSUME NEW i \in 1..Len(new) PROVE IsEntry(new[i])
      OBVIOUS
    <3>1. i = Len(old) + 1 \/ i \in 1..Len(old)
      BY <2>1, <2>2
    <3> QED  BY <1>5, <2>2, <2>3, <3>1
  <2> QED  BY <2>1, <2>2, <2>3, <2>4
<1>8. Handled <= Len(sent) /\ Handled' = Handled
  <2>1. ASSUME Handled > Len(sent) PROVE FALSE
    <3>1. Handled \in 1..Len(packets)
      BY <1>2, <1>3, <2>1
    <3> QED  BY <1>1, <1>2, <1>3, <2>1, <3>1, PacketsBehind
  <2> QED  BY <1>1, <1>2, <1>3, <2>1 DEF Handled
<1>9. PICK k : k = Handled
  OBVIOUS
<1>10. k \in 0..Len(old) /\ k <= Len(new)
  BY <1>2, <1>6, <1>7, <1>8, <1>9
<1>11. Joined(AnswersTo(new), k) = Joined(AnswersTo(old), k)
  <2> DEFINE a == AnswersTo(old)
             b == AnswersTo(new)
  <2>1. /\ a \in Seq(Seq(Seq(Byte))) /\ Len(a) = Len(old)
        /\ \A i \in 1..Len(old) : a[i] = Expected(old[i])
    BY <1>7, AnswersToMessages
  <2>2. /\ b \in Seq(Seq(Seq(Byte))) /\ Len(b) = Len(new)
        /\ \A i \in 1..Len(new) : b[i] = Expected(new[i])
    BY <1>7, AnswersToMessages
  <2> HIDE DEF a, b
  <2>3. \A i \in 1..k : a[i] = b[i]
    <3> SUFFICES ASSUME NEW i \in 1..k PROVE a[i] = b[i]
      OBVIOUS
    <3>1. i \in 1..Len(old) /\ i \in 1..Len(new)
      BY <1>7, <1>10
    <3>2. new[i] = old[i]
      BY <1>7, <3>1
    <3> QED  BY <2>1, <2>2, <3>1, <3>2
  <2>4. k \in 0..Len(a) /\ k <= Len(b)
    BY <1>10, <2>1, <2>2
  <2>5. SubSeq(a, 1, k) = SubSeq(b, 1, k)
    BY <2>1, <2>2, <2>3, <2>4, SameFirstOnes
  <2> QED  BY <2>5 DEF Joined, a, b
<1>12. OnlyMessages /\ Answered = k /\ Answered' = k
  <2>1. Handled <= Len(sent) /\ Handled' <= Len(sent')
    BY <1>6, <1>8, <1>9, <1>10
  <2> QED  BY <1>8, <1>9, <2>1 DEF OnlyMessages, Answered
<1>13. Due = Joined(AnswersTo(old), k) /\ Due' = Joined(AnswersTo(new), k)
  BY <1>6, <1>12 DEF Due
<1>14. Due' = Due
  BY <1>11, <1>13
<1> QED  BY <1>1, <1>12, <1>14, AnswersStay

(* The handler of a message adds what is due to it; what another packet is *)
(* answered with comes behind all that is due.                             *)
LEMMA AnswersHandled ==
    ASSUME IsReadable, IsSendable, IInv, NEW ms \in Seq(ClientMessages), ClientInv(ms),
           WorkerInv(ms), AnswersInv, HandlePacket
    PROVE  AnswersInv'
<1>1. /\ packets \in Seq(PacketRecords) /\ incoming \in Seq(PacketRecords)
      /\ Len(packets) \in Nat /\ Len(incoming) \in Nat /\ Len(sent) \in Nat /\ Handled \in Nat
      /\ sent \in Seq(SentRecords) /\ Handled = Len(packets) - Len(incoming)
  BY LenProperties DEF IInv, TypeInv, ClientInv, WorkerInv, Handled
<1>2. /\ incoming # <<>> /\ incoming' = Tail(incoming)
      /\ UNCHANGED <<sent, packets, replies>>
  BY PacketHandled
<1>3. Len(incoming) > 0 /\ Len(incoming') = Len(incoming) - 1
  <2>1. Len(incoming) > 0
    BY <1>1, <1>2, EmptySeq
  <2> QED  BY <1>1, <1>2, <2>1
<1>4. PICK i : i = Handled + 1
  OBVIOUS
<1>5. i \in 1..Len(packets) /\ incoming[1] = packets[i] /\ Handled' = i
  <2>1. 1 \in 1..Len(incoming)
    BY <1>1, <1>3
  <2>2. incoming[1] = packets[Handled + 1]
    BY <2>1 DEF WorkerInv
  <2>3. Handled' = Len(packets) - (Len(incoming) - 1)
    BY <1>2, <1>3 DEF Handled
  <2> QED  BY <1>1, <1>3, <1>4, <2>2, <2>3
<1>6. PICK due, n, at : /\ due = Due /\ Written(replies, outgoing, due, n, at)
                        /\ OnlyMessages => Exactly(replies, outgoing, due, n, at)
  BY DEF AnswersInv
<1>7. CASE i <= Len(sent)
  <2>1. outgoing' = outgoing \o Replies(sent[i].handler, sent[i].fields)
    BY <1>4, <1>5, <1>7, MessageHandled
  <2> DEFINE answers == AnswersTo(sent)
             N == Len(sent)
  <2>2. \A j \in 1..Len(sent) : IsEntry(sent[j])
    BY SentAreEntries
  <2>3. /\ answers \in Seq(Seq(Seq(Byte))) /\ Len(answers) = N
        /\ \A j \in 1..N :
               AreFrames(Replies(sent[j].handler, sent[j].fields), answers[j])
    BY <1>1, <2>2, AnswersToMessages
  <2>4. i \in 1..N /\ i - 1 = Handled /\ OnlyMessages /\ OnlyMessages'
    BY <1>1, <1>2, <1>4, <1>5, <1>7 DEF OnlyMessages
  <2>5. Answered = i - 1 /\ Answered' = i
    BY <1>5, <2>4 DEF Answered
  <2>6. due = Joined(answers, i - 1) /\ Due' = Joined(answers, i)
    BY <1>2, <1>6, <2>5 DEF Due
  <2> HIDE DEF answers, N
  <2>7. Joined(answers, i) = Joined(answers, i - 1) \o answers[i]
    BY <2>3, <2>4, JoinedProperties
  <2>8. Due' = due \o answers[i]
    BY <2>6, <2>7
  <2>9. PICK frames, payloads : /\ frames = Replies(sent[i].handler, sent[i].fields)
                                /\ payloads = answers[i]
    OBVIOUS
  <2>10. AreFrames(frames, payloads)
    BY <2>3, <2>4, <2>9
  <2>11. Exactly(replies, outgoing, due, n, at)
    BY <1>6, <2>4
  <2>12. /\ Written(replies, outgoing \o frames, due \o payloads, n, at)
         /\ Exactly(replies, outgoing \o frames, due \o payloads, n, at)
    BY <1>6, <2>10, <2>11, WrittenDue
  <2>13. Written(replies', outgoing', Due', n, at) /\ Exactly(replies', outgoing', Due', n, at)
    BY <1>2, <2>1, <2>8, <2>9, <2>12
  <2> QED  BY <2>13 DEF AnswersInv
<1>8. CASE ~(i <= Len(sent))
  <2>1. Handled >= Len(sent) /\ ~OnlyMessages'
    BY <1>1, <1>2, <1>4, <1>5, <1>8 DEF OnlyMessages
  <2>2. Answered = Len(sent) /\ Answered' = Len(sent)
    <3>1. OnlyMessages => Handled = Len(sent)
      BY <1>1, <2>1 DEF OnlyMessages
    <3>2. Answered = Len(sent)
      BY <3>1 DEF Answered
    <3>3. Answered' = Len(sent)
      BY <1>2, <2>1 DEF Answered
    <3> QED  BY <3>2, <3>3
  <2>3. Due' = due
    BY <1>2, <1>6, <2>2 DEF Due
  <2>4. ASSUME outgoing' = outgoing PROVE AnswersInv'
    <3>1. Written(replies', outgoing', Due', n, at)
      BY <1>2, <1>6, <2>3, <2>4
    <3> QED  BY <2>1, <3>1 DEF AnswersInv
  <2>5. ASSUME NEW more \in Seq(Seq(Byte)), outgoing' = outgoing \o more PROVE AnswersInv'
    <3>1. Written(replies, outgoing \o more, due, n, at)
      BY <1>6, WrittenMore
    <3>2. Written(replies', outgoing', Due', n, at)
      BY <1>2, <2>3, <2>5, <3>1
    <3> QED  BY <2>1, <3>2 DEF AnswersInv
  <2> DEFINE p == incoming[1]
             handler == packetRouter(p)
             read == ReadAll(Reads(handler), p.data)
  <2>6. /\ Ok(read) => outgoing' = outgoing \o Replies(handler, read.value)
        /\ ~Ok(read) => outgoing' = outgoing
    BY PacketHandled
  <2>7. p.data \in Seq(Byte)
    <3>1. p \in PacketRecords
      <4>1. 1 \in 1..Len(incoming)
        BY <1>1, <1>3
      <4> QED  BY <1>1, <4>1, ElementOfSeq
    <3> QED  BY <3>1 DEF PacketRecords
  <2>8. PICK h, data : h = handler /\ data = p.data
    OBVIOUS
  <2>9. PICK message : message = [handler |-> h, fields |-> ReadAll(Reads(h), data).value]
    OBVIOUS
  <2>10. ASSUME Ok(read) PROVE AreFrames(Replies(handler, read.value), Expected(message))
    <3>1. Ok(ReadAll(Reads(h), data)) /\ data \in Seq(Byte)
      BY <2>7, <2>8, <2>10
    <3>2. AreAnswerable(h, ReadAll(Reads(h), data).value)
      BY <3>1, ReadIsAnswerable
    <3>3. message.handler = h /\ message.fields = ReadAll(Reads(h), data).value
      BY <2>9
    <3>4. AreAnswerable(message.handler, message.fields)
      BY <3>2, <3>3
    <3>5. AreFrames(Replies(message.handler, message.fields), Expected(message))
      BY <3>4, RepliesAreFrames
    <3> QED  BY <2>8, <3>3, <3>5
  <2> HIDE DEF read, handler
  <2>11. CASE Ok(read)
    <3>1. Replies(handler, read.value) \in Seq(Seq(Byte))
      BY <2>10, <2>11 DEF AreFrames
    <3>2. PICK more : more = Replies(handler, read.value)
      OBVIOUS
    <3> QED  BY <2>5, <2>6, <2>11, <3>1, <3>2
  <2>12. CASE ~Ok(read)
    BY <2>4, <2>6, <2>12
  <2> QED  BY <2>11, <2>12
<1> QED  BY <1>7, <1>8

(* Replies are written in the order in which they wait.                    *)
LEMMA AnswersWritten ==
    ASSUME AnswersInv, SendReply
    PROVE  AnswersInv'
<1>1. /\ outgoing # <<>> /\ outgoing' = Tail(outgoing) /\ replies' = replies \o outgoing[1]
      /\ UNCHANGED <<sent, packets, incoming>>
  BY DEF SendReply, clientVars, readVars
<1>2. Handled' = Handled /\ Due' = Due /\ (OnlyMessages' <=> OnlyMessages)
  BY <1>1 DEF Handled, Due, Answered, OnlyMessages
<1>3. PICK bytes, waiting, due, n, at :
          /\ bytes = replies /\ waiting = outgoing /\ due = Due
          /\ Written(bytes, waiting, due, n, at)
          /\ OnlyMessages => Exactly(bytes, waiting, due, n, at)
  BY DEF AnswersInv
<1>4. PICK k, places :
          /\ Written(bytes \o waiting[1], Tail(waiting), due, k, places)
          /\ Exactly(bytes, waiting, due, n, at) =>
                 Exactly(bytes \o waiting[1], Tail(waiting), due, k, places)
  BY <1>1, <1>3, WrittenReply
<1>5. replies' = bytes \o waiting[1] /\ outgoing' = Tail(waiting) /\ Due' = due
  BY <1>1, <1>2, <1>3
<1>6. Written(replies', outgoing', Due', k, places)
  BY <1>4, <1>5
<1>7. OnlyMessages' => Exactly(replies', outgoing', Due', k, places)
  BY <1>2, <1>3, <1>4, <1>5
<1> QED  BY <1>6, <1>7 DEF AnswersInv

(* Every step keeps the replies in order,                                  *)
LEMMA AnswersStep ==
    ASSUME IsReadable, IsSendable, IInv, IInv', MessagesInv, AnswersInv, [Next]_vars
    PROVE  AnswersInv'
<1>1. PICK ms \in Seq(ClientMessages) : ClientInv(ms) /\ WorkerInv(ms)
  BY DEF MessagesInv
<1>2. ASSUME Handled' = Handled, UNCHANGED <<sent, outgoing, replies>>
      PROVE  AnswersInv'
  <2>1. Due' = Due /\ (OnlyMessages' => OnlyMessages)
    BY <1>2 DEF Due, Answered, OnlyMessages
  <2> QED  BY <1>2, <2>1, AnswersStay
<1>3. ASSUME UNCHANGED <<packets, incoming, sent, outgoing, replies>>
      PROVE  AnswersInv'
  <2>1. Handled' = Handled
    BY <1>3 DEF Handled
  <2> QED  BY <1>2, <1>3, <2>1
<1>4. ASSUME NEW p, packets' = Append(packets, p), incoming' = Append(incoming, p),
             UNCHANGED <<sent, outgoing, replies>>
      PROVE  AnswersInv'
  <2>1. /\ packets \in Seq(PacketRecords) /\ incoming \in Seq(PacketRecords)
        /\ Len(packets) \in Nat /\ Len(incoming) \in Nat
    BY LenProperties DEF IInv, TypeInv
  <2>2. Len(packets') = Len(packets) + 1 /\ Len(incoming') = Len(incoming) + 1
    BY <1>4, <2>1 DEF PacketRecords
  <2>3. Handled' = Handled
    BY <2>1, <2>2 DEF Handled
  <2> QED  BY <1>2, <1>4, <2>3
<1> USE DEF clientVars, readVars, workVars
<1>5. ASSUME NEW m \in ClientMessages, Send(m) PROVE AnswersInv'
  BY <1>1, <1>5, AnswersGoOn
<1>6. CASE SendGarbage
  BY <1>3, <1>6 DEF SendGarbage
<1>7. CASE HangUp
  BY <1>3, <1>7 DEF HangUp
<1>8. CASE VarintContinues
  BY <1>3, <1>8 DEF VarintContinues
<1>9. CASE SizeIsRead
  BY <1>3, <1>9 DEF SizeIsRead
<1>10. CASE IdIsRead
  <2>1. UNCHANGED <<sent, outgoing, replies>>
    BY <1>10 DEF IdIsRead
  <2>2. CASE UNCHANGED <<packets, incoming>>
    BY <1>3, <2>1, <2>2
  <2>3. CASE Deliver(VarintValue, reader.size, <<>>)
    <3>1. PICK p : packets' = Append(packets, p) /\ incoming' = Append(incoming, p)
      BY <2>3 DEF Deliver
    <3> QED  BY <1>4, <2>1, <3>1
  <2> QED  BY <1>10, <2>2, <2>3 DEF IdIsRead
<1>11. CASE ReadBody
  <2>1. UNCHANGED <<sent, outgoing, replies>>
    BY <1>11 DEF ReadBody
  <2>2. CASE UNCHANGED <<packets, incoming>>
    BY <1>3, <2>1, <2>2
  <2>3. ASSUME NEW data, Deliver(reader.id, reader.size, data) PROVE AnswersInv'
    <3>1. PICK p : packets' = Append(packets, p) /\ incoming' = Append(incoming, p)
      BY <2>3 DEF Deliver
    <3> QED  BY <1>4, <2>1, <3>1
  <2> QED  BY <1>11, <2>2, <2>3 DEF ReadBody
<1>12. CASE ReadFails
  BY <1>3, <1>12 DEF ReadFails
<1>13. CASE HandlePacket
  BY <1>1, <1>13, AnswersHandled
<1>14. CASE SendReply
  BY <1>14, AnswersWritten
<1>15. CASE UNCHANGED vars
  BY <1>3, <1>15 DEF vars
<1> QED
  BY <1>5, <1>6, <1>7, <1>8, <1>9, <1>10, <1>11, <1>12, <1>13, <1>14, <1>15
  DEF Next, Receive

(* in every state: the server answers the client's messages one by one, in *)
(* the order in which it has written them, with frames that it can read.   *)
THEOREM AnswersHold ==
    ASSUME IsReadable, IsSendable
    PROVE  Spec => []AnswersInv
<1>1. Init => AnswersInv
  BY AnswersInit
<1>2. IInv /\ IInv' /\ MessagesInv /\ AnswersInv /\ [Next]_vars => AnswersInv'
  BY AnswersStep
<1> QED  BY <1>1, <1>2, InvariantHolds, MessagesHold, PTL DEF Spec

(* What the client finds in the bytes that the server has written are the  *)
(* answers to what it has sent, in order, and nothing else while it keeps  *)
(* to the protocol: sizes, ids and values are written as it reads them.    *)
THEOREM RepliesAreAnswers ==
    ASSUME IsReadable, IsSendable
    PROVE  Spec => []RepliesAnswerRequests
<1>1. ASSUME IInv, MessagesInv, AnswersInv PROVE RepliesAnswerRequests
  <2> DEFINE answers == AnswersTo(sent)
             found == Payloads(replies)
             expected == FlattenSeq(answers)
             N == Len(sent)
  <2>1. PICK ms \in Seq(ClientMessages) : ClientInv(ms) /\ WorkerInv(ms)
    BY <1>1 DEF MessagesInv
  <2>2. PICK due, n, at : /\ due = Due /\ Written(replies, outgoing, due, n, at)
                          /\ OnlyMessages => Exactly(replies, outgoing, due, n, at)
    BY <1>1 DEF AnswersInv
  <2>3. /\ N \in Nat /\ Handled \in Nat /\ Len(packets) \in Nat /\ Len(incoming) \in Nat
        /\ Handled = Len(packets) - Len(incoming)
    BY <1>1, <2>1, LenProperties DEF IInv, TypeInv, ClientInv, WorkerInv, Handled
  <2>4. answers \in Seq(Seq(Seq(Byte))) /\ Len(answers) = N
    <3>1. sent \in Seq(SentRecords) /\ \A i \in 1..Len(sent) : IsEntry(sent[i])
      BY <2>1, SentAreEntries
    <3> QED  BY <3>1, AnswersToMessages
  <2>5. due = Joined(answers, Answered) /\ Answered \in 0..N
        /\ (~OnlyMessages => Answered = N /\ Handled > N)
    BY <2>2, <2>3 DEF Due, Answered, OnlyMessages
  <2>6. /\ replies \in Seq(Byte) /\ due \in Seq(Seq(Byte)) /\ n \in 0..Len(due)
        /\ Splits(replies, SubSeq(due, 1, n), at) /\ Len(due) \in Nat /\ n \in Nat
        /\ n < Len(due) => at[n] = Len(replies)
    BY <2>2, LenProperties DEF Written
  <2> DEFINE first == SubSeq(due, 1, n)
  <2>7. /\ first \in Seq(Seq(Byte)) /\ Len(first) = n
        /\ \A i \in 1..n : first[i] = due[i]
    BY <2>6, FirstOnes
  <2>8. n = Len(due) => first = due
    BY <2>6, Beginnings
  <2> HIDE DEF first
  <2>9. /\ found \in Seq(Seq(Byte)) /\ Begins(first, found)
        /\ at[n] = Len(replies) => found = first
    BY <2>6, <2>7, PayloadsAreFound DEF first
  <2> HIDE DEF answers, found, N
  <2>10. /\ Begins(due, expected) /\ expected \in Seq(Seq(Byte))
         /\ Joined(answers, N) = expected
    <3>1. Begins(Joined(answers, Answered), FlattenSeq(answers))
      BY <2>4, <2>5, JoinedBegins
    <3>2. N \in 0..Len(answers)
      BY <2>3, <2>4
    <3>3. /\ Joined(answers, Len(answers)) = FlattenSeq(answers)
          /\ \A k \in 0..Len(answers) : Joined(answers, k) \in Seq(Seq(Byte))
      BY <2>4, JoinedProperties
    <3>4. Joined(answers, N) = FlattenSeq(answers) /\ Joined(answers, N) \in Seq(Seq(Byte))
      BY <2>4, <3>2, <3>3
    <3> QED  BY <2>5, <3>1, <3>4
  <2> HIDE DEF expected
  <2>11. Len(expected) \in Nat
    BY <2>10, LenProperties
  <2>12. RepliesAnswerRequests <=> \/ IsPrefix(found, expected)
                                   \/ IsGarbled /\ IsPrefix(expected, found)
    BY DEF RepliesAnswerRequests, found, expected, answers, AnswersTo
  <2>13. CASE at[n] = Len(replies)
    <3>1. Begins(first, expected)
      <4>1. Len(due) <= Len(expected) /\ \A i \in 1..Len(due) : expected[i] = due[i]
        BY <2>10 DEF Begins
      <4>2. n <= Len(expected) /\ \A i \in 1..n : i \in 1..Len(due)
        BY <2>6, <2>11, <4>1
      <4>3. \A i \in 1..n : expected[i] = first[i]
        BY <2>7, <4>1, <4>2
      <4> QED  BY <2>7, <4>2, <4>3 DEF Begins
    <3>2. Begins(found, expected)
      BY <2>9, <2>13, <3>1
    <3>3. IsPrefix(found, expected)
      BY <2>9, <2>10, <3>2, BeginningIsPrefix
    <3> QED  BY <2>12, <3>3
  <2>14. CASE at[n] # Len(replies)
    <3>1. n = Len(due)
      BY <2>6, <2>14
    <3>2. ~OnlyMessages
      BY <2>2, <2>14 DEF Exactly
    <3>3. due = expected
      BY <2>5, <2>10, <3>2
    <3>4. Begins(expected, found)
      BY <2>8, <2>9, <3>1, <3>3
    <3>5. IsPrefix(expected, found)
      BY <2>9, <2>10, <3>4, BeginningIsPrefix
    <3>6. Handled \in 1..Len(packets) /\ Handled > Len(sent)
      BY <2>3, <2>5, <3>2 DEF N
    <3>7. IsGarbled
      BY <1>1, <2>1, <3>6, PacketsBehind
    <3> QED  BY <2>12, <3>5, <3>7
  <2> QED  BY <2>13, <2>14
<1> QED  BY <1>1, InvariantHolds, MessagesHold, AnswersHold, PTL
=============================================================================
