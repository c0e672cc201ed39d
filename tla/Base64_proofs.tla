------------------------------ MODULE Base64_proofs ------------------------------
(***************************************************************************)
(* The encoder and the decoder, for texts of every length.                 *)
(***************************************************************************)
EXTENDS Base64, FiniteSetTheorems, SequenceTheorems, TLAPS

------------------------------------------------------------------------------
(* Bits.                                                                   *)

\* A group of four characters is four numbers below 64 and holds its three
\* bytes whole: eight bits of the first in the first character and the upper
\* two bits of the second, and so on.
THEOREM QuadHoldsBytes ==
    ASSUME NEW a \in Byte, NEW b \in Byte, NEW c \in Byte
    PROVE  LET q == Quad(a, b, c)
           IN  /\ q \in Seq(0..63) /\ Len(q) = 4
               /\ a = q[1] * 4 + q[2] \div 16
               /\ b = (q[2] % 16) * 16 + q[3] \div 4
               /\ c = (q[3] % 4) * 64 + q[4]
BY DEF Quad, Byte

\* The bit of weight w.
Bit(q, w) == (q \div w) % 2

\* A character and its parts by their bits.
LEMMA SixBits ==
    ASSUME NEW q \in 0..63
    PROVE  /\ q = Bit(q, 32) * 32 + Bit(q, 16) * 16 + Bit(q, 8) * 8 + Bit(q, 4) * 4
                  + Bit(q, 2) * 2 + Bit(q, 1)
           /\ q \div 4 = Bit(q, 32) * 8 + Bit(q, 16) * 4 + Bit(q, 8) * 2 + Bit(q, 4)
           /\ q \div 16 = Bit(q, 32) * 2 + Bit(q, 16)
           /\ q % 16 = Bit(q, 8) * 8 + Bit(q, 4) * 4 + Bit(q, 2) * 2 + Bit(q, 1)
           /\ q % 4 = Bit(q, 2) * 2 + Bit(q, 1)
           /\ \A w \in {1, 2, 4, 8, 16, 32} : Bit(q, w) \in Nat
<1>1. q = Bit(q, 32) * 32 + Bit(q, 16) * 16 + Bit(q, 8) * 8 + Bit(q, 4) * 4
                  + Bit(q, 2) * 2 + Bit(q, 1)
  BY SMTT(60) DEF Bit
<1>2. q \div 4 = Bit(q, 32) * 8 + Bit(q, 16) * 4 + Bit(q, 8) * 2 + Bit(q, 4)
  BY SMTT(60) DEF Bit
<1>3. q \div 16 = Bit(q, 32) * 2 + Bit(q, 16)
  BY SMTT(60) DEF Bit
<1>4. q % 16 = Bit(q, 8) * 8 + Bit(q, 4) * 4 + Bit(q, 2) * 2 + Bit(q, 1)
  BY SMTT(60) DEF Bit
<1>5. q % 4 = Bit(q, 2) * 2 + Bit(q, 1)
  BY SMTT(60) DEF Bit
<1>6. \A w \in {1, 2, 4, 8, 16, 32} : Bit(q, w) \in Nat
  BY DEF Bit
<1> QED BY <1>1, <1>2, <1>3, <1>4, <1>5, <1>6

\* Where the decoder finds bit j of the byte r of a group.
LEMMA BitAt ==
    ASSUME NEW code, NEW g \in Nat, NEW r \in 0..2, NEW j \in 0..7
    PROVE  BitOf(code, 8 * (3 * g + r) + j) =
             Bit(code[4 * g + (8 * r + j) \div 6 + 1], Weight[3 + ((8 * r + j) % 6)])
<1>1. (8 * (3 * g + r) + j) \div 6 + 1 = 4 * g + (8 * r + j) \div 6 + 1
  OBVIOUS
<1>2. (8 * (3 * g + r) + j) % 6 = (8 * r + j) % 6
  OBVIOUS
<1> QED BY <1>1, <1>2 DEF BitOf, Bit

LEMMA SumOfParts ==
    ASSUME NEW n1 \in Nat, NEW n2 \in Nat, NEW n3 \in Nat, NEW n4 \in Nat,
           NEW n5 \in Nat, NEW n6 \in Nat, NEW n7 \in Nat, NEW n8 \in Nat
    PROVE  /\ (n1 + n2 + n3 + n4 + n5 + n6) + (n7 + n8) = n1 + n2 + n3 + n4 + n5 + n6 + n7 + n8
           /\ (n1 + n2 + n3 + n4) + (n5 + n6 + n7 + n8)
                = n1 + n2 + n3 + n4 + n5 + n6 + n7 + n8
OBVIOUS

\* The byte after m others, as the decoder sees it.
EightBits(code, m) ==
    LET bit(j) == BitOf(code, 8 * m + j) * Weight[j + 1]
    IN  bit(0) + bit(1) + bit(2) + bit(3) + bit(4) + bit(5) + bit(6) + bit(7)

\* The group of the byte after m others has the characters w, x, y and z, as far
\* as they are needed, and the byte they stand for.
Sextet == 0..63
Stand(code, m, w, x, y, z) ==
    \A p \in 1..((m % 3) + 2) : code[4 * (m \div 3) + p] = <<w, x, y, z>>[p]
StoodFor(m, w, x, y, z) ==
    <<w * 4 + x \div 16, (x % 16) * 16 + y \div 4, (y % 4) * 64 + z>>[(m % 3) + 1]

\* Eight bits from the place of a byte make that byte, if the characters that
\* hold it are there.
LEMMA ByteFromBits ==
    ASSUME NEW code, NEW m \in Nat,
           NEW w \in Sextet, NEW x \in Sextet, NEW y \in Sextet, NEW z \in Sextet,
           Stand(code, m, w, x, y, z)
    PROVE  EightBits(code, m) = StoodFor(m, w, x, y, z)
<1>1. PICK g \in Nat, r \in 0..2 : g = m \div 3 /\ r = m % 3 /\ m = 3 * g + r
  OBVIOUS
<1> DEFINE a == w * 4 + x \div 16
           b == (x % 16) * 16 + y \div 4
           c == (y % 4) * 64 + z
<1> DEFINE at(j) == BitOf(code, 8 * (3 * g + r) + j)
<1>2. \A j \in 0..7 : at(j) = Bit(code[4 * g + (8 * r + j) \div 6 + 1],
                                  Weight[3 + ((8 * r + j) % 6)])
  BY BitAt
<1>3. r \in {0, 1, 2}
  OBVIOUS
<1>4. ASSUME \A j \in 0..7 : at(j) \in Nat
      PROVE  at(0) * Weight[1] + at(1) * Weight[2] + at(2) * Weight[3] + at(3) * Weight[4]
               + at(4) * Weight[5] + at(5) * Weight[6] + at(6) * Weight[7] + at(7) * Weight[8]
             = at(0) * 128 + at(1) * 64 + at(2) * 32 + at(3) * 16 + at(4) * 8 + at(5) * 4
               + at(6) * 2 + at(7)
  <2> HIDE DEF at
  <2> QED BY <1>4 DEF Weight
<1> DEFINE total == at(0) * Weight[1] + at(1) * Weight[2] + at(2) * Weight[3]
                      + at(3) * Weight[4] + at(4) * Weight[5] + at(5) * Weight[6]
                      + at(6) * Weight[7] + at(7) * Weight[8]
<1>5. /\ 0 + 1 = 1 /\ 1 + 1 = 2 /\ 2 + 1 = 3 /\ 3 + 1 = 4
      /\ 4 + 1 = 5 /\ 5 + 1 = 6 /\ 6 + 1 = 7 /\ 7 + 1 = 8
  OBVIOUS
<1> SUFFICES total = <<a, b, c>>[r + 1]
  BY <1>1, <1>5, Zenon DEF at, EightBits, StoodFor
<1>6. \A p \in 1..(r + 2) : code[4 * g + p] = <<w, x, y, z>>[p]
  BY <1>1 DEF Stand
<1> USE DEF Sextet
<1> HIDE DEF at
<1>7. CASE r = 0
  <2>1. code[4 * g + 1] = w /\ code[4 * g + 2] = x
    BY <1>6, <1>7
  <2>2. /\ at(0) = Bit(w, 32) /\ at(1) = Bit(w, 16)
        /\ at(2) = Bit(w, 8) /\ at(3) = Bit(w, 4)
        /\ at(4) = Bit(w, 2) /\ at(5) = Bit(w, 1)
        /\ at(6) = Bit(x, 32) /\ at(7) = Bit(x, 16)
    BY <1>2, <1>7, <2>1 DEF Weight
  <2>3. /\ w = Bit(w, 32) * 32 + Bit(w, 16) * 16 + Bit(w, 8) * 8
                + Bit(w, 4) * 4 + Bit(w, 2) * 2 + Bit(w, 1)
        /\ x \div 16 = Bit(x, 32) * 2 + Bit(x, 16)
    BY SixBits
  <2>4. /\ at(0) \in Nat /\ at(1) \in Nat /\ at(2) \in Nat /\ at(3) \in Nat
        /\ at(4) \in Nat /\ at(5) \in Nat /\ at(6) \in Nat /\ at(7) \in Nat
    BY <2>2, SixBits
  <2>5. at(0) * 128 + at(1) * 64 + at(2) * 32 + at(3) * 16 + at(4) * 8 + at(5) * 4
          + at(6) * 2 + at(7) = w * 4 + x \div 16
    <3>1. at(0) * 128 + at(1) * 64 + at(2) * 32 + at(3) * 16 + at(4) * 8 + at(5) * 4 = w * 4
      BY <2>2, <2>3, <2>4
    <3>2. at(6) * 2 + at(7) = x \div 16
      BY <2>2, <2>3, <2>4
    <3>3. \A n \in Nat : n * 128 \in Nat /\ n * 64 \in Nat /\ n * 32 \in Nat /\ n * 16 \in Nat
                         /\ n * 8 \in Nat /\ n * 4 \in Nat /\ n * 2 \in Nat
      OBVIOUS
    <3>4. (at(0) * 128 + at(1) * 64 + at(2) * 32 + at(3) * 16 + at(4) * 8 + at(5) * 4)
            + (at(6) * 2 + at(7))
          = at(0) * 128 + at(1) * 64 + at(2) * 32 + at(3) * 16 + at(4) * 8 + at(5) * 4
            + at(6) * 2 + at(7)
      BY <2>4, <3>3, SumOfParts
    <3> QED BY <3>1, <3>2, <3>4, Zenon
  <2>6. <<a, b, c>>[r + 1] = w * 4 + x \div 16
    BY <1>7
  <2>7. \A j \in 0..7 : at(j) \in Nat
    BY <2>4
  <2>8. total = at(0) * 128 + at(1) * 64 + at(2) * 32 + at(3) * 16 + at(4) * 8 + at(5) * 4
                  + at(6) * 2 + at(7)
    BY <1>4, <2>7
  <2> HIDE DEF total
  <2> QED BY <2>5, <2>6, <2>8, Zenon
<1>8. CASE r = 1
  <2>1. code[4 * g + 2] = x /\ code[4 * g + 3] = y
    BY <1>6, <1>8
  <2>2. /\ at(0) = Bit(x, 8) /\ at(1) = Bit(x, 4)
        /\ at(2) = Bit(x, 2) /\ at(3) = Bit(x, 1)
        /\ at(4) = Bit(y, 32) /\ at(5) = Bit(y, 16)
        /\ at(6) = Bit(y, 8) /\ at(7) = Bit(y, 4)
    BY <1>2, <1>8, <2>1 DEF Weight
  <2>3. /\ x % 16 = Bit(x, 8) * 8 + Bit(x, 4) * 4 + Bit(x, 2) * 2 + Bit(x, 1)
        /\ y \div 4 = Bit(y, 32) * 8 + Bit(y, 16) * 4 + Bit(y, 8) * 2 + Bit(y, 4)
    BY SixBits
  <2>4. /\ at(0) \in Nat /\ at(1) \in Nat /\ at(2) \in Nat /\ at(3) \in Nat
        /\ at(4) \in Nat /\ at(5) \in Nat /\ at(6) \in Nat /\ at(7) \in Nat
    BY <2>2, SixBits
  <2>5. at(0) * 128 + at(1) * 64 + at(2) * 32 + at(3) * 16 + at(4) * 8 + at(5) * 4
          + at(6) * 2 + at(7) = (x % 16) * 16 + y \div 4
    <3>0. x % 16 = at(0) * 8 + at(1) * 4 + at(2) * 2 + at(3)
      BY <2>2, <2>3
    <3>1. at(0) * 128 + at(1) * 64 + at(2) * 32 + at(3) * 16 = (x % 16) * 16
      <4>1. \A i, j, k, l \in Nat :
                i * 128 + j * 64 + k * 32 + l * 16 = (i * 8 + j * 4 + k * 2 + l) * 16
        OBVIOUS
      <4>2. at(0) * 128 + at(1) * 64 + at(2) * 32 + at(3) * 16
              = (at(0) * 8 + at(1) * 4 + at(2) * 2 + at(3)) * 16
        BY <2>4, <4>1
      <4> QED BY <3>0, <4>2, Zenon
    <3>2. at(4) * 8 + at(5) * 4 + at(6) * 2 + at(7) = y \div 4
      BY <2>2, <2>3, <2>4
    <3>3. \A n \in Nat : n * 128 \in Nat /\ n * 64 \in Nat /\ n * 32 \in Nat /\ n * 16 \in Nat
                         /\ n * 8 \in Nat /\ n * 4 \in Nat /\ n * 2 \in Nat
      OBVIOUS
    <3>4. (at(0) * 128 + at(1) * 64 + at(2) * 32 + at(3) * 16)
            + (at(4) * 8 + at(5) * 4 + at(6) * 2 + at(7))
          = at(0) * 128 + at(1) * 64 + at(2) * 32 + at(3) * 16 + at(4) * 8 + at(5) * 4
            + at(6) * 2 + at(7)
      BY <2>4, <3>3, SumOfParts
    <3> QED BY <3>1, <3>2, <3>4, Zenon
  <2>6. <<a, b, c>>[r + 1] = (x % 16) * 16 + y \div 4
    BY <1>8
  <2>7. \A j \in 0..7 : at(j) \in Nat
    BY <2>4
  <2>8. total = at(0) * 128 + at(1) * 64 + at(2) * 32 + at(3) * 16 + at(4) * 8 + at(5) * 4
                  + at(6) * 2 + at(7)
    BY <1>4, <2>7
  <2> HIDE DEF total
  <2> QED BY <2>5, <2>6, <2>8, Zenon
<1>9. CASE r = 2
  <2>1. code[4 * g + 3] = y /\ code[4 * g + 4] = z
    BY <1>6, <1>9
  <2>2. /\ at(0) = Bit(y, 2) /\ at(1) = Bit(y, 1)
        /\ at(2) = Bit(z, 32) /\ at(3) = Bit(z, 16)
        /\ at(4) = Bit(z, 8) /\ at(5) = Bit(z, 4)
        /\ at(6) = Bit(z, 2) /\ at(7) = Bit(z, 1)
    BY <1>2, <1>9, <2>1 DEF Weight
  <2>3. /\ y % 4 = Bit(y, 2) * 2 + Bit(y, 1)
        /\ z = Bit(z, 32) * 32 + Bit(z, 16) * 16 + Bit(z, 8) * 8
                + Bit(z, 4) * 4 + Bit(z, 2) * 2 + Bit(z, 1)
    BY SixBits
  <2>4. /\ at(0) \in Nat /\ at(1) \in Nat /\ at(2) \in Nat /\ at(3) \in Nat
        /\ at(4) \in Nat /\ at(5) \in Nat /\ at(6) \in Nat /\ at(7) \in Nat
    BY <2>2, SixBits
  <2>5. at(0) * 128 + at(1) * 64 + at(2) * 32 + at(3) * 16 + at(4) * 8 + at(5) * 4
          + at(6) * 2 + at(7) = (y % 4) * 64 + z
    BY <2>2, <2>3, <2>4
  <2>6. <<a, b, c>>[r + 1] = (y % 4) * 64 + z
    BY <1>9
  <2>7. \A j \in 0..7 : at(j) \in Nat
    BY <2>4
  <2>8. total = at(0) * 128 + at(1) * 64 + at(2) * 32 + at(3) * 16 + at(4) * 8 + at(5) * 4
                  + at(6) * 2 + at(7)
    BY <1>4, <2>7
  <2> HIDE DEF total
  <2> QED BY <2>5, <2>6, <2>8, Zenon
<1> HIDE DEF total
<1> QED BY <1>3, <1>7, <1>8, <1>9

------------------------------------------------------------------------------
(* The encoder, character by character.                                    *)

LEMMA FunctionIsSeq ==
    ASSUME NEW S, NEW n \in Nat, NEW f \in [1..n -> S]
    PROVE  f \in Seq(S) /\ Len(f) = n
OBVIOUS

\* The byte m of a text that is filled up with zeros.
ByteAt(bytes, m) == IF m <= Len(bytes) THEN bytes[m] ELSE 0
Characters(bytes) == 4 * ((Len(bytes) + 2) \div 3)

LEMMA ByteAtType ==
    ASSUME NEW bytes \in Seq(Byte), NEW m \in Nat \ {0}
    PROVE  ByteAt(bytes, m) \in Byte
<1>1. CASE m <= Len(bytes)
  BY <1>1, ElementOfSeq DEF ByteAt
<1>2. CASE ~(m <= Len(bytes))
  BY <1>2 DEF ByteAt, Byte
<1> QED BY <1>1, <1>2

\* The character p of the group after g others.
LEMMA EncodedCharacter ==
    ASSUME NEW bytes \in Seq(Byte), NEW g \in Nat, NEW p \in 1..4,
           4 * g + p \in 1..Characters(bytes)
    PROVE  IF 3 * g + p > Len(bytes) + 1
           THEN Encode(bytes)[4 * g + p] = Pad
           ELSE /\ Encode(bytes)[4 * g + p] \in 0..63
                /\ Encode(bytes)[4 * g + p] =
                      Quad(ByteAt(bytes, 3 * g + 1), ByteAt(bytes, 3 * g + 2),
                           ByteAt(bytes, 3 * g + 3))[p]
<1> DEFINE a == ByteAt(bytes, 3 * g + 1)
           b == ByteAt(bytes, 3 * g + 2)
           c == ByteAt(bytes, 3 * g + 3)
           k == 4 * g + p
<1>1. (k - 1) \div 4 = g /\ ((k - 1) % 4) + 1 = p
  OBVIOUS
<1>2. Encode(bytes)[k] = IF 3 * g + p > Len(bytes) + 1 THEN Pad ELSE Quad(a, b, c)[p]
  BY <1>1 DEF Encode, Characters, ByteAt
<1>3. a \in Byte /\ b \in Byte /\ c \in Byte
  BY ByteAtType
<1> HIDE DEF a, b, c, k
<1>4. Quad(a, b, c)[p] \in 0..63
  BY <1>3, QuadHoldsBytes, ElementOfSeq
<1> QED BY <1>2, <1>4 DEF a, b, c, k

LEMMA InGroups ==
    ASSUME NEW bytes \in Seq(Byte), NEW k \in 1..Characters(bytes)
    PROVE  \E g \in Nat, p \in 1..4 : k = 4 * g + p
<1> DEFINE g == (k - 1) \div 4
           p == ((k - 1) % 4) + 1
<1>1. Characters(bytes) \in Nat
  BY DEF Characters
<1>2. g \in Nat /\ p \in 1..4 /\ k = 4 * g + p
  BY <1>1
<1> HIDE DEF g, p
<1> QED BY <1>2

\* Which characters are padding: at most the last two.
LEMMA EncodeShape ==
    ASSUME NEW bytes \in Seq(Byte)
    PROVE  /\ Characters(bytes) \in Nat
           /\ Encode(bytes) \in Seq(0..Pad) /\ Len(Encode(bytes)) = Characters(bytes)
           /\ Padding(Encode(bytes)) =
                IF Len(bytes) % 3 = 0 THEN {}
                ELSE IF Len(bytes) % 3 = 1 THEN {Characters(bytes) - 1, Characters(bytes)}
                ELSE {Characters(bytes)}
<1> DEFINE n == Characters(bytes)
           code == Encode(bytes)
<1>1. n \in Nat /\ Len(bytes) \in Nat
  BY DEF Characters
<1>2. /\ DOMAIN code = 1..n
      /\ code = [k \in 1..n |-> code[k]]
  BY DEF Encode, Characters
<1>3. ASSUME NEW k \in 1..n PROVE code[k] \in 0..Pad
  <2>1. PICK g \in Nat, p \in 1..4 : k = 4 * g + p
    BY InGroups
  <2>2. k \in 1..Characters(bytes)
    OBVIOUS
  <2>3. 4 * g + p \in 1..Characters(bytes)
    BY <2>1, <2>2
  <2>4. Encode(bytes)[4 * g + p] = Pad \/ Encode(bytes)[4 * g + p] \in 0..63
    BY <2>3, EncodedCharacter
  <2>5. code[k] = Pad \/ code[k] \in 0..63
    BY <2>1, <2>4
  <2> HIDE DEF code
  <2> QED BY <2>5 DEF Pad
<1>4. code \in [1..n -> 0..Pad]
  <2> HIDE DEF code, n
  <2> QED BY <1>2, <1>3
<1>5. code \in Seq(0..Pad) /\ Len(code) = n
  <2> HIDE DEF code, n
  <2> QED BY <1>1, <1>4, FunctionIsSeq
<1>6. ASSUME NEW k \in 1..n
      PROVE  code[k] = Pad <=> \/ Len(bytes) % 3 = 1 /\ k = n - 1
                               \/ Len(bytes) % 3 # 0 /\ k = n
  <2>1. PICK g \in Nat, p \in 1..4 : k = 4 * g + p
    BY InGroups
  <2>2. code[k] = Pad <=> 3 * g + p > Len(bytes) + 1
    <3>1. 4 * g + p \in 1..Characters(bytes)
      BY <2>1
    <3>2. IF 3 * g + p > Len(bytes) + 1 THEN Encode(bytes)[4 * g + p] = Pad
          ELSE Encode(bytes)[4 * g + p] \in 0..63
      BY <3>1, EncodedCharacter
    <3>3. IF 3 * g + p > Len(bytes) + 1 THEN code[k] = Pad ELSE code[k] \in 0..63
      BY <2>1, <3>2
    <3>4. \A x \in 0..63 : x # Pad
      BY DEF Pad
    <3> HIDE DEF code
    <3> QED BY <3>3, <3>4, Zenon
  <2>3. 3 * g + p > Len(bytes) + 1 <=> \/ Len(bytes) % 3 = 1 /\ k = n - 1
                                       \/ Len(bytes) % 3 # 0 /\ k = n
    BY <1>1, <2>1 DEF Characters
  <2> QED BY <2>2, <2>3
<1>7. Len(bytes) % 3 # 0 => n >= 4
  BY <1>1 DEF Characters
<1>8. Padding(code) = {k \in 1..n : code[k] = Pad}
  BY <1>2 DEF Padding
<1> HIDE DEF code, n
<1>9. Len(bytes) % 3 \in 0..2
  BY <1>1
<1>10. Padding(code) = IF Len(bytes) % 3 = 0 THEN {}
                       ELSE IF Len(bytes) % 3 = 1 THEN {n - 1, n} ELSE {n}
  BY <1>1, <1>6, <1>7, <1>8, <1>9
<1> QED BY <1>1, <1>5, <1>10 DEF code, n

\* Encode makes whole groups, padded in the last two places at most.
LEMMA EncodeIsWellFormed ==
    ASSUME NEW bytes \in Seq(Byte)
    PROVE  WellFormed(Encode(bytes))
<1> DEFINE n == Characters(bytes)
           code == Encode(bytes)
<1>1. n \in Nat /\ code \in Seq(0..Pad) /\ Len(code) = n
  BY EncodeShape
<1>2. n % 4 = 0
  BY DEF Characters
<1>3. Padding(code) \subseteq {n - 1, n} /\ (Padding(code) # {} => n \in Padding(code))
  BY EncodeShape
<1> HIDE DEF code, n
<1>4. DOMAIN code = 1..n /\ \A k \in 1..n : code[k] \in 0..Pad
  <2>1. DOMAIN code = 1..Len(code)
    BY <1>1, LenProperties
  <2>2. \A k \in 1..Len(code) : code[k] \in 0..Pad
    BY <1>1, ElementOfSeq
  <2> QED BY <1>1, <2>1, <2>2
<1>5. ASSUME NEW k \in DOMAIN code, code[k] = Pad PROVE k > n - 2 /\ code[n] = Pad
  BY <1>1, <1>3, <1>4, <1>5 DEF Padding
<1>6. WellFormed(code)
  BY <1>1, <1>2, <1>4, <1>5 DEF WellFormed
<1> QED BY <1>6 DEF code

\* What the encoder makes of a text of any length and any bytes, the decoder
\* makes the text again: padding never eats a byte nor adds one.
THEOREM DecodesWhatWasEncoded ==
    ASSUME NEW bytes \in Seq(Byte)
    PROVE  Decode(Encode(bytes)) = bytes
<1> DEFINE n == Characters(bytes)
           code == Encode(bytes)
           length == Len(bytes)
<1>1. n \in Nat /\ length \in Nat /\ Len(code) = n
  BY EncodeShape
<1>2. Cardinality(Padding(code)) = IF length % 3 = 0 THEN 0 ELSE IF length % 3 = 1 THEN 2 ELSE 1
  <2>1. Cardinality({}) = 0 /\ Cardinality({n}) = 1
    BY FS_EmptySet, FS_Singleton
  <2>2. Cardinality({n - 1, n}) = 2
    <3>1. n \notin {n - 1} /\ {n - 1, n} = {n - 1} \cup {n}
      BY <1>1
    <3> HIDE DEF n
    <3>2. IsFiniteSet({n - 1}) /\ Cardinality({n - 1}) = 1
      BY FS_Singleton
    <3> QED BY <3>1, <3>2, FS_AddElement
  <2> HIDE DEF n
  <2> QED BY <2>1, <2>2, EncodeShape DEF n
<1>3. (6 * (Len(code) - Cardinality(Padding(code)))) \div 8 = length
  <2> HIDE DEF code
  <2> QED BY <1>1, <1>2 DEF Characters
<1>4. ASSUME NEW k \in 1..length PROVE EightBits(code, k - 1) = bytes[k]
  <2> DEFINE g == (k - 1) \div 3
             r == (k - 1) % 3
             a == ByteAt(bytes, 3 * g + 1)
             b == ByteAt(bytes, 3 * g + 2)
             c == ByteAt(bytes, 3 * g + 3)
  <2>1. g \in Nat /\ r \in 0..2 /\ k - 1 = 3 * g + r
    BY <1>1
  <2>2. a \in Byte /\ b \in Byte /\ c \in Byte
    <3> HIDE DEF g
    <3> QED BY <2>1, ByteAtType
  <2>3. <<a, b, c>>[r + 1] = bytes[k]
    <3> HIDE DEF g, r
    <3> QED BY <1>1, <2>1 DEF ByteAt
  <2>4. ASSUME NEW p \in 1..(r + 2) PROVE code[4 * g + p] = Quad(a, b, c)[p]
    <3>1. p \in 1..4 /\ 4 * g + p \in 1..n /\ ~(3 * g + p > length + 1)
      <4> HIDE DEF g, r
      <4> QED BY <1>1, <2>1 DEF Characters
    <3> HIDE DEF g, r
    <3> QED BY <2>1, <3>1, EncodedCharacter
  <2> HIDE DEF g, r, a, b, c, code, length
  <2>5. PICK w \in Sextet, x \in Sextet, y \in Sextet, z \in Sextet :
            w = Quad(a, b, c)[1] /\ x = Quad(a, b, c)[2] /\ y = Quad(a, b, c)[3]
            /\ z = Quad(a, b, c)[4]
    <3>1. Quad(a, b, c) \in Seq(0..63) /\ Len(Quad(a, b, c)) = 4
      BY <2>2, QuadHoldsBytes
    <3>2. \A i \in 1..4 : Quad(a, b, c)[i] \in Sextet
      BY <3>1, ElementOfSeq DEF Sextet
    <3>3. 1 \in 1..4 /\ 2 \in 1..4 /\ 3 \in 1..4 /\ 4 \in 1..4
      OBVIOUS
    <3> QED BY <3>2, <3>3, Zenon
  <2>6. a = w * 4 + x \div 16 /\ b = (x % 16) * 16 + y \div 4 /\ c = (y % 4) * 64 + z
    BY <2>2, <2>5, QuadHoldsBytes
  <2>7. Stand(code, k - 1, w, x, y, z)
    <3>1. (k - 1) \div 3 = g /\ (k - 1) % 3 = r
      BY DEF g, r
    <3>2. \A p \in 1..(r + 2) : p \in {1, 2, 3, 4}
      BY <2>1
    <3>3. \A p \in {1, 2, 3, 4} : Quad(a, b, c)[p] = <<w, x, y, z>>[p]
      BY <2>5
    <3> QED BY <2>4, <3>1, <3>2, <3>3, Zenon DEF Stand
  <2>8. EightBits(code, k - 1) = StoodFor(k - 1, w, x, y, z)
    <3>1. k - 1 \in Nat
      BY <2>1
    <3> QED BY <3>1, <2>7, ByteFromBits
  <2> QED BY <2>1, <2>3, <2>6, <2>8 DEF StoodFor, r
<1>5. Decode(code) = [k \in 1..length |-> EightBits(code, k - 1)]
  <2> HIDE DEF code, length
  <2> QED BY <1>3 DEF Decode, EightBits
<1>6. bytes = [k \in 1..length |-> bytes[k]]
  OBVIOUS
<1> HIDE DEF code, length
<1> QED BY <1>4, <1>5, <1>6 DEF code
==============================================================================
