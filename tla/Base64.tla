---------------------------------- MODULE Base64 ----------------------------------
(***************************************************************************)
(* Base64Encoder::encode, which main uses for VLC's user name and          *)
(* password.  A character of the result is its index in base64_chars, the  *)
(* padding character is Pad.                                               *)
(***************************************************************************)
EXTENDS Integers, Sequences, FiniteSets

Byte == 0..255
Pad == 64

\* char_array_4 for the three bytes of char_array_3.
QuadShifted(a, b, c) ==                                        \* mutant
    <<a \div 4, ((a % 4) * 16) + b \div 16, (b % 16) * 4 + c \div 128, c % 64>>
Quad(a, b, c) ==
    <<a \div 4, ((a % 4) * 16) + b \div 16, (b % 16) * 4 + c \div 64, c % 64>>

\* Groups of three bytes become four characters.  The last group is filled up
\* with zeros, and of its characters the ones behind the first that holds no
\* bit of a byte are padding.
Encode(bytes) ==
    LET byte(m) == IF m <= Len(bytes) THEN bytes[m] ELSE 0
        group(k) == 3 * ((k - 1) \div 4)
        place(k) == ((k - 1) % 4) + 1
    IN  [k \in 1..(4 * ((Len(bytes) + 2) \div 3)) |->
            IF group(k) + place(k) > Len(bytes) + 1 THEN Pad
            ELSE Quad(byte(group(k) + 1), byte(group(k) + 2), byte(group(k) + 3))[place(k)]]

------------------------------------------------------------------------------
(* What VLC does with the result: the standard's definition, by bits.      *)

\* Bit j of the stream of six-bit characters, the first one is bit 0.
Weight == <<128, 64, 32, 16, 8, 4, 2, 1>>
BitOf(code, j) == (code[j \div 6 + 1] \div Weight[3 + (j % 6)]) % 2

Padding(code) == {k \in DOMAIN code : code[k] = Pad}

\* Each byte is eight bits of the stream, which ends before the padding.
Decode(code) ==
    LET Bit(k, j) == BitOf(code, 8 * (k - 1) + j) * Weight[j + 1]
    IN  [k \in 1..((6 * (Len(code) - Cardinality(Padding(code)))) \div 8) |->
            Bit(k, 0) + Bit(k, 1) + Bit(k, 2) + Bit(k, 3)
            + Bit(k, 4) + Bit(k, 5) + Bit(k, 6) + Bit(k, 7)]

\* Whole groups of four, padded in the last two places at most.
WellFormed(code) ==
    /\ Len(code) % 4 = 0
    /\ \A k \in DOMAIN code :
          /\ code[k] \in 0..Pad
          /\ code[k] = Pad => k > Len(code) - 2 /\ code[Len(code)] = Pad
==============================================================================
