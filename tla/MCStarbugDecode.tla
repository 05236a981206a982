--------------------------- MODULE MCStarbugDecode ---------------------------
(***************************************************************************)
(* TLC instance of the decoder: every 16-bit word, and 32-bit words with   *)
(* every opcode, every funct7 and the register numbers 0, 1, 8 and 31, cut *)
(* into short texts.                                                       *)
(***************************************************************************)
EXTENDS StarbugDecode

MCReg == 1..63

Word32(opcode, rd, funct3, rs1, rs2, funct7) ==
    [lo |-> opcode + 2^7 * rd + 2^12 * funct3 + 2^15 * (rs1 % 2),
     hi |-> (rs1 \div 2) + 2^4 * rs2 + 2^9 * funct7]

\* Six 16-bit words that differ in their last three bits.
Word16(n) == [lo |-> n, hi |-> 0]

Text16(t) == <<Word16(8 * t), Word16(8 * t + 1), Word16(8 * t + 2),
               Word16(8 * t + 4), Word16(8 * t + 5), Word16(8 * t + 6)>>

\* The k-th of 64 choices of three registers.
Register(n) == <<0, 1, 8, 31>>[(n % 4) + 1]

Text32(o, f7, f3, n) ==
    LET WordAt(m) == Word32(4 * o + 3, Register(m), f3, Register(m \div 4), Register(m \div 16), f7)
    IN  <<WordAt(4 * n), WordAt(4 * n + 1), WordAt(4 * n + 2), WordAt(4 * n + 3)>>

\* One choice of registers for every opcode and funct7, every choice for some.
MCTexts ==
    {Text16(t) : t \in 0..8191} \union
    {Text32(o, f7, f3, 8) : o \in 0..31, f3 \in {0, 1, 5}, f7 \in 0..127} \union
    {Text32(o, f7, 1, n) : o \in 0..31, f7 \in {0, 1, 80}, n \in 0..15} \union
    {Text32(20, 4 * f5, 0, n) : f5 \in 0..31, n \in 0..15}
=============================================================================
