------------------------ MODULE StarbugDecodeProofs -------------------------
(***************************************************************************)
(* Proofs about the decoder, for every word and every text: it yields the  *)
(* entries the other tools suppose, reads a hint from the one encoding a   *)
(* hint has, treats a compressed instruction as the one it stands for, and *)
(* takes its operands from where the manual puts them.                     *)
(***************************************************************************)
EXTENDS StarbugDecode, TLAPS

\* What has been decoded is the text's entries, in order.
DecodeInv ==
    /\ words \in Texts /\ Len(decoded) =< Len(words)
    /\ decoded \in Seq(Insn)
    /\ \A k \in 1..Len(decoded) : decoded[k] = Entry(words[k])

-----------------------------------------------------------------------------
LEMMA Powers ==
    /\ 2^0 = 1 /\ 2^1 = 2 /\ 2^2 = 4 /\ 2^3 = 8 /\ 2^4 = 16 /\ 2^5 = 32 /\ 2^7 = 128
    /\ 2^9 = 512 /\ 2^10 = 1024 /\ 2^11 = 2048 /\ 2^12 = 4096 /\ 2^13 = 8192
    /\ 2^14 = 16384 /\ 2^15 = 32768 /\ 2^16 = 65536
  OBVIOUS

LEMMA HalfIs ==
    ASSUME NEW h \in Half
    PROVE  h \in Nat /\ h =< 65535
  BY Powers DEF Half

\* The bit fields of a halfword and what they are in arithmetic.
LEMMA FieldsOfHalf ==
    ASSUME NEW h \in Half
    PROVE  /\ Bits(h, 0, 2) = h % 4
           /\ Bits(h, 2, 3) = (h \div 4) % 8 /\ Bits(h, 2, 5) = (h \div 4) % 32
           /\ Bits(h, 7, 3) = (h \div 128) % 8 /\ Bits(h, 7, 5) = (h \div 128) % 32
           /\ Bits(h, 10, 2) = (h \div 1024) % 4 /\ Bits(h, 10, 3) = (h \div 1024) % 8
           /\ Bits(h, 12, 1) = (h \div 4096) % 2 /\ Bits(h, 12, 4) = (h \div 4096) % 16
           /\ Bits(h, 13, 3) = (h \div 8192) % 8
  BY DEF Bits, Half

LEMMA FieldRanges ==
    ASSUME NEW h \in Half
    PROVE  /\ Bits(h, 0, 2) \in 0..3
           /\ Bits(h, 2, 3) \in 0..7 /\ Bits(h, 2, 5) \in 0..31
           /\ Bits(h, 7, 3) \in 0..7 /\ Bits(h, 7, 5) \in 0..31
           /\ Bits(h, 10, 2) \in 0..3
           /\ Bits(h, 12, 1) \in 0..1 /\ Bits(h, 13, 3) \in 0..7
           /\ Bits(h, 12, 4) = Bits(h, 12, 1) + 2 * Bits(h, 13, 3)
<1>1. h \in Nat /\ h =< 65535
  BY HalfIs
<1>2. /\ h % 4 \in 0..3
      /\ (h \div 4) % 8 \in 0..7 /\ (h \div 4) % 32 \in 0..31
      /\ (h \div 128) % 8 \in 0..7 /\ (h \div 128) % 32 \in 0..31
      /\ (h \div 1024) % 4 \in 0..3 /\ (h \div 4096) % 2 \in 0..1 /\ (h \div 8192) % 8 \in 0..7
      /\ (h \div 4096) % 16 = ((h \div 4096) % 2) + 2 * ((h \div 8192) % 8)
  BY <1>1
<1> QED BY <1>2, FieldsOfHalf

\* A register field of three bits names one of x8 to x15.
LEMMA ShortRegister ==
    ASSUME NEW x \in 0..7
    PROVE  rvc_reg(x) = 8 + x
  BY DEF rvc_reg

\* The fields of a 32-bit word.
LEMMA FieldsOfWord ==
    ASSUME NEW w \in Word
    PROVE  /\ Fields(w).rd \in 0..31 /\ Fields(w).rs1 \in 0..31
           /\ Fields(w).rs2 \in 0..31 /\ Fields(w).rs3 \in 0..31
           /\ Fields(w).opcode \in Nat /\ Fields(w).funct7 \in Nat
           /\ Fields(w).funct3 \in 0..7
<1>1. w.lo \in Half /\ w.hi \in Half
  BY DEF Word
<1>2. \A n \in Half :
         /\ Bits(n, 0, 7) \in Nat /\ Bits(n, 7, 5) \in 0..31 /\ Bits(n, 15, 1) \in 0..1
         /\ Bits(n, 0, 4) \in 0..15 /\ Bits(n, 4, 5) \in 0..31 /\ Bits(n, 11, 5) \in 0..31
         /\ Bits(n, 12, 3) \in 0..7 /\ Bits(n, 9, 7) \in Nat
  <2> SUFFICES ASSUME NEW n \in Nat
               PROVE  /\ Bits(n, 0, 7) \in Nat /\ Bits(n, 7, 5) \in 0..31 /\ Bits(n, 15, 1) \in 0..1
                      /\ Bits(n, 0, 4) \in 0..15 /\ Bits(n, 4, 5) \in 0..31 /\ Bits(n, 11, 5) \in 0..31
                      /\ Bits(n, 12, 3) \in 0..7 /\ Bits(n, 9, 7) \in Nat
    BY HalfIs
  <2>1. /\ Bits(n, 0, 7) = n % 128 /\ Bits(n, 7, 5) = (n \div 128) % 32
        /\ Bits(n, 15, 1) = (n \div 32768) % 2 /\ Bits(n, 0, 4) = n % 16
        /\ Bits(n, 4, 5) = (n \div 16) % 32 /\ Bits(n, 11, 5) = (n \div 2048) % 32
        /\ Bits(n, 12, 3) = (n \div 4096) % 8 /\ Bits(n, 9, 7) = (n \div 512) % 128
    BY Powers DEF Bits
  <2>2. /\ n % 128 \in Nat /\ (n \div 128) % 32 \in 0..31
        /\ (n \div 32768) % 2 \in 0..1 /\ n % 16 \in 0..15
        /\ (n \div 16) % 32 \in 0..31 /\ (n \div 2048) % 32 \in 0..31
        /\ (n \div 4096) % 8 \in 0..7 /\ (n \div 512) % 128 \in Nat
    OBVIOUS
  <2> QED BY <2>1, <2>2
<1>3. \A a \in 0..1, b \in 0..15 : a + 2 * b \in 0..31
  OBVIOUS
<1> QED BY <1>1, <1>2, <1>3 DEF Fields

-----------------------------------------------------------------------------
(***************************************************************************)
(* The hint: its length is read from the one word that assembles to it.    *)
(***************************************************************************)
LEMMA HintIsCLi ==
    ASSUME NEW h \in Half
    PROVE  /\ hint_length(h) \in 0..MAX_HINT
           /\ hint_length(h) # 0 => h = CLi(0, hint_length(h))
           /\ \A n \in 1..MAX_HINT : h = CLi(0, n) => hint_length(h) = n
<1>1. h \in Nat /\ h =< 65535
  BY HalfIs
<1>2. hint_length(h) = IF h % 4 = 1 /\ (h \div 8192) % 8 = 2 /\ (h \div 128) % 32 = 0
                       THEN 32 * ((h \div 4096) % 2) + ((h \div 4) % 32) ELSE 0
  BY FieldsOfHalf DEF hint_length
<1>3. \A n \in 0..63 : CLi(0, n) = 1 + 4 * (n % 32) + 4096 * ((n \div 32) % 2) + 16384
  BY Powers DEF CLi
<1>4. hint_length(h) \in 0..63
  BY <1>1, <1>2
<1>5. ASSUME h % 4 = 1, (h \div 8192) % 8 = 2, (h \div 128) % 32 = 0
      PROVE  h = CLi(0, 32 * ((h \div 4096) % 2) + ((h \div 4) % 32))
  <2> DEFINE a == (h \div 4) % 32
             b == (h \div 4096) % 2
             n == 32 * b + a
  <2>1. h = 1 + 4 * a + 4096 * b + 16384
    BY <1>1, <1>5
  <2>2. a \in 0..31 /\ b \in 0..1
    BY <1>1
  <2> HIDE DEF a, b
  <2>3. n \in 0..63 /\ n % 32 = a /\ (n \div 32) % 2 = b
    BY <2>2
  <2> HIDE DEF n
  <2>4. CLi(0, n) = 1 + 4 * (n % 32) + 4096 * ((n \div 32) % 2) + 16384
    BY <1>3, <2>3
  <2>5. h = CLi(0, n)
    BY <2>1, <2>3, <2>4
  <2> QED BY <2>5 DEF n, a, b
<1>6. ASSUME NEW n \in 1..63, h = CLi(0, n) PROVE hint_length(h) = n
  <2>1. h = 1 + 4 * (n % 32) + 4096 * ((n \div 32) % 2) + 16384
    BY <1>3, <1>6
  <2>2. /\ h % 4 = 1 /\ (h \div 8192) % 8 = 2 /\ (h \div 128) % 32 = 0
        /\ 32 * ((h \div 4096) % 2) + ((h \div 4) % 32) = n
    BY <2>1
  <2> QED BY <1>2, <2>2
<1> QED BY <1>2, <1>4, <1>5, <1>6 DEF MAX_HINT

-----------------------------------------------------------------------------
(***************************************************************************)
(* What 32-bit instructions decode to, by opcode.                          *)
(***************************************************************************)
LEMMA Decode32At ==
    ASSUME NEW f
    PROVE  /\ f.opcode = 55  => decode32(f) = MakeInsn(4, "alu", {}, {f.rd})
           /\ f.opcode = 23  => decode32(f) = MakeInsn(4, "pcrel", {}, {f.rd})
           /\ f.opcode = 111 => decode32(f) = MakeInsn(4, "jump", {}, {f.rd})
           /\ f.opcode = 103 => decode32(f) = MakeInsn(4, "jump", {f.rs1}, {f.rd})
           /\ f.opcode = 99  => decode32(f) = MakeInsn(4, "branch", {f.rs1, f.rs2}, {})
           /\ f.opcode = 3   => decode32(f) = MakeInsn(4, "load", {f.rs1}, {f.rd})
           /\ f.opcode = 35  => decode32(f) = MakeInsn(4, "store", {f.rs1, f.rs2}, {})
           /\ f.opcode = 19  => decode32(f) = MakeInsn(4, "alu", {f.rs1}, {f.rd})
           /\ f.opcode = 51 /\ f.funct7 = 1 => decode32(f) = MakeInsn(4, "mul", {f.rs1, f.rs2}, {f.rd})
           /\ f.opcode = 51 /\ f.funct7 # 1 => decode32(f) = MakeInsn(4, "alu", {f.rs1, f.rs2}, {f.rd})
           /\ f.opcode \in {15, 115} => decode32(f) = MakeInsn(4, "system", {f.rs1}, {f.rd})
           /\ f.opcode = 47  => decode32(f) = MakeInsn(4, "atomic", {f.rs1, f.rs2}, {f.rd})
           /\ f.opcode = 7   => decode32(f) = MakeInsn(4, "load", {f.rs1}, {F(f.rd)})
           /\ f.opcode = 39  => decode32(f) = MakeInsn(4, "store", {f.rs1, F(f.rs2)}, {})
           /\ f.opcode \in FusedFP =>
                decode32(f) = MakeInsn(4, "fpu", {F(f.rs1), F(f.rs2), F(f.rs3)}, {F(f.rd)})
           /\ f.opcode = 83  => decode32(f) = decode_op_fp(f)
           /\ f.opcode \notin {55, 23, 111, 103, 99, 3, 35, 19, 51, 15, 115, 47, 7, 39, 83} \cup FusedFP =>
                decode32(f) = MakeInsn(4, "unknown", {f.rs1, f.rs2}, {f.rd})
<1>1. /\ f.opcode = 55  => decode32(f) = MakeInsn(4, "alu", {}, {f.rd})
      /\ f.opcode = 23  => decode32(f) = MakeInsn(4, "pcrel", {}, {f.rd})
      /\ f.opcode = 111 => decode32(f) = MakeInsn(4, "jump", {}, {f.rd})
      /\ f.opcode = 103 => decode32(f) = MakeInsn(4, "jump", {f.rs1}, {f.rd})
      /\ f.opcode = 99  => decode32(f) = MakeInsn(4, "branch", {f.rs1, f.rs2}, {})
      /\ f.opcode = 3   => decode32(f) = MakeInsn(4, "load", {f.rs1}, {f.rd})
  BY DEF decode32, FusedFP
<1>2. /\ f.opcode = 35  => decode32(f) = MakeInsn(4, "store", {f.rs1, f.rs2}, {})
      /\ f.opcode = 19  => decode32(f) = MakeInsn(4, "alu", {f.rs1}, {f.rd})
      /\ f.opcode = 51 /\ f.funct7 = 1 => decode32(f) = MakeInsn(4, "mul", {f.rs1, f.rs2}, {f.rd})
      /\ f.opcode = 51 /\ f.funct7 # 1 => decode32(f) = MakeInsn(4, "alu", {f.rs1, f.rs2}, {f.rd})
      /\ f.opcode \in {15, 115} => decode32(f) = MakeInsn(4, "system", {f.rs1}, {f.rd})
  BY DEF decode32, FusedFP
<1>3. /\ f.opcode = 47  => decode32(f) = MakeInsn(4, "atomic", {f.rs1, f.rs2}, {f.rd})
      /\ f.opcode = 7   => decode32(f) = MakeInsn(4, "load", {f.rs1}, {F(f.rd)})
      /\ f.opcode = 39  => decode32(f) = MakeInsn(4, "store", {f.rs1, F(f.rs2)}, {})
      /\ f.opcode \in FusedFP =>
           decode32(f) = MakeInsn(4, "fpu", {F(f.rs1), F(f.rs2), F(f.rs3)}, {F(f.rd)})
      /\ f.opcode = 83  => decode32(f) = decode_op_fp(f)
      /\ f.opcode \notin {55, 23, 111, 103, 99, 3, 35, 19, 51, 15, 115, 47, 7, 39, 83} \cup FusedFP =>
           decode32(f) = MakeInsn(4, "unknown", {f.rs1, f.rs2}, {f.rd})
  BY DEF decode32, FusedFP
<1> QED BY <1>1, <1>2, <1>3, Zenon

LEMMA DecodeOpFpAt ==
    ASSUME NEW f, NEW f5, f5 = f.funct7 \div 4
    PROVE  \E cls \in {"fpu", "fpdiv"} :
             /\ f5 \in 0..5 => decode_op_fp(f) = MakeInsn(4, cls, {F(f.rs1), F(f.rs2)}, {F(f.rd)})
             /\ f5 \in {8, 11} => decode_op_fp(f) = MakeInsn(4, cls, {F(f.rs1)}, {F(f.rd)})
             /\ f5 = 20 => decode_op_fp(f) = MakeInsn(4, cls, {F(f.rs1), F(f.rs2)}, {f.rd})
             /\ f5 \in {24, 28} => decode_op_fp(f) = MakeInsn(4, cls, {F(f.rs1)}, {f.rd})
             /\ f5 \in {26, 30} => decode_op_fp(f) = MakeInsn(4, cls, {f.rs1}, {F(f.rd)})
             /\ f5 \notin 0..5 \cup {8, 11, 20, 24, 28, 26, 30} =>
                  decode_op_fp(f) = MakeInsn(4, "unknown", {F(f.rs1), F(f.rs2)}, {F(f.rd)})
<1> DEFINE cls == IF f5 \in OPFP_LONG_LATENCY THEN "fpdiv" ELSE "fpu"
<1>1. cls \in {"fpu", "fpdiv"}
  OBVIOUS
<1>2. /\ f5 \in 0..5 => decode_op_fp(f) = MakeInsn(4, cls, {F(f.rs1), F(f.rs2)}, {F(f.rd)})
      /\ f5 \in {8, 11} => decode_op_fp(f) = MakeInsn(4, cls, {F(f.rs1)}, {F(f.rd)})
      /\ f5 = 20 => decode_op_fp(f) = MakeInsn(4, cls, {F(f.rs1), F(f.rs2)}, {f.rd})
      /\ f5 \in {24, 28} => decode_op_fp(f) = MakeInsn(4, cls, {F(f.rs1)}, {f.rd})
      /\ f5 \in {26, 30} => decode_op_fp(f) = MakeInsn(4, cls, {f.rs1}, {F(f.rd)})
      /\ f5 \notin 0..5 \cup {8, 11, 20, 24, 28, 26, 30} =>
           decode_op_fp(f) = MakeInsn(4, "unknown", {F(f.rs1), F(f.rs2)}, {F(f.rd)})
  BY DEF decode_op_fp, OPFP_FF, OPFP_FF1, OPFP_XFF, OPFP_XF, OPFP_FX
<1> HIDE DEF cls
<1> QED BY <1>1, <1>2

\* The registers and the class of an entry are those Insn speaks of.
Made(i) == i.size \in {2, 4} /\ i.cls \in Class /\ i.reads \in SUBSET Reg /\ i.writes \in SUBSET Reg

Registers == 0..63

LEMMA MadeInsn ==
    ASSUME NEW i, NEW size \in {2, 4}, NEW cls \in Class,
           NEW r \in SUBSET Registers, NEW w \in SUBSET Registers,
           i = MakeInsn(size, cls, r, w)
    PROVE  /\ Made(i) /\ i.size = size /\ i.cls = cls
           /\ i.reads = r \ {0} /\ i.writes = w \ {0}
  BY RegAssumption DEF Made, MakeInsn, Registers, FREG_BASE

LEMMA RegisterNumbers ==
    ASSUME NEW r \in 0..31
    PROVE  r \in Registers /\ F(r) \in Registers /\ F(r) # 0
  BY DEF Registers, F, FREG_BASE

LEMMA MadeLong ==
    \A i : \A r, w \in SUBSET Registers :
       (\E cls \in Class : i = MakeInsn(4, cls, r, w)) => Made(i) /\ i.size = 4
  BY MadeInsn

LEMMA Decode32Made ==
    ASSUME NEW f, f.rd \in 0..31, f.rs1 \in 0..31, f.rs2 \in 0..31, f.rs3 \in 0..31,
           f.funct7 \in Nat
    PROVE  Made(decode32(f)) /\ decode32(f).size = 4
<1>1. /\ {} \in SUBSET Registers /\ {f.rd} \in SUBSET Registers /\ {F(f.rd)} \in SUBSET Registers
      /\ {f.rs1} \in SUBSET Registers /\ {F(f.rs1)} \in SUBSET Registers
      /\ {f.rs1, f.rs2} \in SUBSET Registers /\ {F(f.rs1), F(f.rs2)} \in SUBSET Registers
      /\ {f.rs1, F(f.rs2)} \in SUBSET Registers
      /\ {F(f.rs1), F(f.rs2), F(f.rs3)} \in SUBSET Registers
  BY RegisterNumbers
<1>2. Class = {"alu", "mul", "load", "store", "branch", "jump", "system", "atomic", "pcrel",
               "fpu", "fpdiv", "unknown"}
  BY DEF Class
<1>3. CASE f.opcode \in {55, 23, 111}
  <2>1. \E cls \in Class : decode32(f) = MakeInsn(4, cls, {}, {f.rd})
    BY <1>2, <1>3, Decode32At
  <2> QED BY <1>1, <2>1, MadeLong, Zenon
<1>4. CASE f.opcode \in {103, 3, 19, 15, 115}
  <2>1. \E cls \in Class : decode32(f) = MakeInsn(4, cls, {f.rs1}, {f.rd})
    BY <1>2, <1>4, Decode32At
  <2> QED BY <1>1, <2>1, MadeLong, Zenon
<1>5. CASE f.opcode \in {99, 35}
  <2>1. \E cls \in Class : decode32(f) = MakeInsn(4, cls, {f.rs1, f.rs2}, {})
    BY <1>2, <1>5, Decode32At
  <2> QED BY <1>1, <2>1, MadeLong, Zenon
<1>6. CASE f.opcode \in {51, 47}
  <2>1. \E cls \in Class : decode32(f) = MakeInsn(4, cls, {f.rs1, f.rs2}, {f.rd})
    BY <1>2, <1>6, Decode32At
  <2> QED BY <1>1, <2>1, MadeLong, Zenon
<1>7. CASE f.opcode = 7
  <2>1. \E cls \in Class : decode32(f) = MakeInsn(4, cls, {f.rs1}, {F(f.rd)})
    BY <1>2, <1>7, Decode32At
  <2> QED BY <1>1, <2>1, MadeLong, Zenon
<1>8. CASE f.opcode = 39
  <2>1. \E cls \in Class : decode32(f) = MakeInsn(4, cls, {f.rs1, F(f.rs2)}, {})
    BY <1>2, <1>8, Decode32At
  <2> QED BY <1>1, <2>1, MadeLong, Zenon
<1>9. CASE f.opcode \in FusedFP
  <2>1. \E cls \in Class : decode32(f) = MakeInsn(4, cls, {F(f.rs1), F(f.rs2), F(f.rs3)}, {F(f.rd)})
    BY <1>2, <1>9, Decode32At
  <2> QED BY <1>1, <2>1, MadeLong, Zenon
<1>10. CASE f.opcode \notin {55, 23, 111, 103, 99, 3, 35, 19, 51, 15, 115, 47, 7, 39, 83} \cup FusedFP
  <2>1. \E cls \in Class : decode32(f) = MakeInsn(4, cls, {f.rs1, f.rs2}, {f.rd})
    BY <1>2, <1>10, Decode32At
  <2> QED BY <1>1, <2>1, MadeLong, Zenon
<1>11. CASE f.opcode = 83
  <2> DEFINE f5 == f.funct7 \div 4
  <2>1. decode32(f) = decode_op_fp(f)
    BY <1>11, Decode32At
  <2>2. CASE f5 \in 0..5
    <3>1. \E cls \in Class : decode32(f) = MakeInsn(4, cls, {F(f.rs1), F(f.rs2)}, {F(f.rd)})
      BY <1>2, <2>1, <2>2, DecodeOpFpAt
    <3> QED BY <1>1, <3>1, MadeLong, Zenon
  <2>3. CASE f5 \in {8, 11}
    <3>1. \E cls \in Class : decode32(f) = MakeInsn(4, cls, {F(f.rs1)}, {F(f.rd)})
      BY <1>2, <2>1, <2>3, DecodeOpFpAt
    <3> QED BY <1>1, <3>1, MadeLong, Zenon
  <2>4. CASE f5 = 20
    <3>1. \E cls \in Class : decode32(f) = MakeInsn(4, cls, {F(f.rs1), F(f.rs2)}, {f.rd})
      BY <1>2, <2>1, <2>4, DecodeOpFpAt
    <3> QED BY <1>1, <3>1, MadeLong, Zenon
  <2>5. CASE f5 \in {24, 28}
    <3>1. \E cls \in Class : decode32(f) = MakeInsn(4, cls, {F(f.rs1)}, {f.rd})
      BY <1>2, <2>1, <2>5, DecodeOpFpAt
    <3> QED BY <1>1, <3>1, MadeLong, Zenon
  <2>6. CASE f5 \in {26, 30}
    <3>1. \E cls \in Class : decode32(f) = MakeInsn(4, cls, {f.rs1}, {F(f.rd)})
      BY <1>2, <2>1, <2>6, DecodeOpFpAt
    <3> QED BY <1>1, <3>1, MadeLong, Zenon
  <2>7. CASE f5 \notin 0..5 \cup {8, 11, 20, 24, 28, 26, 30}
    <3>1. \E cls \in Class : decode32(f) = MakeInsn(4, cls, {F(f.rs1), F(f.rs2)}, {F(f.rd)})
      BY <1>2, <2>1, <2>7, DecodeOpFpAt
    <3> QED BY <1>1, <3>1, MadeLong, Zenon
  <2> QED BY <2>2, <2>3, <2>4, <2>5, <2>6, <2>7
<1> QED BY <1>3, <1>4, <1>5, <1>6, <1>7, <1>8, <1>9, <1>10, <1>11

-----------------------------------------------------------------------------
(***************************************************************************)
(* 16-bit instructions, beside the 32-bit ones they stand for.             *)
(***************************************************************************)
AsExpanded(i, h) ==
    LET e == decode32(Expansion(h)) IN i.cls = e.cls /\ i.reads = e.reads /\ i.writes = e.writes

\* A compressed form and its expansion with the same operands but for x0.
LEMMA SameOperands ==
    ASSUME NEW h, NEW i, NEW cls \in Class,
           NEW r \in SUBSET Registers, NEW w \in SUBSET Registers,
           NEW q \in SUBSET Registers, NEW v \in SUBSET Registers,
           i = MakeInsn(2, cls, r, w), decode32(Expansion(h)) = MakeInsn(4, cls, q, v),
           r \ {0} = q \ {0}, w \ {0} = v \ {0}
    PROVE  Made(i) /\ i.size = 2 /\ AsExpanded(i, h)
<1>1. /\ Made(i) /\ i.size = 2 /\ i.cls = cls
      /\ i.reads = r \ {0} /\ i.writes = w \ {0}
  BY MadeInsn
<1>2. /\ decode32(Expansion(h)).cls = cls
      /\ decode32(Expansion(h)).reads = q \ {0} /\ decode32(Expansion(h)).writes = v \ {0}
  BY MadeInsn
<1> QED BY <1>1, <1>2 DEF AsExpanded

LEMMA Quadrant0Decodes ==
    ASSUME NEW h \in Half, Bits(h, 0, 2) = 0
    PROVE  /\ Made(Quadrant0(h)) /\ Quadrant0(h).size = 2
           /\ ~ReservedRVC(h) => AsExpanded(Quadrant0(h), h)
<1> DEFINE p1 == 8 + Bits(h, 7, 3)
           p2 == 8 + Bits(h, 2, 3)
<1>1. /\ Bits(h, 13, 3) \in 0..7 /\ Bits(h, 0, 2) = 0
      /\ rvc_reg(Bits(h, 7, 3)) = p1 /\ rvc_reg(Bits(h, 2, 3)) = p2
  BY FieldRanges, ShortRegister
<1>2. p1 \in Registers /\ p2 \in Registers /\ F(p1) \in Registers /\ F(p2) \in Registers /\ 2 \in Registers
  BY FieldRanges, RegisterNumbers
<1>3. {"alu", "load", "store", "branch", "jump", "system", "unknown"} \subseteq Class
  BY DEF Class
<1> HIDE DEF p1, p2
<1>4. CASE Bits(h, 13, 3) = 0 /\ h # 0
  <2>1. Quadrant0(h) = MakeInsn(2, "alu", {2}, {p2})
    BY <1>1, <1>4 DEF Quadrant0, p1, p2
  <2>2. Expansion(h) = Expanded(19, p2, 2, 0, 0)
    BY <1>1, <1>4 DEF Expansion, p1, p2
  <2>3. decode32(Expansion(h)) = MakeInsn(4, "alu", {2}, {p2})
    BY <2>2 DEF Expanded, decode32
  <2> QED BY <1>2, <1>3, <2>1, <2>3, SameOperands
<1>5. CASE Bits(h, 13, 3) = 0 /\ h = 0
  <2>1. Quadrant0(h) = MakeInsn(2, "unknown", {}, {})
    BY <1>1, <1>5 DEF Quadrant0, p1, p2
  <2>2. ReservedRVC(h)
    BY <1>1, <1>5, FieldRanges DEF ReservedRVC, p1, p2
  <2>3. {} \in SUBSET Registers /\ {} \in SUBSET Registers /\ "unknown" \in Class
    BY <1>2, <1>3
  <2> QED BY <2>1, <2>2, <2>3, MadeInsn
<1>6. CASE Bits(h, 13, 3) = 2
  <2>1. Quadrant0(h) = MakeInsn(2, "load", {p1}, {p2})
    BY <1>1, <1>6 DEF Quadrant0, p1, p2
  <2>2. Expansion(h) = Expanded(3, p2, p1, 0, 0)
    BY <1>1, <1>6 DEF Expansion, p1, p2
  <2>3. decode32(Expansion(h)) = MakeInsn(4, "load", {p1}, {p2})
    BY <2>2 DEF Expanded, decode32
  <2> QED BY <1>2, <1>3, <2>1, <2>3, SameOperands
<1>7. CASE Bits(h, 13, 3) = 6
  <2>1. Quadrant0(h) = MakeInsn(2, "store", {p1, p2}, {})
    BY <1>1, <1>7 DEF Quadrant0, p1, p2
  <2>2. Expansion(h) = Expanded(35, 0, p1, p2, 0)
    BY <1>1, <1>7 DEF Expansion, p1, p2
  <2>3. decode32(Expansion(h)) = MakeInsn(4, "store", {p1, p2}, {})
    BY <2>2 DEF Expanded, decode32
  <2> QED BY <1>2, <1>3, <2>1, <2>3, SameOperands
<1>8. CASE Bits(h, 13, 3) \in {1, 3}
  <2>1. Quadrant0(h) = MakeInsn(2, "load", {p1}, {F(p2)})
    BY <1>1, <1>8 DEF Quadrant0, p1, p2
  <2>2. Expansion(h) = Expanded(7, p2, p1, 0, 0)
    BY <1>1, <1>8 DEF Expansion, p1, p2
  <2>3. decode32(Expansion(h)) = MakeInsn(4, "load", {p1}, {F(p2)})
    BY <2>2 DEF Expanded, decode32
  <2> QED BY <1>2, <1>3, <2>1, <2>3, SameOperands
<1>9. CASE Bits(h, 13, 3) \in {5, 7}
  <2>1. Quadrant0(h) = MakeInsn(2, "store", {p1, F(p2)}, {})
    BY <1>1, <1>9 DEF Quadrant0, p1, p2
  <2>2. Expansion(h) = Expanded(39, 0, p1, p2, 0)
    BY <1>1, <1>9 DEF Expansion, p1, p2
  <2>3. decode32(Expansion(h)) = MakeInsn(4, "store", {p1, F(p2)}, {})
    BY <2>2 DEF Expanded, decode32
  <2> QED BY <1>2, <1>3, <2>1, <2>3, SameOperands
<1>10. CASE Bits(h, 13, 3) = 4
  <2>1. Quadrant0(h) = MakeInsn(2, "unknown", {}, {})
    BY <1>1, <1>10 DEF Quadrant0, p1, p2
  <2>2. ReservedRVC(h)
    BY <1>1, <1>10, FieldRanges DEF ReservedRVC, p1, p2
  <2>3. {} \in SUBSET Registers /\ {} \in SUBSET Registers /\ "unknown" \in Class
    BY <1>2, <1>3
  <2> QED BY <2>1, <2>2, <2>3, MadeInsn
<1> QED BY <1>1, <1>4, <1>5, <1>6, <1>7, <1>8, <1>9, <1>10

LEMMA Quadrant1Decodes ==
    ASSUME NEW h \in Half, Bits(h, 0, 2) = 1
    PROVE  /\ Made(Quadrant1(h)) /\ Quadrant1(h).size = 2
           /\ ~ReservedRVC(h) => AsExpanded(Quadrant1(h), h)
<1> DEFINE rd == Bits(h, 7, 5)
           p1 == 8 + Bits(h, 7, 3)
           p2 == 8 + Bits(h, 2, 3)
<1>1. /\ Bits(h, 13, 3) \in 0..7 /\ Bits(h, 0, 2) = 1
      /\ rvc_reg(Bits(h, 7, 3)) = p1 /\ rvc_reg(Bits(h, 2, 3)) = p2
  BY FieldRanges, ShortRegister
<1>2. {0, 1, 2, rd, p1, p2} \subseteq Registers
  BY FieldRanges, RegisterNumbers
<1>3. {"alu", "load", "store", "branch", "jump", "system", "unknown"} \subseteq Class
  BY DEF Class
<1> HIDE DEF rd, p1, p2
<1>4. CASE Bits(h, 13, 3) = 0
  <2>1. Quadrant1(h) = MakeInsn(2, "alu", {rd}, {rd})
    BY <1>1, <1>4 DEF Quadrant1, rd, p1, p2
  <2>2. Expansion(h) = Expanded(19, rd, rd, 0, 0)
    BY <1>1, <1>4 DEF Expansion, rd, p1, p2
  <2>3. decode32(Expansion(h)) = MakeInsn(4, "alu", {rd}, {rd})
    BY <2>2 DEF Expanded, decode32
  <2> QED BY <1>2, <1>3, <2>1, <2>3, SameOperands
<1>5. CASE Bits(h, 13, 3) = 1
  <2>1. Quadrant1(h) = MakeInsn(2, "jump", {}, {1})
    BY <1>1, <1>5 DEF Quadrant1, rd, p1, p2
  <2>2. Expansion(h) = Expanded(111, 1, 0, 0, 0)
    BY <1>1, <1>5 DEF Expansion, rd, p1, p2
  <2>3. decode32(Expansion(h)) = MakeInsn(4, "jump", {}, {1})
    BY <2>2 DEF Expanded, decode32
  <2> QED BY <1>2, <1>3, <2>1, <2>3, SameOperands
<1>6. CASE Bits(h, 13, 3) = 2
  <2>1. Quadrant1(h) = MakeInsn(2, "alu", {}, {rd})
    BY <1>1, <1>6 DEF Quadrant1, rd, p1, p2
  <2>2. Expansion(h) = Expanded(19, rd, 0, 0, 0)
    BY <1>1, <1>6 DEF Expansion, rd, p1, p2
  <2>3. decode32(Expansion(h)) = MakeInsn(4, "alu", {0}, {rd})
    BY <2>2 DEF Expanded, decode32
  <2> QED BY <1>2, <1>3, <2>1, <2>3, SameOperands
<1>7. CASE Bits(h, 13, 3) = 3 /\ rd = 2
  <2>1. Quadrant1(h) = MakeInsn(2, "alu", {2}, {2})
    BY <1>1, <1>7 DEF Quadrant1, rd, p1, p2
  <2>2. Expansion(h) = Expanded(19, 2, 2, 0, 0)
    BY <1>1, <1>7 DEF Expansion, rd, p1, p2
  <2>3. decode32(Expansion(h)) = MakeInsn(4, "alu", {2}, {2})
    BY <2>2 DEF Expanded, decode32
  <2> QED BY <1>2, <1>3, <2>1, <2>3, SameOperands
<1>8. CASE Bits(h, 13, 3) = 3 /\ rd # 2
  <2>1. Quadrant1(h) = MakeInsn(2, "alu", {}, {rd})
    BY <1>1, <1>8 DEF Quadrant1, rd, p1, p2
  <2>2. Expansion(h) = Expanded(55, rd, 0, 0, 0)
    BY <1>1, <1>8 DEF Expansion, rd, p1, p2
  <2>3. decode32(Expansion(h)) = MakeInsn(4, "alu", {}, {rd})
    BY <2>2 DEF Expanded, decode32
  <2> QED BY <1>2, <1>3, <2>1, <2>3, SameOperands
<1>9. CASE Bits(h, 13, 3) = 4 /\ Bits(h, 10, 2) = 3
  <2>1. Quadrant1(h) = MakeInsn(2, "alu", {p1, p2}, {p1})
    BY <1>1, <1>9 DEF Quadrant1, rd, p1, p2
  <2>2. Expansion(h) = Expanded(51, p1, p1, p2, 0)
    BY <1>1, <1>9 DEF Expansion, rd, p1, p2
  <2>3. decode32(Expansion(h)) = MakeInsn(4, "alu", {p1, p2}, {p1})
    BY <2>2 DEF Expanded, decode32
  <2> QED BY <1>2, <1>3, <2>1, <2>3, SameOperands
<1>10. CASE Bits(h, 13, 3) = 4 /\ Bits(h, 10, 2) # 3
  <2>1. Quadrant1(h) = MakeInsn(2, "alu", {p1}, {p1})
    BY <1>1, <1>10 DEF Quadrant1, rd, p1, p2
  <2>2. Expansion(h) = Expanded(19, p1, p1, 0, 0)
    BY <1>1, <1>10 DEF Expansion, rd, p1, p2
  <2>3. decode32(Expansion(h)) = MakeInsn(4, "alu", {p1}, {p1})
    BY <2>2 DEF Expanded, decode32
  <2> QED BY <1>2, <1>3, <2>1, <2>3, SameOperands
<1>11. CASE Bits(h, 13, 3) = 5
  <2>1. Quadrant1(h) = MakeInsn(2, "jump", {}, {})
    BY <1>1, <1>11 DEF Quadrant1, rd, p1, p2
  <2>2. Expansion(h) = Expanded(111, 0, 0, 0, 0)
    BY <1>1, <1>11 DEF Expansion, rd, p1, p2
  <2>3. decode32(Expansion(h)) = MakeInsn(4, "jump", {}, {0})
    BY <2>2 DEF Expanded, decode32
  <2> QED BY <1>2, <1>3, <2>1, <2>3, SameOperands
<1>12. CASE Bits(h, 13, 3) \in {6, 7}
  <2>1. Quadrant1(h) = MakeInsn(2, "branch", {p1}, {})
    BY <1>1, <1>12 DEF Quadrant1, rd, p1, p2
  <2>2. Expansion(h) = Expanded(99, 0, p1, 0, 0)
    BY <1>1, <1>12 DEF Expansion, rd, p1, p2
  <2>3. decode32(Expansion(h)) = MakeInsn(4, "branch", {p1, 0}, {})
    BY <2>2 DEF Expanded, decode32
  <2> QED BY <1>2, <1>3, <2>1, <2>3, SameOperands
<1> QED BY <1>1, <1>4, <1>5, <1>6, <1>7, <1>8, <1>9, <1>10, <1>11, <1>12

LEMMA Quadrant2Decodes ==
    ASSUME NEW h \in Half, Bits(h, 0, 2) = 2
    PROVE  /\ Made(Quadrant2(h)) /\ Quadrant2(h).size = 2
           /\ ~ReservedRVC(h) => AsExpanded(Quadrant2(h), h)
<1> DEFINE rd  == Bits(h, 7, 5)
           rs2 == Bits(h, 2, 5)
           b   == Bits(h, 12, 1)
<1>1. Bits(h, 13, 3) \in 0..7 /\ Bits(h, 0, 2) = 2 /\ b \in {0, 1}
  BY FieldRanges
<1>2. {0, 1, 2, rd, rs2, F(rd), F(rs2)} \subseteq Registers
  BY FieldRanges, RegisterNumbers
<1>3. {"alu", "load", "store", "branch", "jump", "system", "unknown"} \subseteq Class
  BY DEF Class
<1> HIDE DEF rd, rs2, b
<1>4. CASE Bits(h, 13, 3) = 0
  <2>1. Quadrant2(h) = MakeInsn(2, "alu", {rd}, {rd})
    BY <1>1, <1>4 DEF Quadrant2, rd, rs2, b
  <2>2. Expansion(h) = Expanded(19, rd, rd, 0, 0)
    BY <1>1, <1>4 DEF Expansion, rd, rs2, b
  <2>3. decode32(Expansion(h)) = MakeInsn(4, "alu", {rd}, {rd})
    BY <2>2 DEF Expanded, decode32
  <2> QED BY <1>2, <1>3, <2>1, <2>3, SameOperands
<1>5. CASE Bits(h, 13, 3) = 2
  <2>1. Quadrant2(h) = MakeInsn(2, "load", {2}, {rd})
    BY <1>1, <1>5 DEF Quadrant2, rd, rs2, b
  <2>2. Expansion(h) = Expanded(3, rd, 2, 0, 0)
    BY <1>1, <1>5 DEF Expansion, rd, rs2, b
  <2>3. decode32(Expansion(h)) = MakeInsn(4, "load", {2}, {rd})
    BY <2>2 DEF Expanded, decode32
  <2> QED BY <1>2, <1>3, <2>1, <2>3, SameOperands
<1>6. CASE Bits(h, 13, 3) \in {1, 3}
  <2>1. Quadrant2(h) = MakeInsn(2, "load", {2}, {F(rd)})
    BY <1>1, <1>6 DEF Quadrant2, rd, rs2, b
  <2>2. Expansion(h) = Expanded(7, rd, 2, 0, 0)
    BY <1>1, <1>6 DEF Expansion, rd, rs2, b
  <2>3. decode32(Expansion(h)) = MakeInsn(4, "load", {2}, {F(rd)})
    BY <2>2 DEF Expanded, decode32
  <2> QED BY <1>2, <1>3, <2>1, <2>3, SameOperands
<1>7. CASE Bits(h, 13, 3) = 6
  <2>1. Quadrant2(h) = MakeInsn(2, "store", {2, rs2}, {})
    BY <1>1, <1>7 DEF Quadrant2, rd, rs2, b
  <2>2. Expansion(h) = Expanded(35, 0, 2, rs2, 0)
    BY <1>1, <1>7 DEF Expansion, rd, rs2, b
  <2>3. decode32(Expansion(h)) = MakeInsn(4, "store", {2, rs2}, {})
    BY <2>2 DEF Expanded, decode32
  <2> QED BY <1>2, <1>3, <2>1, <2>3, SameOperands
<1>8. CASE Bits(h, 13, 3) \in {5, 7}
  <2>1. Quadrant2(h) = MakeInsn(2, "store", {2, F(rs2)}, {})
    BY <1>1, <1>8 DEF Quadrant2, rd, rs2, b
  <2>2. Expansion(h) = Expanded(39, 0, 2, rs2, 0)
    BY <1>1, <1>8 DEF Expansion, rd, rs2, b
  <2>3. decode32(Expansion(h)) = MakeInsn(4, "store", {2, F(rs2)}, {})
    BY <2>2 DEF Expanded, decode32
  <2> QED BY <1>2, <1>3, <2>1, <2>3, SameOperands
<1>9. CASE Bits(h, 13, 3) = 4 /\ b = 1 /\ rd = 0 /\ rs2 = 0
  <2>1. Quadrant2(h) = MakeInsn(2, "system", {}, {})
    BY <1>1, <1>9 DEF Quadrant2, rd, rs2, b
  <2>2. Expansion(h) = Expanded(115, 0, 0, 0, 0)
    BY <1>1, <1>9 DEF Expansion, rd, rs2, b
  <2>3. decode32(Expansion(h)) = MakeInsn(4, "system", {0}, {0})
    BY <2>2 DEF Expanded, decode32
  <2> QED BY <1>2, <1>3, <2>1, <2>3, SameOperands
<1>10. CASE Bits(h, 13, 3) = 4 /\ b = 0 /\ rd # 0 /\ rs2 = 0
  <2>1. Quadrant2(h) = MakeInsn(2, "jump", {rd}, {})
    BY <1>1, <1>10 DEF Quadrant2, rd, rs2, b
  <2>2. Expansion(h) = Expanded(103, 0, rd, 0, 0)
    BY <1>1, <1>10 DEF Expansion, rd, rs2, b
  <2>3. decode32(Expansion(h)) = MakeInsn(4, "jump", {rd}, {0})
    BY <2>2 DEF Expanded, decode32
  <2> QED BY <1>2, <1>3, <2>1, <2>3, SameOperands
<1>11. CASE Bits(h, 13, 3) = 4 /\ b = 0 /\ rd = 0 /\ rs2 = 0
  <2>1. Quadrant2(h) = MakeInsn(2, "jump", {rd}, {})
    BY <1>1, <1>11 DEF Quadrant2, rd, rs2, b
  <2>2. ReservedRVC(h)
    BY <1>1, <1>11, FieldRanges DEF ReservedRVC, rd, rs2, b
  <2>3. {rd} \in SUBSET Registers /\ {} \in SUBSET Registers /\ "jump" \in Class
    BY <1>2, <1>3
  <2> QED BY <2>1, <2>2, <2>3, MadeInsn
<1>12. CASE Bits(h, 13, 3) = 4 /\ b = 1 /\ rd # 0 /\ rs2 = 0
  <2>1. Quadrant2(h) = MakeInsn(2, "jump", {rd}, {1})
    BY <1>1, <1>12 DEF Quadrant2, rd, rs2, b
  <2>2. Expansion(h) = Expanded(103, 1, rd, 0, 0)
    BY <1>1, <1>12 DEF Expansion, rd, rs2, b
  <2>3. decode32(Expansion(h)) = MakeInsn(4, "jump", {rd}, {1})
    BY <2>2 DEF Expanded, decode32
  <2> QED BY <1>2, <1>3, <2>1, <2>3, SameOperands
<1>13. CASE Bits(h, 13, 3) = 4 /\ b = 0 /\ rs2 # 0
  <2>1. Quadrant2(h) = MakeInsn(2, "alu", {rs2}, {rd})
    BY <1>1, <1>13 DEF Quadrant2, rd, rs2, b
  <2>2. Expansion(h) = Expanded(51, rd, 0, rs2, 0)
    BY <1>1, <1>13 DEF Expansion, rd, rs2, b
  <2>3. decode32(Expansion(h)) = MakeInsn(4, "alu", {0, rs2}, {rd})
    BY <2>2 DEF Expanded, decode32
  <2> QED BY <1>2, <1>3, <2>1, <2>3, SameOperands
<1>14. CASE Bits(h, 13, 3) = 4 /\ b = 1 /\ rs2 # 0
  <2>1. Quadrant2(h) = MakeInsn(2, "alu", {rd, rs2}, {rd})
    BY <1>1, <1>14 DEF Quadrant2, rd, rs2, b
  <2>2. Expansion(h) = Expanded(51, rd, rd, rs2, 0)
    BY <1>1, <1>14 DEF Expansion, rd, rs2, b
  <2>3. decode32(Expansion(h)) = MakeInsn(4, "alu", {rd, rs2}, {rd})
    BY <2>2 DEF Expanded, decode32
  <2> QED BY <1>2, <1>3, <2>1, <2>3, SameOperands
<1> QED BY <1>1, <1>4, <1>5, <1>6, <1>7, <1>8, <1>9, <1>10, <1>11, <1>12, <1>13, <1>14

-----------------------------------------------------------------------------
(***************************************************************************)
(* The entry of a word.                                                    *)
(***************************************************************************)
LEMMA ShortDecodes ==
    ASSUME NEW w \in Word, is_compressed(w)
    PROVE  /\ Made(decode(w)) /\ decode(w).size = 2
           /\ ~ReservedRVC(w.lo) => AsExpanded(decode(w), w.lo)
           /\ hint_length(w.lo) # 0 => IsHintInsn(decode(w))
<1> DEFINE h == w.lo
<1>1. h \in Half /\ Bits(h, 0, 2) \in 0..2 /\ decode(w) = decode16(h)
  <2>1. h \in Half
    BY DEF Word
  <2>2. Bits(h, 0, 2) \in 0..3 /\ Bits(h, 0, 2) # 3
    BY <2>1, FieldRanges DEF is_compressed
  <2> QED BY <2>1, <2>2 DEF decode
<1> HIDE DEF h
<1>2. CASE Bits(h, 0, 2) = 0
  <2>1. decode16(h) = Quadrant0(h) /\ hint_length(h) = 0
    BY <1>2 DEF decode16, hint_length
  <2> QED BY <1>1, <1>2, <2>1, Quadrant0Decodes DEF h
<1>3. CASE Bits(h, 0, 2) = 1
  <2>1. decode16(h) = Quadrant1(h)
    BY <1>3 DEF decode16
  <2>2. ASSUME hint_length(h) # 0 PROVE IsHintInsn(Quadrant1(h))
    <3>1. Bits(h, 13, 3) = 2 /\ Bits(h, 7, 5) = 0
      BY <2>2 DEF hint_length
    <3>2. Quadrant1(h) = MakeInsn(2, "alu", {}, {0})
      BY <3>1 DEF Quadrant1
    <3> QED BY <3>2 DEF MakeInsn, IsHintInsn
  <2> QED BY <1>1, <1>3, <2>1, <2>2, Quadrant1Decodes DEF h
<1>4. CASE Bits(h, 0, 2) = 2
  <2>1. decode16(h) = Quadrant2(h) /\ hint_length(h) = 0
    BY <1>4 DEF decode16, hint_length
  <2> QED BY <1>1, <1>4, <2>1, Quadrant2Decodes DEF h
<1> QED BY <1>1, <1>2, <1>3, <1>4

LEMMA LongDecodes ==
    ASSUME NEW w \in Word, ~is_compressed(w)
    PROVE  Made(decode(w)) /\ decode(w).size = 4 /\ decode(w) = decode32(Fields(w))
<1> DEFINE f == Fields(w)
<1>1. /\ f.rd \in 0..31 /\ f.rs1 \in 0..31 /\ f.rs2 \in 0..31 /\ f.rs3 \in 0..31
      /\ f.funct7 \in Nat
  BY FieldsOfWord
<1> HIDE DEF f
<1>2. decode(w) = decode32(f)
  BY DEF decode, f
<1> QED BY <1>1, <1>2, Decode32Made DEF f

LEMMA EntryIsInsn ==
    ASSUME NEW w \in Word
    PROVE  /\ Entry(w) \in Insn
           /\ Entry(w).size = 2 <=> is_compressed(w)
           /\ Entry(w).size = 2 => Entry(w).hint = hint_length(w.lo)
           /\ Entry(w).cls = decode(w).cls
           /\ Entry(w).reads = decode(w).reads /\ Entry(w).writes = decode(w).writes
<1> DEFINE i == decode(w)
           n == IF i.size = 2 THEN hint_length(w.lo) ELSE 0
<1>1. Made(i) /\ (i.size = 2 <=> is_compressed(w))
  BY ShortDecodes, LongDecodes
<1>2. n \in 0..MAX_HINT
  <2>1. w.lo \in Half
    BY DEF Word
  <2> QED BY <2>1, HintIsCLi DEF MAX_HINT
<1>3. n # 0 => IsHintInsn(i)
  BY <1>1, ShortDecodes
<1>4. Entry(w) = [addr |-> 0, size |-> i.size, cls |-> i.cls, reads |-> i.reads,
                  writes |-> i.writes, hint |-> n]
  BY DEF Entry
<1> HIDE DEF i, n
<1>5. Entry(w) \in InsnFields
  BY <1>1, <1>2, <1>4 DEF Made, InsnFields
<1>6. Entry(w).hint # 0 => IsHintInsn(Entry(w))
  BY <1>3, <1>4 DEF IsHintInsn
<1>7. /\ Entry(w).size = i.size /\ Entry(w).cls = i.cls /\ Entry(w).hint = n
      /\ Entry(w).reads = i.reads /\ Entry(w).writes = i.writes
  BY <1>4
<1> QED BY <1>1, <1>5, <1>6, <1>7 DEF Insn, i, n

-----------------------------------------------------------------------------
(***************************************************************************)
(* The operands of a 32-bit instruction, against the manual.               *)
(***************************************************************************)
OperandsRight(i, f) ==
    /\ ManualReads(f) \ {0} \subseteq i.reads /\ ManualWrites(f) \ {0} \subseteq i.writes
    /\ is_lane0_only(i) <=> ManualLane0(f)
    /\ uses_lsu(i) <=> f.opcode \in Memory
    /\ ~is_lane0_only(i) => i.reads = ManualReads(f) \ {0} /\ i.writes = ManualWrites(f) \ {0}

LEMMA OperandsOf ==
    ASSUME NEW i, NEW f, NEW cls, NEW r, NEW w,
           i = MakeInsn(4, cls, r, w),
           ManualReads(f) \subseteq r, ManualWrites(f) \subseteq w,
           cls \in LANE0_ONLY <=> ManualLane0(f),
           cls \in LSU_CLASSES <=> f.opcode \in Memory,
           cls \notin LANE0_ONLY => r = ManualReads(f) /\ w = ManualWrites(f)
    PROVE  OperandsRight(i, f)
<1>1. i.cls = cls /\ i.reads = r \ {0} /\ i.writes = w \ {0}
  BY DEF MakeInsn
<1> QED BY <1>1 DEF OperandsRight, is_lane0_only, uses_lsu

LEMMA LongOperands ==
    ASSUME NEW f, f.funct7 \in Nat, Defined(f)
    PROVE  OperandsRight(decode32(f), f)
<1>1. CASE f.opcode = 55
  <2>1. decode32(f) = MakeInsn(4, "alu", {}, {f.rd})
    BY <1>1, Decode32At
  <2>2. ManualReads(f) = {} /\ ManualWrites(f) = {f.rd}
    BY <1>1 DEF ManualReads, ManualWrites, IntegerOp, FusedFP
  <2>3. /\ "alu" \in LANE0_ONLY <=> ManualLane0(f)
        /\ "alu" \in LSU_CLASSES <=> f.opcode \in Memory
    BY <1>1 DEF LANE0_ONLY, LSU_CLASSES, ManualLane0, Memory, FusedFP
  <2> QED BY <2>1, <2>2, <2>3, OperandsOf
<1>2. CASE f.opcode = 23
  <2>1. decode32(f) = MakeInsn(4, "pcrel", {}, {f.rd})
    BY <1>2, Decode32At
  <2>2. ManualReads(f) = {} /\ ManualWrites(f) = {f.rd}
    BY <1>2 DEF ManualReads, ManualWrites, IntegerOp, FusedFP
  <2>3. /\ "pcrel" \in LANE0_ONLY <=> ManualLane0(f)
        /\ "pcrel" \in LSU_CLASSES <=> f.opcode \in Memory
    BY <1>2 DEF LANE0_ONLY, LSU_CLASSES, ManualLane0, Memory, FusedFP
  <2> QED BY <2>1, <2>2, <2>3, OperandsOf
<1>3. CASE f.opcode = 111
  <2>1. decode32(f) = MakeInsn(4, "jump", {}, {f.rd})
    BY <1>3, Decode32At
  <2>2. ManualReads(f) = {} /\ ManualWrites(f) = {f.rd}
    BY <1>3 DEF ManualReads, ManualWrites, IntegerOp, FusedFP
  <2>3. /\ "jump" \in LANE0_ONLY <=> ManualLane0(f)
        /\ "jump" \in LSU_CLASSES <=> f.opcode \in Memory
    BY <1>3 DEF LANE0_ONLY, LSU_CLASSES, ManualLane0, Memory, FusedFP
  <2> QED BY <2>1, <2>2, <2>3, OperandsOf
<1>4. CASE f.opcode = 103
  <2>1. decode32(f) = MakeInsn(4, "jump", {f.rs1}, {f.rd})
    BY <1>4, Decode32At
  <2>2. ManualReads(f) = {f.rs1} /\ ManualWrites(f) = {f.rd}
    BY <1>4 DEF ManualReads, ManualWrites, IntegerOp, FusedFP
  <2>3. /\ "jump" \in LANE0_ONLY <=> ManualLane0(f)
        /\ "jump" \in LSU_CLASSES <=> f.opcode \in Memory
    BY <1>4 DEF LANE0_ONLY, LSU_CLASSES, ManualLane0, Memory, FusedFP
  <2> QED BY <2>1, <2>2, <2>3, OperandsOf
<1>5. CASE f.opcode = 99
  <2>1. decode32(f) = MakeInsn(4, "branch", {f.rs1, f.rs2}, {})
    BY <1>5, Decode32At
  <2>2. ManualReads(f) = {f.rs1, f.rs2} /\ ManualWrites(f) = {}
    BY <1>5 DEF ManualReads, ManualWrites, IntegerOp, FusedFP
  <2>3. /\ "branch" \in LANE0_ONLY <=> ManualLane0(f)
        /\ "branch" \in LSU_CLASSES <=> f.opcode \in Memory
    BY <1>5 DEF LANE0_ONLY, LSU_CLASSES, ManualLane0, Memory, FusedFP
  <2> QED BY <2>1, <2>2, <2>3, OperandsOf
<1>6. CASE f.opcode = 3
  <2>1. decode32(f) = MakeInsn(4, "load", {f.rs1}, {f.rd})
    BY <1>6, Decode32At
  <2>2. ManualReads(f) = {f.rs1} /\ ManualWrites(f) = {f.rd}
    BY <1>6 DEF ManualReads, ManualWrites, IntegerOp, FusedFP
  <2>3. /\ "load" \in LANE0_ONLY <=> ManualLane0(f)
        /\ "load" \in LSU_CLASSES <=> f.opcode \in Memory
    BY <1>6 DEF LANE0_ONLY, LSU_CLASSES, ManualLane0, Memory, FusedFP
  <2> QED BY <2>1, <2>2, <2>3, OperandsOf
<1>7. CASE f.opcode = 35
  <2>1. decode32(f) = MakeInsn(4, "store", {f.rs1, f.rs2}, {})
    BY <1>7, Decode32At
  <2>2. ManualReads(f) = {f.rs1, f.rs2} /\ ManualWrites(f) = {}
    BY <1>7 DEF ManualReads, ManualWrites, IntegerOp, FusedFP
  <2>3. /\ "store" \in LANE0_ONLY <=> ManualLane0(f)
        /\ "store" \in LSU_CLASSES <=> f.opcode \in Memory
    BY <1>7 DEF LANE0_ONLY, LSU_CLASSES, ManualLane0, Memory, FusedFP
  <2> QED BY <2>1, <2>2, <2>3, OperandsOf
<1>8. CASE f.opcode = 19
  <2>1. decode32(f) = MakeInsn(4, "alu", {f.rs1}, {f.rd})
    BY <1>8, Decode32At
  <2>2. ManualReads(f) = {f.rs1} /\ ManualWrites(f) = {f.rd}
    BY <1>8 DEF ManualReads, ManualWrites, IntegerOp, FusedFP
  <2>3. /\ "alu" \in LANE0_ONLY <=> ManualLane0(f)
        /\ "alu" \in LSU_CLASSES <=> f.opcode \in Memory
    BY <1>8 DEF LANE0_ONLY, LSU_CLASSES, ManualLane0, Memory, FusedFP
  <2> QED BY <2>1, <2>2, <2>3, OperandsOf
<1>9. CASE f.opcode = 47
  <2>1. decode32(f) = MakeInsn(4, "atomic", {f.rs1, f.rs2}, {f.rd})
    BY <1>9, Decode32At
  <2>2. ManualReads(f) = {f.rs1, f.rs2} /\ ManualWrites(f) = {f.rd}
    BY <1>9 DEF ManualReads, ManualWrites, IntegerOp, FusedFP
  <2>3. /\ "atomic" \in LANE0_ONLY <=> ManualLane0(f)
        /\ "atomic" \in LSU_CLASSES <=> f.opcode \in Memory
    BY <1>9 DEF LANE0_ONLY, LSU_CLASSES, ManualLane0, Memory, FusedFP
  <2> QED BY <2>1, <2>2, <2>3, OperandsOf
<1>10. CASE f.opcode = 7
  <2>1. decode32(f) = MakeInsn(4, "load", {f.rs1}, {F(f.rd)})
    BY <1>10, Decode32At
  <2>2. ManualReads(f) = {f.rs1} /\ ManualWrites(f) = {F(f.rd)}
    BY <1>10 DEF ManualReads, ManualWrites, IntegerOp, FusedFP
  <2>3. /\ "load" \in LANE0_ONLY <=> ManualLane0(f)
        /\ "load" \in LSU_CLASSES <=> f.opcode \in Memory
    BY <1>10 DEF LANE0_ONLY, LSU_CLASSES, ManualLane0, Memory, FusedFP
  <2> QED BY <2>1, <2>2, <2>3, OperandsOf
<1>11. CASE f.opcode = 39
  <2>1. decode32(f) = MakeInsn(4, "store", {f.rs1, F(f.rs2)}, {})
    BY <1>11, Decode32At
  <2>2. ManualReads(f) = {f.rs1, F(f.rs2)} /\ ManualWrites(f) = {}
    BY <1>11 DEF ManualReads, ManualWrites, IntegerOp, FusedFP
  <2>3. /\ "store" \in LANE0_ONLY <=> ManualLane0(f)
        /\ "store" \in LSU_CLASSES <=> f.opcode \in Memory
    BY <1>11 DEF LANE0_ONLY, LSU_CLASSES, ManualLane0, Memory, FusedFP
  <2> QED BY <2>1, <2>2, <2>3, OperandsOf
<1>12. CASE f.opcode \in FusedFP
  <2>1. decode32(f) = MakeInsn(4, "fpu", {F(f.rs1), F(f.rs2), F(f.rs3)}, {F(f.rd)})
    BY <1>12, Decode32At
  <2>2. ManualReads(f) = {F(f.rs1), F(f.rs2), F(f.rs3)} /\ ManualWrites(f) = {F(f.rd)}
    BY <1>12 DEF ManualReads, ManualWrites, IntegerOp, FusedFP
  <2>3. /\ "fpu" \in LANE0_ONLY <=> ManualLane0(f)
        /\ "fpu" \in LSU_CLASSES <=> f.opcode \in Memory
    BY <1>12 DEF LANE0_ONLY, LSU_CLASSES, ManualLane0, Memory, FusedFP
  <2> QED BY <2>1, <2>2, <2>3, OperandsOf
<1>13. CASE f.opcode = 51 /\ f.funct7 = 1
  <2>1. decode32(f) = MakeInsn(4, "mul", {f.rs1, f.rs2}, {f.rd})
    BY <1>13, Decode32At
  <2>2. ManualReads(f) = {f.rs1, f.rs2} /\ ManualWrites(f) = {f.rd}
    BY <1>13 DEF ManualReads, ManualWrites, IntegerOp, FusedFP
  <2>3. /\ "mul" \in LANE0_ONLY <=> ManualLane0(f)
        /\ "mul" \in LSU_CLASSES <=> f.opcode \in Memory
    BY <1>13 DEF LANE0_ONLY, LSU_CLASSES, ManualLane0, Memory, FusedFP
  <2> QED BY <2>1, <2>2, <2>3, OperandsOf
<1>14. CASE f.opcode = 51 /\ f.funct7 # 1
  <2>1. decode32(f) = MakeInsn(4, "alu", {f.rs1, f.rs2}, {f.rd})
    BY <1>14, Decode32At
  <2>2. ManualReads(f) = {f.rs1, f.rs2} /\ ManualWrites(f) = {f.rd}
    BY <1>14 DEF ManualReads, ManualWrites, IntegerOp, FusedFP
  <2>3. /\ "alu" \in LANE0_ONLY <=> ManualLane0(f)
        /\ "alu" \in LSU_CLASSES <=> f.opcode \in Memory
    BY <1>14 DEF LANE0_ONLY, LSU_CLASSES, ManualLane0, Memory, FusedFP
  <2> QED BY <2>1, <2>2, <2>3, OperandsOf
<1>15. CASE f.opcode \in {15, 115}
  <2>1. decode32(f) = MakeInsn(4, "system", {f.rs1}, {f.rd})
    BY <1>15, Decode32At
  <2>2. ManualReads(f) \subseteq {f.rs1} /\ ManualWrites(f) \subseteq {f.rd}
    BY <1>15 DEF ManualReads, ManualWrites, IntegerOp, FusedFP
  <2>3. /\ "system" \in LANE0_ONLY /\ ManualLane0(f)
        /\ "system" \notin LSU_CLASSES /\ f.opcode \notin Memory
    BY <1>15 DEF LANE0_ONLY, LSU_CLASSES, ManualLane0, Memory
  <2> QED BY <2>1, <2>2, <2>3, OperandsOf
<1>16. CASE f.opcode = 83
  <2> DEFINE f5 == f.funct7 \div 4
  <2>1. f5 \in 0..5 \cup {20} \cup FpUnary
    BY <1>16 DEF Defined, IntegerOp, FusedFP
  <2>2. decode32(f) = decode_op_fp(f)
    BY <1>16, Decode32At
  <2>3. ASSUME NEW cls \in {"fpu", "fpdiv"}
        PROVE  /\ cls \in LANE0_ONLY <=> ManualLane0(f)
               /\ cls \in LSU_CLASSES <=> f.opcode \in Memory
    BY <1>16 DEF LANE0_ONLY, LSU_CLASSES, ManualLane0, Memory
  <2>4. CASE f5 \in 0..5
    <3>1. PICK cls \in {"fpu", "fpdiv"} : decode32(f) = MakeInsn(4, cls, {F(f.rs1), F(f.rs2)}, {F(f.rd)})
      BY <2>2, <2>4, DecodeOpFpAt
    <3>2. ManualReads(f) = {F(f.rs1), F(f.rs2)} /\ ManualWrites(f) = {F(f.rd)}
      BY <1>16, <2>4 DEF ManualReads, ManualWrites, IntegerOp, FusedFP, FpFromInt, FpToInt, FpUnary
    <3> QED BY <2>3, <3>1, <3>2, OperandsOf
  <2>5. CASE f5 \in {8, 11}
    <3>1. PICK cls \in {"fpu", "fpdiv"} : decode32(f) = MakeInsn(4, cls, {F(f.rs1)}, {F(f.rd)})
      BY <2>2, <2>5, DecodeOpFpAt
    <3>2. ManualReads(f) = {F(f.rs1)} /\ ManualWrites(f) = {F(f.rd)}
      BY <1>16, <2>5 DEF ManualReads, ManualWrites, IntegerOp, FusedFP, FpFromInt, FpToInt, FpUnary
    <3> QED BY <2>3, <3>1, <3>2, OperandsOf
  <2>6. CASE f5 = 20
    <3>1. PICK cls \in {"fpu", "fpdiv"} : decode32(f) = MakeInsn(4, cls, {F(f.rs1), F(f.rs2)}, {f.rd})
      BY <2>2, <2>6, DecodeOpFpAt
    <3>2. ManualReads(f) = {F(f.rs1), F(f.rs2)} /\ ManualWrites(f) = {f.rd}
      BY <1>16, <2>6 DEF ManualReads, ManualWrites, IntegerOp, FusedFP, FpFromInt, FpToInt, FpUnary
    <3> QED BY <2>3, <3>1, <3>2, OperandsOf
  <2>7. CASE f5 \in {24, 28}
    <3>1. PICK cls \in {"fpu", "fpdiv"} : decode32(f) = MakeInsn(4, cls, {F(f.rs1)}, {f.rd})
      BY <2>2, <2>7, DecodeOpFpAt
    <3>2. ManualReads(f) = {F(f.rs1)} /\ ManualWrites(f) = {f.rd}
      BY <1>16, <2>7 DEF ManualReads, ManualWrites, IntegerOp, FusedFP, FpFromInt, FpToInt, FpUnary
    <3> QED BY <2>3, <3>1, <3>2, OperandsOf
  <2>8. CASE f5 \in {26, 30}
    <3>1. PICK cls \in {"fpu", "fpdiv"} : decode32(f) = MakeInsn(4, cls, {f.rs1}, {F(f.rd)})
      BY <2>2, <2>8, DecodeOpFpAt
    <3>2. ManualReads(f) = {f.rs1} /\ ManualWrites(f) = {F(f.rd)}
      BY <1>16, <2>8 DEF ManualReads, ManualWrites, IntegerOp, FusedFP, FpFromInt, FpToInt, FpUnary
    <3> QED BY <2>3, <3>1, <3>2, OperandsOf
  <2> QED BY <2>1, <2>4, <2>5, <2>6, <2>7, <2>8 DEF FpUnary
<1> QED BY <1>1, <1>2, <1>3, <1>4, <1>5, <1>6, <1>7, <1>8, <1>9, <1>10, <1>11, <1>12, <1>13, <1>14, <1>15, <1>16 DEF Defined, IntegerOp

-----------------------------------------------------------------------------
(***************************************************************************)
(* Behaviours.                                                             *)
(***************************************************************************)
LEMMA DecodeStarts == Init => DecodeInv
  BY DEF Init, DecodeInv

LEMMA DecodeStep == DecodeInv /\ [Next]_vars => DecodeInv'
<1> SUFFICES ASSUME DecodeInv, [Next]_vars PROVE DecodeInv'
  OBVIOUS
<1>1. words \in Seq(Word) /\ Len(words) \in Nat /\ Len(decoded) \in Nat
  BY TextsAssumption DEF DecodeInv
<1>2. CASE DecodeNext
  <2> DEFINE n == Len(decoded) + 1
  <2>1. n \in 1..Len(words) /\ words' = words /\ decoded' = Append(decoded, Entry(words[n]))
    BY <1>1, <1>2 DEF DecodeNext
  <2>2. words[n] \in Word
    BY <1>1, <2>1
  <2>3. Entry(words[n]) \in Insn
    BY <2>2, EntryIsInsn
  <2>4. /\ decoded' \in Seq(Insn) /\ Len(decoded') = n /\ decoded'[n] = Entry(words[n])
        /\ \A k \in 1..Len(decoded) : decoded'[k] = decoded[k]
    BY <2>1, <2>3 DEF DecodeInv
  <2> QED BY <1>1, <2>1, <2>4 DEF DecodeInv
<1>3. CASE UNCHANGED vars
  BY <1>3 DEF vars, DecodeInv
<1> QED BY <1>2, <1>3 DEF Next, Decoded

(***************************************************************************)
(* However far the decoder has come in a text, what it has decoded is what *)
(* the words decode to one by one.                                         *)
(***************************************************************************)
THEOREM DecodeInvariance == Spec => []DecodeInv
<1>1. DecodeInv /\ [Next]_vars => DecodeInv'
  BY DecodeStep
<1> QED BY <1>1, DecodeStarts, PTL DEF Spec

LEMMA DecodedWord ==
    ASSUME DecodeInv, NEW k \in 1..Len(decoded)
    PROVE  words[k] \in Word /\ decoded[k] = Entry(words[k])
<1>1. words \in Seq(Word) /\ k \in 1..Len(words)
  BY TextsAssumption DEF DecodeInv
<1> QED BY <1>1 DEF DecodeInv

(***************************************************************************)
(* _decode16, _decode32 and hint_length, for every word of every text:     *)
(* entries are instructions as the other tools' model supposes, and the    *)
(* hints are exactly the words c.li x0, n assembles to.                    *)
(***************************************************************************)
THEOREM DecodesInsns == Spec => []DecodedIsInsn
<1>1. DecodeInv => DecodedIsInsn
  <2> SUFFICES ASSUME DecodeInv, NEW k \in 1..Len(decoded)
               PROVE  /\ decoded[k] \in Insn
                      /\ decoded[k].size = 2 =>
                           /\ decoded[k].hint # 0 => words[k].lo = CLi(0, decoded[k].hint)
                           /\ \A n \in 1..MAX_HINT : words[k].lo = CLi(0, n) => decoded[k].hint = n
    BY DEF DecodedIsInsn
  <2>1. words[k] \in Word /\ decoded[k] = Entry(words[k])
    BY DecodedWord
  <2>2. words[k].lo \in Half
    BY <2>1 DEF Word
  <2> QED BY <2>1, <2>2, EntryIsInsn, HintIsCLi
<1> QED BY <1>1, DecodeInvariance, PTL

(***************************************************************************)
(* _decode16 against _decode32, for every 16-bit word: a compressed        *)
(* instruction is judged as the 32-bit one it stands for.                  *)
(***************************************************************************)
THEOREM CompressionIsTransparent == Spec => []CompressedAsExpanded
<1>1. DecodeInv => CompressedAsExpanded
  <2> SUFFICES ASSUME DecodeInv, NEW k \in 1..Len(decoded),
                      is_compressed(words[k]), ~ReservedRVC(words[k].lo)
               PROVE  AsExpanded(decoded[k], words[k].lo)
    BY DEF CompressedAsExpanded, AsExpanded
  <2>1. words[k] \in Word /\ decoded[k] = Entry(words[k])
    BY DecodedWord
  <2>2. AsExpanded(decode(words[k]), words[k].lo)
    BY <2>1, ShortDecodes
  <2>3. /\ decoded[k].cls = decode(words[k]).cls
        /\ decoded[k].reads = decode(words[k]).reads /\ decoded[k].writes = decode(words[k]).writes
    BY <2>1, EntryIsInsn
  <2> QED BY <2>2, <2>3 DEF AsExpanded
<1> QED BY <1>1, DecodeInvariance, PTL

(***************************************************************************)
(* _decode32 and _decode_op_fp against the manual, for every 32-bit word   *)
(* of RV32IMAFC: no operand is missed, and what a worker lane may execute  *)
(* is decoded exactly.                                                     *)
(***************************************************************************)
THEOREM OperandsAreExact == Spec => []OperandsExact
<1>1. DecodeInv => OperandsExact
  <2> SUFFICES ASSUME DecodeInv, NEW k \in 1..Len(decoded),
                      ~is_compressed(words[k]), Defined(Fields(words[k]))
               PROVE  OperandsRight(decoded[k], Fields(words[k]))
    BY DEF OperandsExact, OperandsRight
  <2>1. words[k] \in Word /\ decoded[k] = Entry(words[k])
    BY DecodedWord
  <2>2. Fields(words[k]).funct7 \in Nat
    BY <2>1, FieldsOfWord
  <2>3. OperandsRight(decode(words[k]), Fields(words[k]))
    BY <2>1, <2>2, LongDecodes, LongOperands
  <2>4. /\ decoded[k].cls = decode(words[k]).cls
        /\ decoded[k].reads = decode(words[k]).reads /\ decoded[k].writes = decode(words[k]).writes
    BY <2>1, EntryIsInsn
  <2> QED BY <2>3, <2>4 DEF OperandsRight, is_lane0_only, uses_lsu
<1> QED BY <1>1, DecodeInvariance, PTL
=============================================================================
