---------------------------- MODULE StarbugDecode ----------------------------
(***************************************************************************)
(* tools/starbug_isa.py, the decoder: from the words of a binary to the    *)
(* records of StarbugISA that every other tool works on.                   *)
(*                                                                         *)
(* A word is a pair of halfwords, as it lies in memory; hi is read only    *)
(* for 32-bit instructions.  Registers are numbered as in the source: x0   *)
(* to x31 are 0..31, f0 to f31 are FREG_BASE + 0..31, and x0 is dropped    *)
(* (the constant Reg of StarbugISA is 1..63 here).                         *)
(***************************************************************************)
EXTENDS StarbugISA

CONSTANT Texts    \* the word sequences to be decoded

Half == 0..(2^16 - 1)
Word == [lo : Half, hi : Half]

FREG_BASE == 32

ASSUME RegAssumption   == Reg = 1..(FREG_BASE + 31)
ASSUME TextsAssumption == Texts \subseteq Seq(Word)

VARIABLES
    words,     \* the text
    decoded    \* the instructions decoded so far

vars == <<words, decoded>>
-----------------------------------------------------------------------------
\* n bits of halfword h, from bit k on.
Bits(h, k, n) == (h \div 2^k) % 2^n

F(n) == FREG_BASE + n

is_compressed(w) == Bits(w.lo, 0, 2) # 3

MakeInsn(size, cls, reads, writes) ==
    [size |-> size, cls |-> cls, reads |-> reads \ {0}, writes |-> writes \ {0}]

\* Mutants, here and below: plausible bugs of the definition that follows.
\* The destination register is not looked at.
hint_length_AnyRd(h) ==
    IF Bits(h, 0, 2) = 1 /\ Bits(h, 13, 3) = 2
    THEN 32 * Bits(h, 12, 1) + Bits(h, 2, 5)
    ELSE 0

\* 0 stands for None.
hint_length(h) ==
    IF Bits(h, 0, 2) = 1 /\ Bits(h, 13, 3) = 2 /\ Bits(h, 7, 5) = 0
    THEN 32 * Bits(h, 12, 1) + Bits(h, 2, 5)
    ELSE 0

-----------------------------------------------------------------------------
(***************************************************************************)
(* 32-bit instructions.                                                    *)
(***************************************************************************)
Fields(w) == [opcode |-> Bits(w.lo, 0, 7),
              rd     |-> Bits(w.lo, 7, 5),
              rs1    |-> Bits(w.lo, 15, 1) + 2 * Bits(w.hi, 0, 4),
              rs2    |-> Bits(w.hi, 4, 5),
              rs3    |-> Bits(w.hi, 11, 5),
              funct3 |-> Bits(w.lo, 12, 3),
              funct7 |-> Bits(w.hi, 9, 7)]

\* _OPFP_SHAPE by funct7[6:2]: which register files the operands come from.
OPFP_FF  == 0..5
OPFP_FF1 == {8, 11}
OPFP_XFF == {20}
OPFP_XF  == {24, 28}
OPFP_FX  == {26, 30}
OPFP_LONG_LATENCY == {3, 11}

\* Comparisons are taken for operations with a floating-point result.
decode_op_fp_FloatCompare(f) ==
    LET f5  == f.funct7 \div 4
        cls == IF f5 \in OPFP_LONG_LATENCY THEN "fpdiv" ELSE "fpu"
    IN  CASE f5 \in OPFP_FF \cup OPFP_XFF -> MakeInsn(4, cls, {F(f.rs1), F(f.rs2)}, {F(f.rd)})
          [] f5 \in OPFP_FF1 -> MakeInsn(4, cls, {F(f.rs1)}, {F(f.rd)})
          [] f5 \in OPFP_XF  -> MakeInsn(4, cls, {F(f.rs1)}, {f.rd})
          [] f5 \in OPFP_FX  -> MakeInsn(4, cls, {f.rs1}, {F(f.rd)})
          [] OTHER -> MakeInsn(4, "unknown", {F(f.rs1), F(f.rs2)}, {F(f.rd)})

decode_op_fp(f) ==
    LET f5  == f.funct7 \div 4
        cls == IF f5 \in OPFP_LONG_LATENCY THEN "fpdiv" ELSE "fpu"
    IN  CASE f5 \in OPFP_FF  -> MakeInsn(4, cls, {F(f.rs1), F(f.rs2)}, {F(f.rd)})
          [] f5 \in OPFP_FF1 -> MakeInsn(4, cls, {F(f.rs1)}, {F(f.rd)})
          [] f5 \in OPFP_XFF -> MakeInsn(4, cls, {F(f.rs1), F(f.rs2)}, {f.rd})
          [] f5 \in OPFP_XF  -> MakeInsn(4, cls, {F(f.rs1)}, {f.rd})
          [] f5 \in OPFP_FX  -> MakeInsn(4, cls, {f.rs1}, {F(f.rd)})
          [] OTHER -> MakeInsn(4, "unknown", {F(f.rs1), F(f.rs2)}, {F(f.rd)})

decode32(f) ==
    CASE f.opcode = 55  -> MakeInsn(4, "alu", {}, {f.rd})                    \* LUI
      [] f.opcode = 23  -> MakeInsn(4, "pcrel", {}, {f.rd})                  \* AUIPC
      [] f.opcode = 111 -> MakeInsn(4, "jump", {}, {f.rd})                   \* JAL
      [] f.opcode = 103 -> MakeInsn(4, "jump", {f.rs1}, {f.rd})              \* JALR
      [] f.opcode = 99  -> MakeInsn(4, "branch", {f.rs1, f.rs2}, {})
      [] f.opcode = 3   -> MakeInsn(4, "load", {f.rs1}, {f.rd})
      [] f.opcode = 35  -> MakeInsn(4, "store", {f.rs1, f.rs2}, {})
      [] f.opcode = 19  -> MakeInsn(4, "alu", {f.rs1}, {f.rd})               \* OP-IMM
      [] f.opcode = 51  -> MakeInsn(4, IF f.funct7 = 1 THEN "mul" ELSE "alu",
                                 {f.rs1, f.rs2}, {f.rd})                  \* OP
      [] f.opcode \in {15, 115} -> MakeInsn(4, "system", {f.rs1}, {f.rd})    \* MISC-MEM, SYSTEM
      [] f.opcode = 47  -> MakeInsn(4, "atomic", {f.rs1, f.rs2}, {f.rd})
      [] f.opcode = 7   -> MakeInsn(4, "load", {f.rs1}, {F(f.rd)})           \* LOAD-FP
      [] f.opcode = 39  -> MakeInsn(4, "store", {f.rs1, F(f.rs2)}, {})       \* STORE-FP
      [] f.opcode \in {67, 71, 75, 79} ->
            MakeInsn(4, "fpu", {F(f.rs1), F(f.rs2), F(f.rs3)}, {F(f.rd)})    \* FMADD...
      [] f.opcode = 83  -> decode_op_fp(f)
      [] OTHER          -> MakeInsn(4, "unknown", {f.rs1, f.rs2}, {f.rd})

-----------------------------------------------------------------------------
(***************************************************************************)
(* 16-bit instructions, by quadrant.                                       *)
(***************************************************************************)
\* The three-bit field is taken for a full register number.
rvc_reg_NoBase(x) == x % 8

\* A three-bit register field maps to x8..x15.
rvc_reg(x) == (x % 8) + 8

Quadrant0(h) ==
    LET funct3 == Bits(h, 13, 3)
        rdp    == rvc_reg(Bits(h, 2, 3))
        rs1p   == rvc_reg(Bits(h, 7, 3))
    IN  CASE funct3 = 0 /\ h # 0   -> MakeInsn(2, "alu", {2}, {rdp})         \* C.ADDI4SPN
          [] funct3 = 2            -> MakeInsn(2, "load", {rs1p}, {rdp})
          [] funct3 = 6            -> MakeInsn(2, "store", {rs1p, rdp}, {})
          [] funct3 \in {1, 3}     -> MakeInsn(2, "load", {rs1p}, {F(rdp)})
          [] funct3 \in {5, 7}     -> MakeInsn(2, "store", {rs1p, F(rdp)}, {})
          [] OTHER                 -> MakeInsn(2, "unknown", {}, {})

Quadrant1(h) ==
    LET funct3 == Bits(h, 13, 3)
        rd     == Bits(h, 7, 5)
        rs1p   == rvc_reg(Bits(h, 7, 3))
        rs2p   == rvc_reg(Bits(h, 2, 3))
    IN  CASE funct3 = 0            -> MakeInsn(2, "alu", {rd}, {rd})         \* C.ADDI, C.NOP
          [] funct3 = 1            -> MakeInsn(2, "jump", {}, {1})           \* C.JAL
          [] funct3 = 2            -> MakeInsn(2, "alu", {}, {rd})           \* C.LI
          [] funct3 = 3 /\ rd = 2  -> MakeInsn(2, "alu", {2}, {2})        \* C.ADDI16SP
          [] funct3 = 3 /\ rd # 2  -> MakeInsn(2, "alu", {}, {rd})        \* C.LUI
          [] funct3 = 4            -> MakeInsn(2, "alu",
                                            {rs1p} \cup (IF Bits(h, 10, 2) = 3 THEN {rs2p} ELSE {}),
                                            {rs1p})
          [] funct3 = 5            -> MakeInsn(2, "jump", {}, {})            \* C.J
          [] OTHER                 -> MakeInsn(2, "branch", {rs1p}, {})      \* C.BEQZ, C.BNEZ

Quadrant2(h) ==
    LET funct3 == Bits(h, 13, 3)
        bit12  == Bits(h, 12, 1)
        rd     == Bits(h, 7, 5)
        rs2    == Bits(h, 2, 5)
    IN  CASE funct3 = 0            -> MakeInsn(2, "alu", {rd}, {rd})         \* C.SLLI
          [] funct3 = 2            -> MakeInsn(2, "load", {2}, {rd})         \* C.LWSP
          [] funct3 \in {1, 3}     -> MakeInsn(2, "load", {2}, {F(rd)})
          [] funct3 = 6            -> MakeInsn(2, "store", {2, rs2}, {})     \* C.SWSP
          [] funct3 \in {5, 7}     -> MakeInsn(2, "store", {2, F(rs2)}, {})
          [] funct3 = 4 /\ bit12 = 0 /\ rs2 = 0 -> MakeInsn(2, "jump", {rd}, {})     \* C.JR
          [] funct3 = 4 /\ bit12 = 0 /\ rs2 # 0 -> MakeInsn(2, "alu", {rs2}, {rd})   \* C.MV
          [] funct3 = 4 /\ bit12 = 1 /\ rs2 = 0 ->                                   \* C.EBREAK, C.JALR
                IF rd = 0 THEN MakeInsn(2, "system", {}, {}) ELSE MakeInsn(2, "jump", {rd}, {1})
          [] OTHER                 -> MakeInsn(2, "alu", {rd, rs2}, {rd})    \* C.ADD

decode16(h) ==
    CASE Bits(h, 0, 2) = 0 -> Quadrant0(h)
      [] Bits(h, 0, 2) = 1 -> Quadrant1(h)
      [] Bits(h, 0, 2) = 2 -> Quadrant2(h)

decode(w) == IF is_compressed(w) THEN decode16(w.lo) ELSE decode32(Fields(w))

\* The entry of the listing the tools work on; analyse asks 16-bit words for a hint.
Entry(w) ==
    LET i == decode(w) IN
    [addr |-> 0, size |-> i.size, cls |-> i.cls, reads |-> i.reads, writes |-> i.writes,
     hint |-> IF i.size = 2 THEN hint_length(w.lo) ELSE 0]

-----------------------------------------------------------------------------
Init == words \in Texts /\ decoded = <<>>

DecodeNext ==
    /\ Len(decoded) < Len(words)
    /\ decoded' = Append(decoded, Entry(words[Len(decoded) + 1]))
    /\ UNCHANGED words

Decoded == Len(decoded) = Len(words) /\ UNCHANGED vars

Next == DecodeNext \/ Decoded

Spec == Init /\ [][Next]_vars
-----------------------------------------------------------------------------
(***************************************************************************)
(* What the encodings mean, from the RISC-V manual: the reference the      *)
(* decoder is compared with.  It is not part of the repository.            *)
(***************************************************************************)
\* The halfword an assembler makes of c.li rd, imm: it keeps six bits of imm.
CLi(rd, imm) == 1 + 4 * (imm % 32) + 2^7 * rd + 2^12 * ((imm \div 32) % 2) + 2^14

Expanded(opcode, rd, rs1, rs2, funct7) ==
    [opcode |-> opcode, rd |-> rd, rs1 |-> rs1, rs2 |-> rs2, rs3 |-> 0, funct3 |-> 0, funct7 |-> funct7]

\* The 32-bit instruction a compressed one stands for; immediates are left out.
Expansion(h) ==
    LET quadrant == Bits(h, 0, 2)
        funct3   == Bits(h, 13, 3)
        r1       == Bits(h, 7, 5)         r2 == Bits(h, 2, 5)
        p1       == 8 + Bits(h, 7, 3)     p2 == 8 + Bits(h, 2, 3)
        loadOp   == IF funct3 = 2 THEN 3 ELSE 7
        storeOp  == IF funct3 = 6 THEN 35 ELSE 39
    IN  CASE quadrant = 0 /\ funct3 = 0       -> Expanded(19, p2, 2, 0, 0)
          [] quadrant = 0 /\ funct3 \in 1..3  -> Expanded(loadOp, p2, p1, 0, 0)
          [] quadrant = 0 /\ funct3 \in 5..7  -> Expanded(storeOp, 0, p1, p2, 0)
          [] quadrant = 1 /\ funct3 = 0       -> Expanded(19, r1, r1, 0, 0)
          [] quadrant = 1 /\ funct3 \in {1,5} -> Expanded(111, IF funct3 = 1 THEN 1 ELSE 0, 0, 0, 0)
          [] quadrant = 1 /\ funct3 = 2       -> Expanded(19, r1, 0, 0, 0)
          [] quadrant = 1 /\ funct3 = 3       -> IF r1 = 2 THEN Expanded(19, 2, 2, 0, 0)
                                                           ELSE Expanded(55, r1, 0, 0, 0)
          [] quadrant = 1 /\ funct3 = 4       -> IF Bits(h, 10, 2) = 3 THEN Expanded(51, p1, p1, p2, 0)
                                                                      ELSE Expanded(19, p1, p1, 0, 0)
          [] quadrant = 1 /\ funct3 \in {6,7} -> Expanded(99, 0, p1, 0, 0)
          [] quadrant = 2 /\ funct3 = 0       -> Expanded(19, r1, r1, 0, 0)
          [] quadrant = 2 /\ funct3 \in 1..3  -> Expanded(loadOp, r1, 2, 0, 0)
          [] quadrant = 2 /\ funct3 \in 5..7  -> Expanded(storeOp, 0, 2, r2, 0)
          [] quadrant = 2 /\ funct3 = 4 /\ r2 # 0 ->
                Expanded(51, r1, IF Bits(h, 12, 1) = 1 THEN r1 ELSE 0, r2, 0)
          [] quadrant = 2 /\ funct3 = 4 /\ r2 = 0 /\ r1 # 0 -> Expanded(103, Bits(h, 12, 1), r1, 0, 0)
          [] OTHER                            -> Expanded(115, 0, 0, 0, 0)

\* Encodings RV32FC reserves, which stand for nothing.
ReservedRVC(h) ==
    \/ h = 0
    \/ Bits(h, 0, 2) = 0 /\ Bits(h, 13, 3) = 4
    \/ Bits(h, 0, 2) = 1 /\ Bits(h, 13, 3) = 4 /\ Bits(h, 10, 3) = 7
    \/ Bits(h, 0, 2) = 2 /\ Bits(h, 7, 5) = 0 /\ Bits(h, 2, 5) = 0 /\ Bits(h, 12, 4) = 8

\* 32-bit instructions of RV32IMAFC by the way they use their register fields.
Memory    == {3, 7, 35, 39, 47}
FusedFP   == {67, 71, 75, 79}
IntegerOp == {3, 7, 19, 35, 39, 47, 51, 99, 103}    \* rs1 is an integer register
FpFromInt == {26, 30}
FpToInt   == {20, 24, 28}
FpUnary   == {8, 11, 24, 26, 28, 30}

Defined(f) == \/ f.opcode \in IntegerOp \cup FusedFP \cup {15, 23, 55, 111, 115}
              \/ f.opcode = 83 /\ f.funct7 \div 4 \in 0..5 \cup {20} \cup FpUnary

ManualReads(f) ==
    LET f5 == f.funct7 \div 4 IN
    (IF f.opcode \in IntegerOp \/ (f.opcode = 83 /\ f5 \in FpFromInt)
        \/ (f.opcode = 115 /\ f.funct3 \in 1..3) THEN {f.rs1} ELSE {})
    \cup (IF f.opcode \in {35, 47, 51, 99} THEN {f.rs2} ELSE {})
    \cup (IF f.opcode \in FusedFP \/ (f.opcode = 83 /\ f5 \notin FpFromInt) THEN {F(f.rs1)} ELSE {})
    \cup (IF f.opcode \in FusedFP \cup {39} \/ (f.opcode = 83 /\ f5 \notin FpUnary)
          THEN {F(f.rs2)} ELSE {})
    \cup (IF f.opcode \in FusedFP THEN {F(f.rs3)} ELSE {})

ManualWrites(f) ==
    IF f.opcode \in {35, 39, 99, 15} THEN {}
    ELSE IF f.opcode \in FusedFP \cup {7} \/ (f.opcode = 83 /\ f.funct7 \div 4 \notin FpToInt)
    THEN {F(f.rd)} ELSE {f.rd}

\* The contract's list of what only lane 0 can execute.
ManualLane0(f) == f.opcode \in Memory \cup {99, 103, 111} \cup {15, 115} \cup {23}
-----------------------------------------------------------------------------
(***************************************************************************)
(* Every word decodes to an entry the other tools' model supposes          *)
(* (StarbugISA's Insn: no x0, a hint is an ALU operation that touches no   *)
(* register), and a hint length n is read from exactly the word that c.li  *)
(* x0, n assembles to.                                                     *)
(***************************************************************************)
DecodedIsInsn ==
    \A k \in 1..Len(decoded) :
        /\ decoded[k] \in Insn
        /\ decoded[k].size = 2 =>
             /\ decoded[k].hint # 0 => words[k].lo = CLi(0, decoded[k].hint)
             /\ \A n \in 1..MAX_HINT : words[k].lo = CLi(0, n) => decoded[k].hint = n

(***************************************************************************)
(* The two halves of the decoder agree: a compressed instruction has the   *)
(* class and the registers of the 32-bit instruction it stands for.  The   *)
(* checker would otherwise judge a bundle by how the assembler chose to    *)
(* encode its members.                                                     *)
(***************************************************************************)
CompressedAsExpanded ==
    \A k \in 1..Len(decoded) :
        LET h == words[k].lo
            e == decode32(Expansion(h)) IN
        is_compressed(words[k]) /\ ~ReservedRVC(h) =>
            /\ decoded[k].cls = e.cls
            /\ decoded[k].reads = e.reads /\ decoded[k].writes = e.writes

(***************************************************************************)
(* No operand is missed and none is looked for in the wrong register file; *)
(* what may stand in a worker lane is decoded exactly, and "lane 0 only"   *)
(* and "uses the LSU" are what the contract says.  (Immediates of CSR      *)
(* instructions are taken for registers: harmless in lane 0.)              *)
(***************************************************************************)
OperandsExact ==
    \A k \in 1..Len(decoded) :
        LET f == Fields(words[k])
            i == decoded[k] IN
        ~is_compressed(words[k]) /\ Defined(f) =>
            /\ ManualReads(f) \ {0} \subseteq i.reads /\ ManualWrites(f) \ {0} \subseteq i.writes
            /\ is_lane0_only(i) <=> ManualLane0(f)
            /\ uses_lsu(i) <=> f.opcode \in Memory
            /\ ~is_lane0_only(i) => i.reads = ManualReads(f) \ {0} /\ i.writes = ManualWrites(f) \ {0}
=============================================================================
