------------------------------ MODULE Toolchain ------------------------------
(***************************************************************************)
(* From machine function to verdict: the packetizer inserts hints, the asm *)
(* printer (StarbugVLIWAsmPrinterSnippet.cpp) writes the function out with *)
(* each hint as c.li x0, len, and tools/starbug_bundle_check.py reads the  *)
(* binary back, knowing nothing of the compiler's packets.  The checker's  *)
(* listing grows as the printer writes it, so Listings plays no part here. *)
(***************************************************************************)
EXTENDS Packetizer, BundleChecker

CONSTANT Encode(_)    \* the instructions a machine instruction becomes

VARIABLES
    eb, ei,     \* block and instruction the printer is at
    placed      \* the hints printed, each with its index in the binary

printVars   == <<eb, ei, placed>>
checkVars   == <<idx, bundles, covered, exit>>
toolVars    == <<vars, printVars, checkerVars>>

(***************************************************************************)
(* What the encodings owe the packetizer: an instruction it may put into a *)
(* packet becomes one instruction, reads and writes no more than its       *)
(* operands say, and is none of the lane-0-only kinds when its name looks  *)
(* like an ALU operation.  Only the printer's own hints are hints.         *)
(***************************************************************************)
WorkerClasses == ALUClasses \cup {"Move", "Compare"}

EncodesFaithfully(mi) ==
    /\ Encode(mi) \in Seq(Insn)
    /\ \A k \in 1..Len(Encode(mi)) : DeclaredLen(Encode(mi)[k]) = 0
    /\ isPacketizableMI(mi) =>
         /\ Len(Encode(mi)) = 1
         /\ LET e == Encode(mi)[1] IN
              /\ e.reads \subseteq mi.uses /\ e.writes \subseteq mi.defs
              /\ e.cls \notin Control
              /\ is_lane0_only(e) => classifyOpClass(mi) \notin WorkerClasses

ASSUME EncodeAssumption ==
    \A fn \in Functions : \A b \in 1..Len(fn) : \A i \in 1..Len(fn[b]) :
        EncodesFaithfully(fn[b][i])
-----------------------------------------------------------------------------
ToolInit ==
    /\ Init
    /\ eb = 1 /\ ei = 1 /\ placed = {}
    /\ insns = <<>> /\ idx = 1 /\ bundles = <<>> /\ covered = {} /\ exit = -1

Pack == ~Done /\ Next /\ UNCHANGED <<printVars, checkerVars>>

\* The address behind the last instruction printed.
EndAddr == IF insns = <<>> THEN 0 ELSE insns[Len(insns)].addr + insns[Len(insns)].size

HintInsn(n) == [addr |-> EndAddr, size |-> 2, cls |-> "alu",
                reads |-> {}, writes |-> {}, hint |-> n]

Printing == Done /\ eb =< Len(mf)
Pending  == {h \in hints : h.bb = eb /\ h.at = ei /\ \A p \in placed : p.hint # h}

\* emitInstruction for a STARBUG_BUNDLE_HINT.
PrintHint ==
    /\ Printing
    /\ \E h \in Pending :
         /\ insns' = Append(insns, HintInsn(h.len))
         /\ placed' = placed \cup {[hint |-> h, index |-> Len(insns) + 1]}
    /\ UNCHANGED <<vars, eb, ei, checkVars>>

\* emitInstruction for any other instruction, laid out behind the last one.
Placed(e, k) == [e[k] EXCEPT !.addr = EndAddr + 4 * (k - 1)]

\* A mutant, a plausible bug of the definition that follows: the hint may be left for later.
PrintInstr_First ==
    /\ Printing
    /\ ei =< Len(mf[eb])
    /\ LET e == Encode(mf[eb][ei]) IN
         insns' = insns \o [k \in 1..Len(e) |-> Placed(e, k)]
    /\ ei' = ei + 1
    /\ UNCHANGED <<vars, eb, placed, checkVars>>

PrintInstr ==
    /\ Printing
    /\ Pending = {}
    /\ ei =< Len(mf[eb])
    /\ LET e == Encode(mf[eb][ei]) IN
         insns' = insns \o [k \in 1..Len(e) |-> Placed(e, k)]
    /\ ei' = ei + 1
    /\ UNCHANGED <<vars, eb, placed, checkVars>>

NextBlock ==
    /\ Printing
    /\ ei = Len(mf[eb]) + 1
    /\ eb' = eb + 1 /\ ei' = 1
    /\ UNCHANGED <<vars, placed, insns, checkVars>>

Printed == Done /\ eb > Len(mf)

Check == Printed /\ CheckerNext /\ UNCHANGED <<vars, printVars>>

ToolNext == Pack \/ PrintHint \/ PrintInstr \/ NextBlock \/ Check

ToolSpec == ToolInit /\ [][ToolNext]_toolVars
-----------------------------------------------------------------------------
\* A machine that exists: at most four lanes, workers that only do what the lanes can.
HardwareConfig ==
    /\ config.numLanes =< MAX_BUNDLE
    /\ UniformWorkers(config)
    /\ \A l \in 2..config.numLanes : config.lanes[l] \subseteq WorkerClasses

(***************************************************************************)
(* What is compiled for a real machine keeps the contract: in the printed  *)
(* binary, at every point where the fetch unit may look, the instructions  *)
(* behind a hint are a safe bundle (the premise of ContractSuffices).      *)
(***************************************************************************)
CompiledIsSafe == Printed /\ HardwareConfig => ContractSafe(insns)

(***************************************************************************)
(* The checker accepts what is compiled for a real machine.  It decides    *)
(* from encodings, the packetizer from operands and opcode names.          *)
(***************************************************************************)
CompiledIsAccepted == exit # -1 /\ HardwareConfig => exit = 0

\* The widths of the configuration fit the hint's immediate.
WidthsFit == config.numLanes =< MAX_HINT

(***************************************************************************)
(* The checker re-derives exactly the bundles the packetizer planned: none *)
(* is lost, swallowed by another, cut short, or made up, for any machine   *)
(* whose widths fit the hint.                                              *)
(***************************************************************************)
CheckerSeesPlan ==
    exit # -1 /\ WidthsFit =>
        /\ {<<bundles[i].hint, bundles[i].declared_len, Cardinality(bundles[i].members)>> :
               i \in 1..Len(bundles)}
           = {<<p.index, p.hint.len, p.hint.len>> : p \in placed}
        /\ {p.hint : p \in placed} = hints

-----------------------------------------------------------------------------
\* What EncodeAssumption says of the function at hand.
Encodable ==
    /\ mf \in Seq(Seq(MachineInstr))
    /\ \A b \in 1..Len(mf) : \A i \in 1..Len(mf[b]) : EncodesFaithfully(mf[b][i])

\* Instruction i of block b has been printed.
Past(b, i) == b < eb \/ (b = eb /\ i < ei)

\* The printer is at an instruction of the function or behind its last block.
AtPlace ==
    /\ eb \in 1..(Len(mf) + 1) /\ ei \in Nat \ {0}
    /\ IF eb > Len(mf) THEN ei = 1 ELSE ei =< Len(mf[eb]) + 1

\* Instruction e of the binary is the encoding of machine instruction mi, at some address.
Encodes(e, mi) ==
    LET f == Encode(mi)[1] IN
    e.size = f.size /\ e.cls = f.cls /\ e.reads = f.reads /\ e.writes = f.writes /\ e.hint = f.hint

\* What is known of a printed hint: its members follow it in the binary, as far as they are printed.
HintPrinted(p) ==
    LET h == p.hint IN
    /\ h \in hints
    /\ p.index \in 1..Len(insns) /\ DeclaredLen(insns[p.index]) = h.len
    /\ Past(h.bb, h.at) \/ (h.bb = eb /\ h.at = ei)
    /\ \A k \in 1..h.len : Past(h.bb, h.at + k - 1) =>
         /\ p.index + k =< Len(insns)
         /\ Encodes(insns[p.index + k], mf[h.bb][h.at + k - 1])
    /\ h.bb = eb /\ ei < h.at + h.len => Len(insns) = p.index + (ei - h.at)

\* The binary so far: hints are printed in their places, and only they look like hints.
LaidOut ==
    /\ insns \in Seq(Insn)
    /\ \A p \in placed : HintPrinted(p)
    /\ \A i \in 1..Len(insns) : DeclaredLen(insns[i]) # 0 => \E p \in placed : p.index = i
    /\ \A h \in hints : Past(h.bb, h.at) => \E p \in placed : p.hint = h

(***************************************************************************)
(* The inductive invariant of the tool chain: the packetizer's own, the    *)
(* printer's layout of what the packetizer planned, and the checker's once *)
(* it walks the binary.                                                    *)
(***************************************************************************)
ToolInv ==
    /\ PacketInv /\ Encodable
    /\ ~Done => eb = 1 /\ ei = 1 /\ placed = {} /\ insns = <<>>
    /\ ~Printed => idx = 1 /\ bundles = <<>> /\ covered = {} /\ exit = -1
    /\ AtPlace
    /\ WidthsFit => LaidOut /\ (Printed => CheckInv)
=============================================================================
