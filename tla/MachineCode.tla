---------------------------- MODULE MachineCode ----------------------------
(***************************************************************************)
(* Machine instructions after register allocation, as the packetizer sees  *)
(* them: whether they may be packetized, their operation class and the     *)
(* physical registers they use and define (collectRegAccesses keeps x0 and *)
(* does not look at sub-registers).  A machine function is a sequence of   *)
(* basic blocks, a block a sequence of instructions.                       *)
(***************************************************************************)
EXTENDS VLIWConfig

CONSTANT Register    \* the physical registers, x0 among them

\* What isPacketizableMI tells apart; only a "plain" instruction is packetizable.
MIKind == {"plain", "debug", "meta", "bundle", "inlineasm", "call",
           "terminator", "pseudo", "sideeffect"}

(***************************************************************************)
(* classifyOpClass looks for substrings in the opcode's name, in this      *)
(* order.  An instruction's name is abstracted to the set of those         *)
(* substrings it contains.                                                 *)
(***************************************************************************)
NameClasses == << [keys |-> {"ADD", "SUB"},                                class |-> "ALUAddSub"],
                  [keys |-> {"MUL", "DIV", "REM"},                         class |-> "ALUMulDiv"],
                  [keys |-> {"SLL", "SRL", "SRA", "ROL", "ROR", "SH"},     class |-> "ALUShift"],
                  [keys |-> {"CSR"},                                       class |-> "CSR"],
                  [keys |-> {"MV", "LI", "COPY"},                          class |-> "Move"],
                  [keys |-> {"SLT", "SEQ", "SNE", "SGE", "SGT"},           class |-> "Compare"] >>

NameKeys == UNION {NameClasses[i].keys : i \in 1..6}

MachineInstr == [kind     : MIKind,
                 mayLoad  : BOOLEAN,
                 mayStore : BOOLEAN,
                 name     : SUBSET NameKeys,
                 uses     : SUBSET Register,
                 defs     : SUBSET Register]

isPacketizableMI(mi) == mi.kind = "plain"

NameMatches(mi, i) == mi.name \cap NameClasses[i].keys # {}

classifyOpClass(mi) ==
    CASE mi.kind \in {"terminator", "call"} -> "Branch"
      [] mi.kind \notin {"terminator", "call"} /\ mi.mayLoad -> "Load"
      [] mi.kind \notin {"terminator", "call"} /\ ~mi.mayLoad /\ mi.mayStore -> "Store"
      [] OTHER ->
           IF \E i \in 1..6 : NameMatches(mi, i)
           THEN NameClasses[CHOOSE i \in 1..6 :
                              NameMatches(mi, i) /\ \A j \in 1..(i-1) : ~NameMatches(mi, j)].class
           ELSE "Any"

-----------------------------------------------------------------------------
(***************************************************************************)
(* A hint [bb, at, len] stands in front of instruction "at" of block bb.   *)
(* The fetch unit makes a bundle of the "len" instructions that follow it  *)
(* in memory, member number k on lane k - 1: its window.                   *)
(***************************************************************************)
HintType == [bb : Nat, at : Nat, len : Nat]

Window(h) == h.at .. (h.at + h.len - 1)

\* No RAW, no WAW and no WAR between two instructions, whatever their order.
Independent(a, b) == /\ a.defs \cap (b.uses \cup b.defs) = {}
                     /\ b.defs \cap (a.uses \cup a.defs) = {}

\* The window lies in its block and its members may be executed in parallel.
WindowIndependent(fn, h) ==
    /\ h.bb \in 1..Len(fn)
    /\ Window(h) # {} /\ Window(h) \subseteq 1..Len(fn[h.bb])
    /\ \A i \in Window(h) : isPacketizableMI(fn[h.bb][i])
    /\ \A i \in Window(h), j \in Window(h) :
         i < j => Independent(fn[h.bb][i], fn[h.bb][j])

\* Every member's class is legal on the lane its place in memory gives it.
WindowLaneLegal(cfg, fn, h) ==
    \A i \in Window(h) : isLaneLegal(cfg, i - h.at, classifyOpClass(fn[h.bb][i]))

Overlap(g, h) == g.bb = h.bb /\ Window(g) \cap Window(h) # {}
=============================================================================
