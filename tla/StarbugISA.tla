----------------------------- MODULE StarbugISA -----------------------------
(***************************************************************************)
(* tools/starbug_isa.py: a decoded instruction as the bundle tools see it, *)
(* and the rules that say when the members of a bundle are safe.           *)
(*                                                                         *)
(* Decoding itself (words to records) is abstracted: an instruction is its *)
(* class, the registers it reads and writes (x0 already dropped), its      *)
(* address and size and the bundle length it encodes as a hint.            *)
(***************************************************************************)
EXTENDS Integers, Sequences, FiniteSets

CONSTANT Reg    \* x1..x31 and f0..f31, in disjoint ranges; x0 carries no dependence

Class == {"alu", "mul", "load", "store", "branch", "jump", "system", "atomic",
          "pcrel", "fpu", "fpdiv", "unknown"}

LANE0_ONLY  == {"load", "store", "branch", "jump", "system", "atomic", "pcrel", "unknown"}
LSU_CLASSES == {"load", "store", "atomic"}

MAX_BUNDLE == 4
MAX_HINT   == 63    \* the hint's immediate has six bits

(***************************************************************************)
(* hint is what hint_length returns for the word, 0 standing for None.  A  *)
(* hint is c.li x0, n: it decodes to an ALU operation without registers.   *)
(***************************************************************************)
InsnFields == [addr   : Nat,
               size   : {2, 4},
               cls    : Class,
               reads  : SUBSET Reg,
               writes : SUBSET Reg,
               hint   : 0..MAX_HINT]

IsHintInsn(i) == i.size = 2 /\ i.cls = "alu" /\ i.reads = {} /\ i.writes = {}

Insn == {i \in InsnFields : i.hint # 0 => IsHintInsn(i)}

is_lane0_only(i) == i.cls \in LANE0_ONLY
uses_lsu(i)      == i.cls \in LSU_CLASSES

\* The length analyse reads: it only asks hint_length of 16-bit instructions.
DeclaredLen(i) == IF i.size = 2 THEN i.hint ELSE 0

\* Mutants, here and below: plausible bugs of the definition that follows.
RAW_Swapped(a, b) == a.reads \cap b.writes # {}
WAW_Forgotten(a, b) == FALSE

RAW(a, b) == a.writes \cap b.reads # {}
WAW(a, b) == a.writes \cap b.writes # {}
WAR(a, b) == a.reads \cap b.writes # {}

-----------------------------------------------------------------------------
(***************************************************************************)
(* The bundle the fetch unit forms behind the hint at index i of program   *)
(* p, as docs/HARDWARE_CONTRACT.md reads it out of the RTL: the next n     *)
(* instructions in memory, on lanes 0, 1, ...                              *)
(***************************************************************************)
Live(p, i) == DeclaredLen(p[i]) \in 1..MAX_BUNDLE

Members(p, i) == (i + 1)..(i + DeclaredLen(p[i]))

\* The rules of sections 3 and 4 of the contract.
SafeBundle(p, i) ==
    /\ Members(p, i) \subseteq 1..Len(p)
    /\ \A j \in Members(p, i) : is_lane0_only(p[j]) => j = i + 1
    /\ \A j \in Members(p, i), k \in Members(p, i) :
         j < k => ~RAW(p[j], p[k]) /\ ~WAW(p[j], p[k])

(***************************************************************************)
(* What makes a binary run on the STARBUG core as on a stock core: every   *)
(* live hint's bundle, also one that is only reached by a branch or when   *)
(* an outer bundle is declined, is safe, and no control transfer is a      *)
(* member (the workers' results would commit on the taken path too).       *)
(***************************************************************************)
Control == {"branch", "jump"}

ContractSafe(p) ==
    \A h \in 1..Len(p) : Live(p, h) =>
        /\ SafeBundle(p, h)
        /\ \A j \in Members(p, h) : p[j].cls \notin Control
=============================================================================
