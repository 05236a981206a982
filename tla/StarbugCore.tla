----------------------------- MODULE StarbugCore ----------------------------
(***************************************************************************)
(* The core that runs a STARBUG binary, next to a stock RV32C core that    *)
(* runs the same binary one instruction at a time.  The RTL is not part of *)
(* the repository: the core is modelled from the contract the tools in     *)
(* src/ are written against (docs/HARDWARE_CONTRACT.md).                   *)
(*                                                                         *)
(*   - A live hint either issues its bundle, all members reading the       *)
(*     registers in one cycle and writing back in one cycle, or the fetch  *)
(*     unit declines it and the instructions run scalar, in memory order.  *)
(*     The contract lists reasons to decline that no tool controls, so     *)
(*     either may happen at any hint.                                      *)
(*   - A branch may land in the middle of a bundle, which then runs scalar.*)
(*   - A lane-0-only operation on a worker lane is silently dropped.       *)
(*   - Two lanes writing one register have no defined winner.              *)
(*                                                                         *)
(* Instruction results are uninterpreted: Op(i, l, args) is what the       *)
(* instruction at index i leaves in location l given its inputs.           *)
(***************************************************************************)
EXTENDS StarbugISA

CONSTANTS Env,             \* everything outside the register files: memory, CSRs
          InitStates,      \* the states a program may start in
          Op(_, _, _),     \* results of instructions
          Programs,        \* the binaries, as sequences of Insn
          Targets(_, _)    \* indices the control instruction i of program p may go to

Loc == Reg \cup {Env}

ASSUME EnvAssumption == Env \notin Reg
ASSUME InitStatesAssumption == \A s \in InitStates : s = [l \in Loc |-> s[l]]
ASSUME ProgramsAssumption == Programs \subseteq Seq(Insn)
ASSUME TargetsAssumption ==
    \A p \in Programs : \A i \in 1..Len(p) : Targets(p, i) \subseteq 1..(Len(p) + 1)

VARIABLES
    prog,        \* the binary
    hw, hpc,     \* registers, environment and next instruction of the STARBUG core
    sc, spc,     \* the same of the stock core
    issued,      \* hint of the bundle the stock core is catching up on, or 0
    base,        \* the state all lanes of that bundle read
    decision     \* the successor lane 0 of that bundle chose

coreVars == <<prog, hw, hpc, sc, spc, issued, base, decision>>
-----------------------------------------------------------------------------
EnvReaders == {"load", "store", "atomic", "system"}
EnvWriters == {"store", "atomic", "system"}

Inputs(p, i)  == p[i].reads \cup (IF p[i].cls \in EnvReaders THEN {Env} ELSE {})
Outputs(p, i) == p[i].writes \cup (IF p[i].cls \in EnvWriters THEN {Env} ELSE {})

\* What instruction i of p leaves in location l when it reads state s.
Result(p, i, l, s) == Op(i, l, [x \in Inputs(p, i) |-> s[x]])

\* State s after instruction i alone.
After(p, i, s) == [l \in Loc |-> IF l \in Outputs(p, i) THEN Result(p, i, l, s) ELSE s[l]]

\* Where control may go after instruction i on its own.
Successors(p, i) ==
    CASE p[i].cls = "branch" -> {i + 1} \cup Targets(p, i)
      [] p[i].cls = "jump"   -> Targets(p, i)
      [] OTHER               -> {i + 1}

BundleEnd(p, h) == h + DeclaredLen(p[h]) + 1

\* Lane 0 commits, and so does a worker lane unless its operation is lane-0-only.
Commits(p, h) == {j \in Members(p, h) : j = h + 1 \/ ~is_lane0_only(p[j])}

Writers(p, h, l) == {j \in Commits(p, h) : l \in Outputs(p, j)}

\* State s after the bundle of h in one cycle; winner says which write lasts.
AfterBundle(p, h, winner, s) ==
    [l \in Loc |-> IF Writers(p, h, l) # {} THEN Result(p, winner[l], l, s) ELSE s[l]]

-----------------------------------------------------------------------------
CoreInit ==
    /\ prog \in Programs
    /\ hw \in InitStates /\ sc = hw /\ base = hw
    /\ hpc = 1 /\ spc = 1
    /\ issued = 0 /\ decision = 1

InSync == issued = 0
Running == hpc =< Len(prog)

(***************************************************************************)
(* One instruction on both cores: not a live hint, or a hint the fetch     *)
(* unit declined (the hint itself is a NOP on every core).                 *)
(***************************************************************************)
ScalarStep ==
    /\ InSync /\ Running
    /\ hw' = After(prog, hpc, hw)
    /\ sc' = After(prog, spc, sc)
    /\ \E t \in Successors(prog, hpc) : hpc' = t /\ spc' = t
    /\ UNCHANGED <<prog, issued, base, decision>>

(***************************************************************************)
(* The core issues the bundle behind the hint in one cycle.  Only lane 0   *)
(* can redirect the program counter.                                       *)
(***************************************************************************)
IssueBundle ==
    /\ InSync /\ Running
    /\ Live(prog, hpc) /\ Members(prog, hpc) \subseteq 1..Len(prog)
    /\ issued' = hpc
    /\ base' = hw
    /\ \E winner \in [Loc -> Members(prog, hpc)] :
         /\ \A l \in Loc : Writers(prog, hpc, l) # {} => winner[l] \in Writers(prog, hpc, l)
         /\ hw' = AfterBundle(prog, hpc, winner, hw)
    /\ \E t \in Successors(prog, hpc + 1) :
         /\ decision' = t
         /\ hpc' = IF t = hpc + 2 THEN BundleEnd(prog, hpc) ELSE t
    /\ UNCHANGED <<prog, sc, spc>>

InBundle(pc) == pc \in {issued} \cup Members(prog, issued)

(***************************************************************************)
(* The stock core executes the next instruction of the bundle; lane 0      *)
(* leads it where it led the STARBUG core.                                 *)
(***************************************************************************)
CatchUp ==
    /\ ~InSync
    /\ sc' = After(prog, spc, sc)
    /\ spc' \in IF spc = issued + 1 THEN {decision} ELSE Successors(prog, spc)
    /\ issued' = IF InBundle(spc') THEN issued ELSE 0
    /\ UNCHANGED <<prog, hw, hpc, base, decision>>

Halted == InSync /\ ~Running /\ UNCHANGED coreVars

CoreNext == ScalarStep \/ IssueBundle \/ CatchUp \/ Halted

CoreSpec == CoreInit /\ [][CoreNext]_coreVars
-----------------------------------------------------------------------------
CoreTypeOK ==
    /\ prog \in Programs
    /\ \A s \in {hw, sc, base} : s = [l \in Loc |-> s[l]]
    /\ hpc \in 1..(Len(prog) + 1) /\ spc \in 1..(Len(prog) + 1)
    /\ issued \in 0..Len(prog) /\ decision \in 1..(Len(prog) + 1)

(***************************************************************************)
(* A binary runs the same on both cores: whenever the stock core has left  *)
(* the bundle, registers, memory and program counter agree, however the    *)
(* fetch unit formed or declined bundles before.                           *)
(***************************************************************************)
SameAsScalar == InSync => hw = sc /\ hpc = spc

(***************************************************************************)
(* State s is state b after the members of h's bundle before pc, each of   *)
(* them computed from b: what one wrote no later one has overwritten.      *)
(***************************************************************************)
CaughtUp(p, h, pc, s, b) ==
    \A l \in Loc :
        /\ \A j \in (h + 1)..(pc - 1) : l \in Outputs(p, j) => s[l] = Result(p, j, l, b)
        /\ (\A j \in (h + 1)..(pc - 1) : l \notin Outputs(p, j)) => s[l] = b[l]

(***************************************************************************)
(* The inductive invariant, for safe programs: while the stock core        *)
(* catches up, both states are the bundle's common input state after the   *)
(* members each core has executed.                                         *)
(***************************************************************************)
CoreInv ==
    /\ CoreTypeOK
    /\ SameAsScalar
    /\ ~InSync =>
         /\ Live(prog, issued)
         /\ InBundle(spc)
         /\ hpc = BundleEnd(prog, issued)
         /\ decision = issued + 2
         /\ CaughtUp(prog, issued, spc, sc, base)
         /\ CaughtUp(prog, issued, hpc, hw, base)
=============================================================================
