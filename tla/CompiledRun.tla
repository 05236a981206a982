----------------------------- MODULE CompiledRun -----------------------------
(***************************************************************************)
(* The whole way of a program: the packetizer plans bundles, the asm       *)
(* printer writes the binary, and the STARBUG core runs it beside a stock  *)
(* core.  The two ends share the binary and nothing else.  The core can be *)
(* reset with the binary at any time, before the checker has read it or    *)
(* after.  Until then the core holds the empty program.                    *)
(***************************************************************************)
EXTENDS Toolchain, StarbugCore

ASSUME EmptyAssumption == <<>> \in Programs

CompiledInit == ToolInit /\ prog = <<>> /\ CoreInit

\* A step of the packetizer, the printer or the checker.
Compile == ToolNext /\ UNCHANGED coreVars

\* Spike and the RTL simulator are started on the binary.
Load ==
    /\ Printed
    /\ insns \in Programs /\ prog' = insns
    /\ hw' \in InitStates /\ sc' = hw' /\ base' = hw'
    /\ hpc' = 1 /\ spc' = 1
    /\ issued' = 0 /\ decision' = 1
    /\ UNCHANGED toolVars

Execute == (ScalarStep \/ IssueBundle \/ CatchUp) /\ UNCHANGED toolVars

CompiledNext == Compile \/ Load \/ Execute

CompiledSpec == CompiledInit /\ [][CompiledNext]_<<toolVars, coreVars>>
-----------------------------------------------------------------------------
(***************************************************************************)
(* What is compiled for a real machine computes on the STARBUG core what   *)
(* it computes on a stock core: for any function, instructions, branches   *)
(* into the middle of bundles and any choice of the fetch unit, with no    *)
(* premise on the binary and whether or not it has been checked.           *)
(***************************************************************************)
CompiledRunsAsScalar == HardwareConfig => SameAsScalar

(***************************************************************************)
(* The inductive invariant: what the core holds keeps the contract because *)
(* the tool chain's binary does.                                           *)
(***************************************************************************)
CompiledInv == ToolInv /\ (HardwareConfig => ContractSafe(prog) /\ CoreInv)
=============================================================================
