----------------------------- MODULE CheckedRun -----------------------------
(***************************************************************************)
(* tools/verify_fix.sh: rebuilds a binary, gives it to the bundle checker  *)
(* (step 1), compares its output on Spike with the GCC-built reference's   *)
(* (step 2) and its output on the STARBUG RTL with Spike's (step 3).  The  *)
(* checker and the cores share the binary, and nothing else; the script    *)
(* goes on whatever a step found.                                          *)
(*                                                                         *)
(* Spike is a stock core.  Programs are deterministic, so one run of both  *)
(* cores side by side stands for every run the script makes; what a        *)
(* program prints is the state it ends in.  <<>> is an output without the  *)
(* lines step 3 looks for, of a simulator that failed for instance, and in *)
(* step 2 an output that differs.                                          *)
(***************************************************************************)
EXTENDS BundleChecker, StarbugCore

VARIABLES at,         \* where the script is
          fail,       \* its variable of that name
          rtl, spk,   \* the outputs step 3 compares
          status      \* the script's exit status, -1 until it exits

scriptVars == <<at, fail, rtl, spk, status>>
runVars    == <<checkerVars, coreVars, scriptVars>>

RunInit ==
    /\ CoreInit /\ insns = prog /\ CheckerInit
    /\ at = "build" /\ fail = FALSE
    /\ rtl = <<>> /\ spk = <<>> /\ status = -1

Build ==
    /\ at = "build"
    /\ \/ at' = "step1" /\ status' = status
       \/ at' = "exited" /\ status' = 1
    /\ UNCHANGED <<checkerVars, coreVars, fail, rtl, spk>>

RunChecker == at = "step1" /\ (StepOver \/ TakeBundle \/ Report) /\ UNCHANGED <<coreVars, scriptVars>>

Step1 ==
    /\ at = "step1" /\ exit # -1
    /\ fail' = (exit # 0)
    /\ at' = "run"
    /\ UNCHANGED <<checkerVars, coreVars, rtl, spk, status>>

Run ==
    /\ at = "run"
    /\ ScalarStep \/ IssueBundle \/ CatchUp
    /\ UNCHANGED <<checkerVars, scriptVars>>

\* Mutants, here and below: plausible bugs of the definition that follows.
\* The result of step 1 is overwritten.
Step2_Resets ==
    /\ at = "run" /\ InSync /\ ~Running
    /\ \E reference \in {<<sc>>, <<>>} : fail' = (reference # <<sc>>)
    /\ at' = "step3"
    /\ UNCHANGED <<checkerVars, coreVars, rtl, spk, status>>

Step2 ==
    /\ at = "run" /\ InSync /\ ~Running
    /\ \E reference \in {<<sc>>, <<>>} : fail' = (fail \/ reference # <<sc>>)
    /\ at' = "step3"
    /\ UNCHANGED <<checkerVars, coreVars, rtl, spk, status>>

Step3 ==
    /\ at = "step3"
    /\ rtl' \in {<<hw>>, <<>>} /\ spk' \in {<<sc>>, <<>>}
    /\ fail' = (fail \/ rtl' # spk')
    /\ status' = IF fail' THEN 1 ELSE 0
    /\ at' = "exited"
    /\ UNCHANGED <<checkerVars, coreVars>>

Finished == at = "exited" /\ UNCHANGED runVars

RunNext == Build \/ RunChecker \/ Step1 \/ Run \/ Step2 \/ Step3 \/ Finished

RunSpec == RunInit /\ [][RunNext]_runVars
-----------------------------------------------------------------------------
NoControlMembers ==
    \A h \in Hints : \A j \in Members(insns, h) \cap 1..Len(insns) : insns[j].cls \notin Control

(***************************************************************************)
(* A binary the checker accepts runs on the STARBUG core as it does on a   *)
(* stock core, whichever bundles the fetch unit forms or declines and      *)
(* wherever a branch lands: the checker's rules are all the safety there   *)
(* is, since the hardware has no interlock.  It takes two premises that    *)
(* the checker does not test: no hint stands among another's members, and  *)
(* no control transfer is a member.                                        *)
(***************************************************************************)
AcceptedRunsAsScalar ==
    exit = 0 /\ NoNestedHints /\ NoControlMembers => SameAsScalar

(***************************************************************************)
(* What passes the script has no unsafe bundle and, if Spike printed       *)
(* results in step 3, has computed the same on both cores.  Here no        *)
(* premise is left: what the checker accepts without reason, a branch with *)
(* followers, step 3 finds on the path the program took.                   *)
(***************************************************************************)
PassedMeansSame ==
    status = 0 => exit = 0 /\ (spk # <<>> => hw = sc)

(***************************************************************************)
(* The inductive invariant: the checker's and the cores' own invariants on *)
(* one binary, the cores' for a binary that keeps the contract; the script *)
(* leaves step 1 with a verdict and forgets no failure; and it passes only *)
(* equal outputs.                                                          *)
(***************************************************************************)
RunInv ==
    /\ insns = prog
    /\ CheckInv
    /\ ContractSafe(prog) => CoreInv
    /\ at \in {"build", "step1", "run", "step3", "exited"}
    /\ fail \in BOOLEAN
    /\ at \in {"run", "step3"} => exit # -1 /\ (fail \/ exit = 0)
    /\ at # "exited" => status = -1
    /\ PassedMeansSame
=============================================================================
