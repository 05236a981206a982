------------------------------ MODULE BenchFlow ------------------------------
(***************************************************************************)
(* bench/run_bench.py: builds every kernel twice, has the bundle checker   *)
(* look at every STARBUG binary, simulates three runs per kernel on a pool *)
(* of threads and reports.  The main thread submits the simulations and    *)
(* collects them as they complete.                                         *)
(*                                                                         *)
(* Compiler, checker and simulator are processes: each may fail, the       *)
(* checker's report is a file that may be left over from an earlier        *)
(* session, and a simulation ends with a checksum, without a benchmark     *)
(* line, by the timeout or (the simulator cannot be started) by an         *)
(* exception in the pool's thread.  A compiler that cannot be started, or  *)
(* a results file that cannot be opened, ends main with an exception too.  *)
(***************************************************************************)
EXTENDS Integers, Sequences, FiniteSets

CONSTANTS Kernels,      \* the kernels selected, in order: files of a directory, each once
          Jobs,         \* --jobs
          Checksums,    \* the checksums a run may print
          OldReports,   \* the checker's reports earlier sessions may have left
          Failures      \* how a simulation may fail, among SimErrors and "raise"

ASSUME KernelsAssumption == /\ Kernels \in Seq(STRING) /\ Kernels # <<>>
                            /\ \A i, j \in 1..Len(Kernels) : Kernels[i] = Kernels[j] => i = j
ASSUME JobsAssumption == Jobs \in Nat \ {0}

SimErrors == {"noline", "timeout"}
Pending   == {"queued", "running"}

ASSUME FailuresAssumption == Failures \subseteq SimErrors \cup {"raise"}
ASSUME ChecksumsAssumption ==
    Checksums \cap (SimErrors \cup Pending \cup {"raise", "none"}) = {}

ASSUME OldReportsAssumption == OldReports \subseteq {"none", "clean", "unsafe"}

VARIABLES
    skipSim,    \* --skip-sim
    stage,      \* where main is
    step,       \* the build or kernel its loop is at
    elf,        \* entry[variant] has an "elf"
    isUnsafe,   \* the STARBUG binary of the kernel really has an unsafe bundle
    json,       \* what is in <elf>.bundles.json
    checked,    \* history: the checker ran to its end on this binary
    unsafe,     \* entry["starbug"]["unsafe"] is not empty
    fut,        \* the simulations: not submitted ("none"), pending or an outcome
    runs,       \* entry["runs"], the records main has collected
    exit        \* exit status, -1 before main returns

vars == <<skipSim, stage, step, elf, isUnsafe, json, checked, unsafe, fut, runs, exit>>

KernelSet == {Kernels[i] : i \in 1..Len(Kernels)}
Variants  == <<"baseline", "starbug">>
RunNames  == <<"baseline", "starbug", "compat">>
Job       == {<<k, RunNames[r]>> : k \in KernelSet, r \in 1..3}
Outcomes  == Checksums \cup Failures
Reports   == {"none", "clean", "unsafe"}    \* "none": no file, or none that parses

\* compat runs the STARBUG binary on the scalar core.
BinaryOf(job) == IF job[2] = "baseline" THEN "baseline" ELSE "starbug"
-----------------------------------------------------------------------------
Init ==
    /\ skipSim \in BOOLEAN
    /\ stage = "build" /\ step = 1
    /\ elf = [k \in KernelSet |-> [v \in {"baseline", "starbug"} |-> FALSE]]
    /\ isUnsafe = [k \in KernelSet |-> FALSE]
    /\ json \in [KernelSet -> OldReports]
    /\ checked = [k \in KernelSet |-> FALSE]
    /\ unsafe = [k \in KernelSet |-> FALSE]
    /\ fut = [j \in Job |-> "none"]
    /\ runs = [j \in Job |-> "none"]
    /\ exit = -1

poolVars == <<fut, runs>>

\* compile_kernel for the next kernel and variant; it leaves the old report alone.
Build ==
    /\ stage = "build" /\ step =< 2 * Len(Kernels)
    /\ LET k == Kernels[(step + 1) \div 2]
           v == Variants[2 - (step % 2)] IN
         \E ok \in BOOLEAN, bad \in BOOLEAN :
            /\ bad => ok /\ v = "starbug"
            /\ elf' = [elf EXCEPT ![k][v] = ok]
            /\ isUnsafe' = [isUnsafe EXCEPT ![k] = @ \/ bad]
    /\ step' = step + 1
    /\ UNCHANGED <<skipSim, stage, json, checked, unsafe, poolVars, exit>>

BuildsDone ==
    /\ stage = "build" /\ step > 2 * Len(Kernels)
    /\ stage' = "verify" /\ step' = 1
    /\ UNCHANGED <<skipSim, elf, isUnsafe, json, checked, unsafe, poolVars, exit>>

(***************************************************************************)
(* validate_bundles runs the checker, ignores its exit status and reads    *)
(* the report file; without a readable one it returns a dictionary that    *)
(* has no "unsafe" entry, which main takes for an empty list.  The checker *)
(* either writes its verdict, fails before it opens the file, or fails     *)
(* while writing.                                                          *)
(***************************************************************************)
Verdict(k) == IF isUnsafe[k] THEN "unsafe" ELSE "clean"

\* Mutants, here and below: plausible bugs of the definition that follows.
\* The report is read before the checker has written it.
Validate_ReadsFirst ==
    /\ stage = "verify" /\ step =< Len(Kernels)
    /\ LET k == Kernels[step] IN
         IF ~elf[k]["starbug"] THEN UNCHANGED <<json, checked, unsafe>>
         ELSE /\ json' = [json EXCEPT ![k] = Verdict(k)]
              /\ checked' = [checked EXCEPT ![k] = TRUE]
              /\ unsafe' = [unsafe EXCEPT ![k] = json[k] = "unsafe"]
    /\ step' = step + 1
    /\ UNCHANGED <<skipSim, stage, elf, isUnsafe, poolVars, exit>>

Validate ==
    /\ stage = "verify" /\ step =< Len(Kernels)
    /\ LET k == Kernels[step] IN
         IF ~elf[k]["starbug"] THEN UNCHANGED <<json, checked, unsafe>>
         ELSE \E ended \in BOOLEAN, report \in Reports :
                /\ IF ended THEN report = Verdict(k) ELSE report \in {json[k], "none"}
                /\ json' = [json EXCEPT ![k] = report]
                /\ checked' = [checked EXCEPT ![k] = ended]
                /\ unsafe' = [unsafe EXCEPT ![k] = report = "unsafe"]
    /\ step' = step + 1
    /\ UNCHANGED <<skipSim, stage, elf, isUnsafe, poolVars, exit>>

SomeUnsafe == \E k \in KernelSet : unsafe[k]

\* --skip-sim: main writes the results and returns.
ReturnEarly ==
    /\ stage = "verify" /\ step > Len(Kernels) /\ skipSim
    /\ stage' = "exited"
    /\ exit' = IF SomeUnsafe THEN 1 ELSE 0
    /\ UNCHANGED <<skipSim, step, elf, isUnsafe, json, checked, unsafe, poolVars>>

\* The jobs in the order of the jobs list, which holds those whose binary was built.
AllJobs == [n \in 1..(3 * Len(Kernels)) |->
              <<Kernels[((n - 1) \div 3) + 1], RunNames[((n - 1) % 3) + 1]>>]
HasBinary(job) == elf[job[1]][BinaryOf(job)]

Submit ==
    /\ stage = "verify" /\ step > Len(Kernels) /\ ~skipSim
    /\ stage' = "simulate"
    /\ fut' = [j \in Job |-> IF HasBinary(j) THEN "queued" ELSE "none"]
    /\ UNCHANGED <<skipSim, step, elf, isUnsafe, json, checked, unsafe, runs, exit>>

\* A thread of the pool takes the job that was submitted first.
StartJob ==
    /\ Cardinality({j \in Job : fut[j] = "running"}) < Jobs
    /\ \E n \in 1..(3 * Len(Kernels)) :
         /\ fut[AllJobs[n]] = "queued"
         /\ \A m \in 1..(n - 1) : fut[AllJobs[m]] # "queued"
         /\ fut' = [fut EXCEPT ![AllJobs[n]] = "running"]
    /\ UNCHANGED <<skipSim, stage, step, elf, isUnsafe, json, checked, unsafe, runs, exit>>

\* simulate returns or raises.
FinishJob(j) ==
    /\ fut[j] = "running"
    /\ \E o \in Outcomes : fut' = [fut EXCEPT ![j] = o]
    /\ UNCHANGED <<skipSim, stage, step, elf, isUnsafe, json, checked, unsafe, runs, exit>>

\* A simulation's exception is recorded like a result.
Collect_Swallows(j) ==
    /\ stage = "simulate"
    /\ fut[j] \in Outcomes /\ runs[j] = "none"
    /\ runs' = [runs EXCEPT ![j] = fut[j]]
    /\ UNCHANGED <<skipSim, stage, step, elf, isUnsafe, json, checked, unsafe, fut, exit>>

\* as_completed hands main a completed future; result() re-raises its exception.
Collect(j) ==
    /\ stage = "simulate"
    /\ fut[j] \in Outcomes /\ runs[j] = "none"
    /\ IF fut[j] = "raise"
       THEN stage' = "unwinding" /\ runs' = runs
       ELSE stage' = stage /\ runs' = [runs EXCEPT ![j] = fut[j]]
    /\ UNCHANGED <<skipSim, step, elf, isUnsafe, json, checked, unsafe, fut, exit>>

PoolIdle == \A j \in Job : fut[j] \notin Pending

\* Main waits for the simulations, not for their records.
AllCollected_Finished == PoolIdle

\* Main waits for jobs that were never submitted.
AllCollected_Everything == \A j \in Job : runs[j] # "none"

AllCollected == \A j \in Job : HasBinary(j) => runs[j] # "none"

LeavePool ==
    /\ stage = "simulate" /\ AllCollected
    /\ stage' = "report"
    /\ UNCHANGED <<skipSim, step, elf, isUnsafe, json, checked, unsafe, poolVars, exit>>

\* The pool is shut down without waiting.
Crash_NoWait ==
    /\ stage = "unwinding"
    /\ stage' = "crashed" /\ exit' = 1
    /\ UNCHANGED <<skipSim, step, elf, isUnsafe, json, checked, unsafe, poolVars>>

\* The pool's context manager waits for every job before the exception goes on.
Crash ==
    /\ stage = "unwinding" /\ PoolIdle
    /\ stage' = "crashed" /\ exit' = 1
    /\ UNCHANGED <<skipSim, step, elf, isUnsafe, json, checked, unsafe, poolVars>>

\* The "ok" column of the report.
ChecksumsOf(k) == {runs[<<k, RunNames[r]>>] : r \in 1..3} \cap Checksums
\* One checksum is enough.
Ok_AnyChecksum(k) == ChecksumsOf(k) # {} /\ ~unsafe[k]

Ok(k) == Cardinality(ChecksumsOf(k)) = 1 /\ ~unsafe[k]

Report ==
    /\ stage = "report"
    /\ stage' = "exited"
    /\ exit' = IF SomeUnsafe THEN 1 ELSE 0
    /\ UNCHANGED <<skipSim, step, elf, isUnsafe, json, checked, unsafe, poolVars>>

\* An exception outside of the pool: starting a compiler, or opening the results file.
Abort ==
    /\ \/ stage = "build" /\ step =< 2 * Len(Kernels)
       \/ stage = "verify" /\ step > Len(Kernels) /\ skipSim
       \/ stage = "report"
    /\ stage' = "crashed" /\ exit' = 1
    /\ UNCHANGED <<skipSim, step, elf, isUnsafe, json, checked, unsafe, poolVars>>

Main == Build \/ BuildsDone \/ Validate \/ ReturnEarly \/ Submit
        \/ (\E j \in Job : Collect(j)) \/ LeavePool \/ Crash \/ Report \/ Abort

Returned == stage \in {"exited", "crashed"}

Next == Main \/ StartJob \/ (\E j \in Job : FinishJob(j)) \/ (Returned /\ UNCHANGED vars)

(***************************************************************************)
(* Main goes on while it can, the pool starts queued jobs when a thread is *)
(* free, and every simulation ends: by itself or by the timeout.           *)
(***************************************************************************)
Spec == /\ Init /\ [][Next]_vars
        /\ WF_vars(Main) /\ WF_vars(StartJob)
        /\ \A j \in Job : WF_vars(FinishJob(j))
-----------------------------------------------------------------------------
\* Types of the flow's state.
TypeOK ==
    /\ skipSim \in BOOLEAN
    /\ stage \in {"build", "verify", "simulate", "unwinding", "report", "exited", "crashed"}
    /\ step \in 1..(2 * Len(Kernels) + 1)
    /\ elf \in [KernelSet -> [{"baseline", "starbug"} -> BOOLEAN]]
    /\ json \in [KernelSet -> Reports]
    /\ \A b \in {isUnsafe, checked, unsafe} : b \in [KernelSet -> BOOLEAN]
    /\ fut \in [Job -> Outcomes \cup Pending \cup {"none"}]
    /\ runs \in [Job -> Outcomes \cup {"none"}]
    /\ exit \in {-1, 0, 1}

Reported == stage = "exited" /\ ~skipSim

(***************************************************************************)
(* "A kernel with a checksum mismatch or an unsafe bundle is reported      *)
(* ok=NO": whenever two of its simulations printed different checksums, or *)
(* the checker ran and found its binary unsafe, in whatever order the      *)
(* simulations completed.                                                  *)
(***************************************************************************)
MismatchIsReported ==
    Reported => \A k \in KernelSet :
        \/ isUnsafe[k] /\ checked[k]
        \/ \E r, s \in 1..3 : LET a == fut[<<k, RunNames[r]>>]  b == fut[<<k, RunNames[s]>>] IN
                               a \in Checksums /\ b \in Checksums /\ a # b
        => ~Ok(k)

(***************************************************************************)
(* The report comes after every simulation, has each one's own outcome,    *)
(* and is not written when one of them raised.                             *)
(***************************************************************************)
ReportIsComplete ==
    Reported => \A j \in Job : runs[j] = fut[j] /\ (HasBinary(j) <=> runs[j] # "none")
                               /\ runs[j] # "raise"

\* Exit status 0 means that no binary the checker judged was unsafe.
ExitReflectsChecker ==
    exit = 0 => \A k \in KernelSet : checked[k] => ~isUnsafe[k]

(***************************************************************************)
(* No simulation outlives main: the process ends with an idle pool, after  *)
(* an exception as well.                                                   *)
(***************************************************************************)
NoOrphans == Returned => PoolIdle

(***************************************************************************)
(* The inductive invariant.  The checker's verdict on a binary is what     *)
(* main remembers of it; a record main has collected is its simulation's;  *)
(* submitted are the simulations whose binary was built, with --skip-sim   *)
(* none; main reports when it has every record, and it lets an exception   *)
(* out when the pool is idle.                                              *)
(***************************************************************************)
FlowInv ==
    /\ TypeOK
    /\ exit # -1 => stage \in {"exited", "crashed"} /\ (exit = 0 => ~SomeUnsafe)
    /\ \A k \in KernelSet : checked[k] => stage # "build" /\ (unsafe[k] <=> isUnsafe[k])
    /\ skipSim => stage \in {"build", "verify", "exited", "crashed"}
    /\ \A j \in Job :
         /\ runs[j] # "none" => runs[j] = fut[j] /\ fut[j] \in Outcomes \ {"raise"}
         /\ stage # "crashed" =>
              (fut[j] # "none" <=> (HasBinary(j) /\ stage \notin {"build", "verify"} /\ ~skipSim))
    /\ (stage = "report" \/ Reported) => AllCollected
    /\ stage = "crashed" => PoolIdle

\* The flow ends, with a report or with an exception.
FlowEnds == <>Returned

(***************************************************************************)
(* bench/README.md, "Every binary is verified before it is timed": no      *)
(* STARBUG binary is simulated unless the checker judged it.               *)
(***************************************************************************)
TimedIsVerified ==
    \A j \in Job : fut[j] \in {"running"} \cup Outcomes /\ BinaryOf(j) = "starbug"
                       => checked[j[1]]
=============================================================================
