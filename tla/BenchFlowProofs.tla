--------------------------- MODULE BenchFlowProofs ----------------------------
(***************************************************************************)
(* Proofs about bench/run_bench.py, for every selection of kernels, number *)
(* of threads, and set of checksums and failures: whatever fails and in    *)
(* whatever order simulations complete, exit status and report are true.   *)
(***************************************************************************)
EXTENDS BenchFlow, FiniteSetTheorems, TLAPS

LEMMA NumberOfKernels == Len(Kernels) \in Nat
BY KernelsAssumption

\* A pending simulation has no outcome, and neither has one that was not submitted.
LEMMA OutcomesApart == Outcomes \cap (Pending \cup {"none"}) = {}
BY FailuresAssumption, ChecksumsAssumption DEF Outcomes, Pending, SimErrors

LEMMA InitFlow == Init => FlowInv
<1> SUFFICES ASSUME Init PROVE FlowInv
  OBVIOUS
<1>1. /\ skipSim \in BOOLEAN /\ stage = "build" /\ step = 1 /\ exit = -1
      /\ \A k \in KernelSet : checked[k] = FALSE
      /\ \A j \in Job : fut[j] = "none" /\ runs[j] = "none"
  BY DEF Init
<1>2. TypeOK
  <2>1. /\ stage \in {"build", "verify", "simulate", "unwinding", "report", "exited", "crashed"}
        /\ step \in 1..(2 * Len(Kernels) + 1) /\ exit \in {-1, 0, 1}
    BY <1>1, NumberOfKernels
  <2>2. elf \in [KernelSet -> [{"baseline", "starbug"} -> BOOLEAN]]
    BY DEF Init
  <2>3. json \in [KernelSet -> Reports]
    <3>1. OldReports \subseteq Reports
      BY OldReportsAssumption DEF Reports
    <3> QED BY <3>1 DEF Init
  <2>4. \A b \in {isUnsafe, checked, unsafe} : b \in [KernelSet -> BOOLEAN]
    BY DEF Init
  <2>5. fut \in [Job -> Outcomes \cup Pending \cup {"none"}] /\ runs \in [Job -> Outcomes \cup {"none"}]
    BY DEF Init
  <2> QED BY <1>1, <2>1, <2>2, <2>3, <2>4, <2>5 DEF TypeOK
<1> QED BY <1>1, <1>2 DEF FlowInv, Reported

(***************************************************************************)
(* A step of main that leaves the pool alone and does not report: what it  *)
(* owes the invariant are types and what is known of the verdicts.         *)
(***************************************************************************)
LEMMA MainStep ==
    ASSUME FlowInv, TypeOK', UNCHANGED <<skipSim, poolVars>>,
           stage \in {"build", "verify"}, stage' \in {"build", "verify"}, exit' = -1,
           \A k \in KernelSet : checked'[k] => stage' # "build" /\ (unsafe'[k] <=> isUnsafe'[k])
    PROVE  FlowInv'
<1>1. skipSim' = skipSim /\ fut' = fut /\ runs' = runs
  BY DEF poolVars
<1>2. \A j \in Job : fut[j] = "none" /\ runs[j] = "none"
  <2> SUFFICES ASSUME NEW j \in Job PROVE fut[j] = "none" /\ runs[j] = "none"
    OBVIOUS
  <2>1. fut[j] = "none"
    BY DEF FlowInv
  <2> QED BY <2>1, OutcomesApart DEF FlowInv
<1>3. \A j \in Job :
         /\ runs'[j] # "none" => runs'[j] = fut'[j] /\ fut'[j] \in Outcomes \ {"raise"}
         /\ fut'[j] # "none" <=> (HasBinary(j)' /\ stage' \notin {"build", "verify"} /\ ~skipSim')
  BY <1>1, <1>2
<1>4. stage' \notin {"report", "exited", "crashed"}
  OBVIOUS
<1>5. (exit # -1 => stage \in {"exited", "crashed"} /\ (exit = 0 => ~SomeUnsafe))'
  OBVIOUS
<1> QED BY <1>1, <1>3, <1>4, <1>5 DEF FlowInv, Reported

LEMMA BuildFlow == FlowInv /\ Build => FlowInv'
<1> SUFFICES ASSUME FlowInv, Build PROVE FlowInv'
  OBVIOUS
<1>1. TypeOK /\ stage = "build" /\ step =< 2 * Len(Kernels) /\ step' = step + 1
      /\ UNCHANGED <<skipSim, stage, json, checked, unsafe, poolVars, exit>>
  BY DEF FlowInv, Build
<1>2. step' \in 1..(2 * Len(Kernels) + 1)
  BY <1>1, NumberOfKernels DEF TypeOK
<1> DEFINE k == Kernels[(step + 1) \div 2]
           v == Variants[2 - (step % 2)]
<1>3. PICK ok \in BOOLEAN, bad \in BOOLEAN :
         /\ elf' = [elf EXCEPT ![k][v] = ok]
         /\ isUnsafe' = [isUnsafe EXCEPT ![k] = @ \/ bad]
  BY DEF Build
<1> HIDE DEF k, v
<1>4. elf' \in [KernelSet -> [{"baseline", "starbug"} -> BOOLEAN]]
  BY <1>1, <1>3 DEF TypeOK
<1>5. isUnsafe' \in [KernelSet -> BOOLEAN]
  BY <1>1, <1>3 DEF TypeOK
<1>6. TypeOK'
  BY <1>1, <1>2, <1>4, <1>5 DEF TypeOK, poolVars
<1>7. exit' = -1 /\ \A x \in KernelSet : ~checked'[x]
  BY <1>1 DEF FlowInv
<1> QED BY <1>1, <1>6, <1>7, MainStep

LEMMA BuildsDoneFlow == FlowInv /\ BuildsDone => FlowInv'
<1> SUFFICES ASSUME FlowInv, BuildsDone PROVE FlowInv'
  OBVIOUS
<1>1. TypeOK /\ stage = "build" /\ stage' = "verify" /\ step' = 1
      /\ UNCHANGED <<skipSim, elf, isUnsafe, json, checked, unsafe, poolVars, exit>>
  BY DEF FlowInv, BuildsDone
<1>2. step' \in 1..(2 * Len(Kernels) + 1)
  BY <1>1, NumberOfKernels
<1>3. TypeOK'
  BY <1>1, <1>2 DEF TypeOK, poolVars
<1>4. exit' = -1 /\ \A k \in KernelSet : ~checked'[k]
  BY <1>1 DEF FlowInv
<1> QED BY <1>1, <1>3, <1>4, MainStep

LEMMA ValidateFlow == FlowInv /\ Validate => FlowInv'
<1> SUFFICES ASSUME FlowInv, Validate PROVE FlowInv'
  OBVIOUS
<1>1. TypeOK /\ stage = "verify" /\ step =< Len(Kernels) /\ step' = step + 1
      /\ UNCHANGED <<skipSim, stage, elf, isUnsafe, poolVars, exit>>
  BY DEF FlowInv, Validate
<1>2. step' \in 1..(2 * Len(Kernels) + 1)
  BY <1>1, NumberOfKernels DEF TypeOK
<1>3. exit' = -1
  BY <1>1 DEF FlowInv
<1>4. CASE UNCHANGED <<json, checked, unsafe>>
  <2>1. TypeOK'
    BY <1>1, <1>2, <1>4 DEF TypeOK, poolVars
  <2>2. \A k \in KernelSet : checked'[k] => stage' # "build" /\ (unsafe'[k] <=> isUnsafe'[k])
    BY <1>1, <1>4 DEF FlowInv
  <2> QED BY <1>1, <1>3, <2>1, <2>2, MainStep
<1>5. CASE ~UNCHANGED <<json, checked, unsafe>>
  <2> DEFINE v == Kernels[step]
  <2>1. PICK ended \in BOOLEAN, report \in Reports :
           /\ IF ended THEN report = Verdict(v) ELSE report \in {json[v], "none"}
           /\ json' = [json EXCEPT ![v] = report]
           /\ checked' = [checked EXCEPT ![v] = ended]
           /\ unsafe' = [unsafe EXCEPT ![v] = report = "unsafe"]
    BY <1>5 DEF Validate
  <2> HIDE DEF v
  <2>2. /\ json' \in [KernelSet -> Reports] /\ checked' \in [KernelSet -> BOOLEAN]
        /\ unsafe' \in [KernelSet -> BOOLEAN]
    BY <1>1, <2>1 DEF TypeOK
  <2>3. TypeOK'
    BY <1>1, <1>2, <2>2 DEF TypeOK, poolVars
  <2>4. ASSUME NEW k \in KernelSet, checked'[k]
        PROVE  unsafe'[k] <=> isUnsafe'[k]
    <3>1. CASE k = v
      <4>1. ended /\ report = Verdict(k) /\ (unsafe'[k] <=> report = "unsafe")
        BY <1>1, <2>1, <2>4, <3>1 DEF TypeOK
      <4> QED BY <1>1, <4>1 DEF Verdict
    <3>2. CASE k # v
      <4>1. checked'[k] = checked[k] /\ unsafe'[k] = unsafe[k]
        BY <1>1, <2>1, <3>2 DEF TypeOK
      <4> QED BY <1>1, <2>4, <4>1 DEF FlowInv
    <3> QED BY <3>1, <3>2
  <2> QED BY <1>1, <1>3, <2>3, <2>4, MainStep
<1> QED BY <1>4, <1>5

\* Main ends with the exit status of the verdicts it remembers.
LEMMA ReturnEarlyFlow == FlowInv /\ ReturnEarly => FlowInv'
<1> SUFFICES ASSUME FlowInv, ReturnEarly PROVE FlowInv'
  OBVIOUS
<1>1. /\ TypeOK /\ stage = "verify" /\ skipSim = TRUE /\ stage' = "exited"
      /\ exit' = (IF SomeUnsafe THEN 1 ELSE 0)
      /\ UNCHANGED <<skipSim, step, elf, isUnsafe, json, checked, unsafe, poolVars>>
  BY DEF FlowInv, ReturnEarly, TypeOK
<1>2. exit' \in {0, 1} /\ (exit' = 0 => ~SomeUnsafe')
  BY <1>1 DEF SomeUnsafe
<1>3. TypeOK'
  BY <1>1, <1>2 DEF TypeOK, poolVars
<1>4. \A j \in Job : fut[j] = "none"
  BY <1>1 DEF FlowInv
<1>5. fut' = fut /\ runs' = runs /\ skipSim' = TRUE /\ checked' = checked
      /\ unsafe' = unsafe /\ isUnsafe' = isUnsafe
  BY <1>1 DEF poolVars
<1>6. \A j \in Job : runs'[j] = "none"
  BY <1>4, <1>5, OutcomesApart DEF FlowInv
<1> QED BY <1>1, <1>2, <1>3, <1>4, <1>5, <1>6 DEF FlowInv, Reported

\* Exactly the jobs that have a binary are submitted.
LEMMA SubmitFlow == FlowInv /\ Submit => FlowInv'
<1> SUFFICES ASSUME FlowInv, Submit PROVE FlowInv'
  OBVIOUS
<1>1. /\ TypeOK /\ stage = "verify" /\ skipSim = FALSE /\ stage' = "simulate"
      /\ fut' = [j \in Job |-> IF HasBinary(j) THEN "queued" ELSE "none"]
      /\ UNCHANGED <<skipSim, step, elf, isUnsafe, json, checked, unsafe, runs, exit>>
  BY DEF FlowInv, Submit, TypeOK
<1>2. fut' \in [Job -> Outcomes \cup Pending \cup {"none"}]
  BY <1>1 DEF Pending
<1>3. TypeOK'
  BY <1>1, <1>2 DEF TypeOK
<1>4. exit' = -1
  BY <1>1 DEF FlowInv
<1>5. \A j \in Job : HasBinary(j)' = HasBinary(j)
  BY <1>1 DEF HasBinary
<1>6. ASSUME NEW j \in Job
      PROVE  runs'[j] = "none" /\ (fut'[j] # "none" <=> HasBinary(j)')
  <2>1. fut[j] = "none"
    BY <1>1 DEF FlowInv
  <2>2. runs[j] = "none"
    BY <2>1, OutcomesApart DEF FlowInv
  <2>3. fut'[j] = IF HasBinary(j) THEN "queued" ELSE "none"
    BY <1>1
  <2> QED BY <1>1, <1>5, <2>2, <2>3
<1>7. \A k \in KernelSet : checked'[k] => stage' # "build" /\ (unsafe'[k] <=> isUnsafe'[k])
  BY <1>1 DEF FlowInv
<1> QED BY <1>1, <1>3, <1>4, <1>6, <1>7 DEF FlowInv, Reported

(***************************************************************************)
(* A step of the pool: what is submitted stays so, what main has collected *)
(* keeps its outcome, and nothing pending appears.                         *)
(***************************************************************************)
LEMMA PoolStep ==
    ASSUME FlowInv,
           UNCHANGED <<skipSim, stage, step, elf, isUnsafe, json, checked, unsafe, runs, exit>>,
           fut' \in [Job -> Outcomes \cup Pending \cup {"none"}],
           \A j \in Job : fut'[j] # fut[j] => fut[j] \in Pending /\ fut'[j] # "none"
    PROVE  FlowInv'
<1>1. TypeOK'
  BY DEF FlowInv, TypeOK
<1>2. ASSUME NEW j \in Job
      PROVE  /\ runs[j] # "none" => runs[j] = fut'[j] /\ fut'[j] \in Outcomes \ {"raise"}
             /\ fut'[j] # "none" <=> fut[j] # "none"
  BY OutcomesApart DEF FlowInv, Pending
<1>3. \A j \in Job : HasBinary(j)' = HasBinary(j)
  BY DEF HasBinary
<1>4. AllCollected' = AllCollected /\ SomeUnsafe' = SomeUnsafe /\ Reported' = Reported
  BY <1>3 DEF AllCollected, SomeUnsafe, Reported
<1>5. stage = "crashed" => PoolIdle'
  BY DEF FlowInv, PoolIdle
<1> QED BY <1>1, <1>2, <1>3, <1>4, <1>5 DEF FlowInv

LEMMA StartJobFlow == FlowInv /\ StartJob => FlowInv'
<1> SUFFICES ASSUME FlowInv, StartJob PROVE FlowInv'
  OBVIOUS
<1>1. PICK n \in 1..(3 * Len(Kernels)) :
        fut[AllJobs[n]] = "queued" /\ fut' = [fut EXCEPT ![AllJobs[n]] = "running"]
  BY DEF StartJob
<1>2. PICK a : a = AllJobs[n]
  OBVIOUS
<1>3. fut \in [Job -> Outcomes \cup Pending \cup {"none"}] /\ "running" \in Pending
      /\ "queued" \in Pending
  BY DEF FlowInv, TypeOK, Pending
<1>4. fut[a] = "queued" /\ fut' = [fut EXCEPT ![a] = "running"]
  BY <1>1, <1>2
<1>5. fut' \in [Job -> Outcomes \cup Pending \cup {"none"}]
  BY <1>3, <1>4
<1>6. \A j \in Job : fut'[j] # fut[j] => fut[j] \in Pending /\ fut'[j] # "none"
  BY <1>3, <1>4
<1> QED BY <1>5, <1>6, PoolStep DEF StartJob

LEMMA FinishJobFlow == ASSUME FlowInv, NEW j \in Job, FinishJob(j) PROVE FlowInv'
<1>1. PICK o \in Outcomes : fut' = [fut EXCEPT ![j] = o]
  BY DEF FinishJob
<1>2. fut \in [Job -> Outcomes \cup Pending \cup {"none"}] /\ fut[j] \in Pending /\ o # "none"
  BY OutcomesApart DEF FlowInv, TypeOK, Pending, FinishJob
<1>3. fut' \in [Job -> Outcomes \cup Pending \cup {"none"}]
  BY <1>1, <1>2
<1>4. \A i \in Job : fut'[i] # fut[i] => fut[i] \in Pending /\ fut'[i] # "none"
  BY <1>1, <1>2
<1> QED BY <1>3, <1>4, PoolStep DEF FinishJob

LEMMA CollectFlow == ASSUME FlowInv, NEW j \in Job, Collect(j) PROVE FlowInv'
<1>1. /\ TypeOK /\ stage = "simulate" /\ fut[j] \in Outcomes
      /\ UNCHANGED <<skipSim, step, elf, isUnsafe, json, checked, unsafe, fut, exit>>
  BY DEF FlowInv, Collect
<1>2. /\ stage' \in {"simulate", "unwinding"}
      /\ \/ runs' = runs
         \/ fut[j] # "raise" /\ runs' = [runs EXCEPT ![j] = fut[j]]
  BY <1>1 DEF Collect
<1>3. runs' \in [Job -> Outcomes \cup {"none"}]
  BY <1>1, <1>2 DEF TypeOK
<1>4. TypeOK'
  BY <1>1, <1>2, <1>3 DEF TypeOK
<1>5. exit' = -1 /\ stage' \notin {"build", "verify", "report", "exited", "crashed"}
  BY <1>1, <1>2 DEF FlowInv
<1>6. \A i \in Job : runs'[i] # "none" => runs'[i] = fut[i] /\ fut[i] \in Outcomes \ {"raise"}
  BY <1>1, <1>2 DEF FlowInv, TypeOK
<1>7. \A i \in Job : HasBinary(i)' = HasBinary(i)
  BY <1>1 DEF HasBinary
<1>8. ~skipSim /\ \A i \in Job : fut[i] # "none" <=> HasBinary(i)
  BY <1>1 DEF FlowInv
<1>9. \A k \in KernelSet : checked'[k] => stage' # "build" /\ (unsafe'[k] <=> isUnsafe'[k])
  BY <1>1, <1>5 DEF FlowInv
<1> QED BY <1>1, <1>2, <1>4, <1>5, <1>6, <1>7, <1>8, <1>9 DEF FlowInv, Reported

(***************************************************************************)
(* A step of main after the simulations, which changes its place and the   *)
(* exit status only.                                                       *)
(***************************************************************************)
LEMMA LateStep ==
    ASSUME FlowInv, UNCHANGED <<skipSim, step, elf, isUnsafe, json, checked, unsafe, poolVars>>,
           stage \in {"simulate", "unwinding", "report"},
           stage' \in {"report", "exited", "crashed"}, exit' \in {-1, 0, 1},
           exit' # -1 => stage' # "report" /\ (exit' = 0 => ~SomeUnsafe),
           stage' # "crashed" => AllCollected, stage' = "crashed" => PoolIdle
    PROVE  FlowInv'
<1>1. fut' = fut /\ runs' = runs
  BY DEF poolVars
<1>2. TypeOK'
  BY <1>1 DEF FlowInv, TypeOK
<1>3. \A i \in Job : HasBinary(i)' = HasBinary(i)
  BY DEF HasBinary
<1>4. AllCollected' = AllCollected /\ SomeUnsafe' = SomeUnsafe /\ PoolIdle' = PoolIdle
  BY <1>1, <1>3 DEF AllCollected, SomeUnsafe, PoolIdle
<1>5. ~skipSim
  BY DEF FlowInv
<1> QED BY <1>1, <1>2, <1>3, <1>4, <1>5 DEF FlowInv, Reported

LEMMA LeavePoolFlow == FlowInv /\ LeavePool => FlowInv'
<1> SUFFICES ASSUME FlowInv, LeavePool PROVE FlowInv'
  OBVIOUS
<1>1. exit' = -1 /\ exit' \in {-1, 0, 1}
  BY DEF FlowInv, LeavePool
<1> QED BY <1>1, LateStep DEF LeavePool

LEMMA CrashFlow == FlowInv /\ Crash => FlowInv'
BY LateStep DEF Crash

LEMMA ReportFlow == FlowInv /\ Report => FlowInv'
<1> SUFFICES ASSUME FlowInv, Report PROVE FlowInv'
  OBVIOUS
<1>1. exit' \in {-1, 0, 1} /\ (exit' = 0 => ~SomeUnsafe)
  BY DEF Report
<1>2. AllCollected
  BY DEF FlowInv, Report
<1> QED BY <1>1, <1>2, LateStep DEF Report

\* Before the pool there is nothing to wait for, and after it nothing any more.
LEMMA AbortFlow == FlowInv /\ Abort => FlowInv'
<1> SUFFICES ASSUME FlowInv, Abort PROVE FlowInv'
  OBVIOUS
<1>1. /\ stage \in {"build", "verify", "report"} /\ stage' = "crashed" /\ exit' = 1
      /\ UNCHANGED <<skipSim, step, elf, isUnsafe, json, checked, unsafe, poolVars>>
  BY DEF Abort
<1>2. fut' = fut /\ runs' = runs
  BY <1>1 DEF poolVars
<1>3. TypeOK'
  BY <1>1, <1>2 DEF FlowInv, TypeOK
<1>4. ASSUME NEW j \in Job PROVE fut[j] \notin Pending
  <2>1. CASE stage = "report"
    <3>1. fut[j] = "none" \/ HasBinary(j)
      BY <2>1 DEF FlowInv
    <3>2. HasBinary(j) => runs[j] # "none"
      BY <2>1 DEF FlowInv, AllCollected
    <3> QED BY <3>1, <3>2, OutcomesApart DEF FlowInv, Pending
  <2>2. CASE stage # "report"
    <3>1. fut[j] = "none"
      BY <1>1, <2>2 DEF FlowInv
    <3> QED BY <3>1 DEF Pending
  <2> QED BY <2>1, <2>2
<1>5. PoolIdle'
  BY <1>2, <1>4 DEF PoolIdle
<1> QED BY <1>1, <1>2, <1>3, <1>5 DEF FlowInv, Reported

\* Every step of main and the pool preserves the invariant.
LEMMA FlowStep == FlowInv /\ [Next]_vars => FlowInv'
<1> SUFFICES ASSUME FlowInv, [Next]_vars PROVE FlowInv'
  OBVIOUS
<1>1. CASE UNCHANGED vars
  <2>1. /\ skipSim' = skipSim /\ stage' = stage /\ step' = step /\ elf' = elf
        /\ isUnsafe' = isUnsafe /\ json' = json /\ checked' = checked /\ unsafe' = unsafe
        /\ fut' = fut /\ runs' = runs /\ exit' = exit
    BY <1>1 DEF vars
  <2>2. \A j \in Job : fut'[j] # fut[j] => fut[j] \in Pending /\ fut'[j] # "none"
    BY <2>1
  <2>3. fut' \in [Job -> Outcomes \cup Pending \cup {"none"}]
    BY <2>1 DEF FlowInv, TypeOK
  <2> QED BY <2>1, <2>2, <2>3, PoolStep
<1>2. CASE Main
  BY <1>2, BuildFlow, BuildsDoneFlow, ValidateFlow, ReturnEarlyFlow, SubmitFlow, CollectFlow,
     LeavePoolFlow, CrashFlow, ReportFlow, AbortFlow DEF Main
<1> QED BY <1>1, <1>2, StartJobFlow, FinishJobFlow DEF Next

\* The safety part of the specification.
LEMMA SafetyOfFlow == Spec => Init /\ [][Next]_vars
BY PTL DEF Spec

(***************************************************************************)
(* The flow's inductive invariant: records are the simulations' own, and   *)
(* the verdicts main remembers are the checker's.                          *)
(***************************************************************************)
THEOREM FlowInvariance == Spec => []FlowInv
BY InitFlow, FlowStep, SafetyOfFlow, PTL

\* The flow's variables keep their types.
THEOREM FlowIsTyped == Spec => []TypeOK
<1>1. FlowInv => TypeOK
  BY DEF FlowInv
<1> QED BY <1>1, FlowInvariance, PTL

(***************************************************************************)
(* Exit status 0 vouches for every binary the checker has judged.          *)
(***************************************************************************)
THEOREM ExitIsTruthful == Spec => []ExitReflectsChecker
<1>1. FlowInv => ExitReflectsChecker
  BY DEF FlowInv, ExitReflectsChecker, SomeUnsafe
<1> QED BY <1>1, FlowInvariance, PTL

(***************************************************************************)
(* main never returns, or dies of an exception, while a simulation is      *)
(* queued or runs.                                                         *)
(***************************************************************************)
THEOREM NoSimulationOutlivesMain == Spec => []NoOrphans
<1>1. FlowInv => NoOrphans
  <2> SUFFICES ASSUME FlowInv, stage = "exited", NEW j \in Job, fut[j] \in Pending PROVE FALSE
    BY DEF NoOrphans, Returned, PoolIdle, FlowInv
  <2>1. fut[j] # "none"
    BY DEF Pending
  <2>2. HasBinary(j) /\ ~skipSim
    BY <2>1 DEF FlowInv
  <2>3. runs[j] # "none"
    BY <2>2 DEF FlowInv, Reported, AllCollected
  <2> QED BY <2>3, OutcomesApart DEF FlowInv
<1> QED BY <1>1, FlowInvariance, PTL

(***************************************************************************)
(* A report that is written holds the outcome of every simulation that     *)
(* was submitted, and of no other.                                         *)
(***************************************************************************)
THEOREM ReportHoldsEveryOutcome == Spec => []ReportIsComplete
<1>1. FlowInv => ReportIsComplete
  <2> SUFFICES ASSUME FlowInv, Reported, NEW j \in Job
               PROVE  runs[j] = fut[j] /\ (HasBinary(j) <=> runs[j] # "none") /\ runs[j] # "raise"
    BY DEF ReportIsComplete
  <2>1. /\ runs[j] # "none" => runs[j] = fut[j] /\ fut[j] \in Outcomes \ {"raise"}
        /\ fut[j] # "none" <=> HasBinary(j)
        /\ HasBinary(j) => runs[j] # "none"
    BY DEF FlowInv, Reported, AllCollected
  <2> QED BY <2>1, OutcomesApart
<1> QED BY <1>1, FlowInvariance, PTL

\* Two different checksums are more than one.
LEMMA ChecksumsDiffer ==
    ASSUME NEW k, NEW a \in ChecksumsOf(k), NEW b \in ChecksumsOf(k), a # b
    PROVE  Cardinality(ChecksumsOf(k)) # 1
<1> DEFINE R(r) == runs[<<k, RunNames[r]>>]
           S == {R(r) : r \in 1..3}
<1>1. S = {R(1), R(2), R(3)}
  <2>1. 1..3 = {1, 2, 3}
    OBVIOUS
  <2> QED BY <2>1
<1>2. IsFiniteSet({R(1), R(2), R(3)})
  <2>1. IsFiniteSet({R(1)})
    BY FS_Singleton
  <2>2. IsFiniteSet({R(1)} \cup {R(2)})
    BY <2>1, FS_AddElement
  <2>3. IsFiniteSet(({R(1)} \cup {R(2)}) \cup {R(3)})
    BY <2>2, FS_AddElement
  <2>4. {R(1), R(2), R(3)} = ({R(1)} \cup {R(2)}) \cup {R(3)}
    OBVIOUS
  <2> QED BY <2>3, <2>4
<1>3. ChecksumsOf(k) \subseteq S
  BY DEF ChecksumsOf
<1> HIDE DEF S
<1>4. IsFiniteSet(ChecksumsOf(k))
  BY <1>1, <1>2, <1>3, FS_Subset
<1> QED BY <1>4, FS_Singleton

(***************************************************************************)
(* Whatever the order of completion, a kernel with two checksums, or whose *)
(* binary the checker found unsafe, is reported as not ok.                 *)
(***************************************************************************)
THEOREM MismatchNeverHidden == Spec => []MismatchIsReported
<1>1. FlowInv => MismatchIsReported
  <2> SUFFICES ASSUME FlowInv, Reported, NEW k \in KernelSet,
                      \/ isUnsafe[k] /\ checked[k]
                      \/ \E r, s \in 1..3 :
                           LET a == fut[<<k, RunNames[r]>>]  b == fut[<<k, RunNames[s]>>] IN
                           a \in Checksums /\ b \in Checksums /\ a # b
               PROVE  ~Ok(k)
    BY DEF MismatchIsReported
  <2>1. CASE isUnsafe[k] /\ checked[k]
    BY <2>1 DEF FlowInv, Ok
  <2>2. CASE \E r, s \in 1..3 :
               LET a == fut[<<k, RunNames[r]>>]  b == fut[<<k, RunNames[s]>>] IN
               a \in Checksums /\ b \in Checksums /\ a # b
    <3>1. PICK r \in 1..3, s \in 1..3 :
             /\ fut[<<k, RunNames[r]>>] \in Checksums /\ fut[<<k, RunNames[s]>>] \in Checksums
             /\ fut[<<k, RunNames[r]>>] # fut[<<k, RunNames[s]>>]
      BY <2>2
    <3>2. ASSUME NEW q \in 1..3, fut[<<k, RunNames[q]>>] \in Checksums
          PROVE  fut[<<k, RunNames[q]>>] \in ChecksumsOf(k)
      <4>1. <<k, RunNames[q]>> \in Job
        BY DEF Job
      <4>2. fut[<<k, RunNames[q]>>] # "none"
        BY <3>2, ChecksumsAssumption
      <4>3. runs[<<k, RunNames[q]>>] = fut[<<k, RunNames[q]>>]
        <5>1. HasBinary(<<k, RunNames[q]>>)
          BY <4>1, <4>2 DEF FlowInv, Reported
        <5> QED BY <4>1, <4>2, <5>1 DEF FlowInv, AllCollected, Reported
      <4> QED BY <3>2, <4>3 DEF ChecksumsOf
    <3>3. Cardinality(ChecksumsOf(k)) # 1
      BY <3>1, <3>2, ChecksumsDiffer
    <3> QED BY <3>3 DEF Ok
  <2> QED BY <2>1, <2>2
<1> QED BY <1>1, FlowInvariance, PTL
=============================================================================
