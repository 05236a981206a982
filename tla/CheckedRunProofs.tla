--------------------------- MODULE CheckedRunProofs ---------------------------
(***************************************************************************)
(* Proofs about the cores and about verify_fix.sh, for every binary,       *)
(* register file, meaning of the instructions, choice of targets and       *)
(* choice of the fetch unit.  First the cores on their own: a program      *)
(* whose bundles all keep the contract runs on the STARBUG core as it does *)
(* on a stock core.  Then the script: what it accepts keeps the contract,  *)
(* because the checker's verdict is exact (BundleCheckerProofs).           *)
(***************************************************************************)
EXTENDS CheckedRun, BundleCheckerProofs

\* What an instruction of a program is.
LEMMA InstrType ==
    ASSUME NEW p \in Programs, NEW i \in 1..Len(p)
    PROVE  /\ p \in Seq(Insn) /\ p[i] \in Insn
           /\ p[i].reads \subseteq Reg /\ p[i].writes \subseteq Reg
           /\ DeclaredLen(p[i]) \in Nat
  <1>1. p \in Seq(Insn)
    BY ProgramsAssumption
  <1>2. p[i] \in Insn
    BY <1>1
  <1>3. p[i] \in InsnFields
    BY <1>2 DEF Insn
  <1>4. p[i].reads \subseteq Reg /\ p[i].writes \subseteq Reg /\ p[i].hint \in Nat
    <2>1. p[i].reads \in SUBSET Reg /\ p[i].writes \in SUBSET Reg /\ p[i].hint \in 0..MAX_HINT
      BY <1>3, Zenon DEF InsnFields
    <2>2. 0..MAX_HINT \subseteq Nat
      BY DEF MAX_HINT
    <2> QED
      BY <2>1, <2>2, Zenon
  <1>5. DeclaredLen(p[i]) \in Nat
    BY <1>4 DEF DeclaredLen
  <1> QED
    BY <1>1, <1>2, <1>4, <1>5

\* The members of a live hint of a safe program, one fact per rule.
LEMMA SafeMembers ==
    ASSUME NEW p \in Programs, ContractSafe(p), NEW h \in 1..Len(p), Live(p, h)
    PROVE  /\ DeclaredLen(p[h]) \in 1..MAX_BUNDLE
           /\ Members(p, h) = (h + 1)..(h + DeclaredLen(p[h]))
           /\ h + 1 \in Members(p, h)
           /\ BundleEnd(p, h) = h + DeclaredLen(p[h]) + 1
           /\ BundleEnd(p, h) \in (h + 2)..(Len(p) + 1)
           /\ \A j \in Members(p, h) :
                /\ j \in 1..Len(p)
                /\ is_lane0_only(p[j]) => j = h + 1
                /\ p[j].cls \notin Control
           /\ \A j \in Members(p, h), k \in Members(p, h) :
                j < k => ~RAW(p[j], p[k]) /\ ~WAW(p[j], p[k])
           /\ IsHintInsn(p[h])
  <1>1. Len(p) \in Nat /\ p[h] \in Insn /\ DeclaredLen(p[h]) \in 1..MAX_BUNDLE
    BY InstrType, ProgramsAssumption DEF Live
  <1>2. SafeBundle(p, h) /\ \A j \in Members(p, h) : p[j].cls \notin Control
    BY DEF ContractSafe
  <1>3. Members(p, h) = (h + 1)..(h + DeclaredLen(p[h]))
    BY DEF Members
  <1>4. Members(p, h) \subseteq 1..Len(p)
    BY <1>2 DEF SafeBundle
  <1>5. h + 1 \in Members(p, h) /\ h + DeclaredLen(p[h]) \in Members(p, h)
    BY <1>1, <1>3 DEF MAX_BUNDLE
  <1>6. IsHintInsn(p[h])
    BY <1>1 DEF DeclaredLen, Insn
  <1>7. BundleEnd(p, h) \in (h + 2)..(Len(p) + 1)
    BY <1>1, <1>4, <1>5 DEF BundleEnd, MAX_BUNDLE
  <1> QED
    BY <1>1, <1>2, <1>3, <1>4, <1>5, <1>6, <1>7 DEF SafeBundle, BundleEnd

\* Within a safe bundle a location that one member writes is neither read nor
\* written by a later one; memory and CSRs are touched by lane 0 only.
LEMMA NoConflict ==
    ASSUME NEW p \in Programs, ContractSafe(p), NEW h \in 1..Len(p), Live(p, h),
           NEW j \in Members(p, h), NEW k \in Members(p, h), j < k,
           NEW l \in Outputs(p, j)
    PROVE  l \notin Inputs(p, k) /\ l \notin Outputs(p, k)
  <1>1. ~RAW(p[j], p[k]) /\ ~WAW(p[j], p[k])
    BY SafeMembers
  <1>2. h + 1 \in Int /\ j \in Int /\ k \in Int /\ h + 1 =< j
    BY SafeMembers
  <1>3. ~is_lane0_only(p[k])
    BY <1>2, SafeMembers
  <1>4. p[k].cls \notin EnvReaders /\ p[k].cls \notin EnvWriters
    BY <1>3 DEF is_lane0_only, LANE0_ONLY, EnvReaders, EnvWriters
  <1>5. p[k].reads \subseteq Reg /\ p[k].writes \subseteq Reg
    BY SafeMembers, InstrType
  <1>6. Inputs(p, k) = p[k].reads /\ Outputs(p, k) = p[k].writes
    BY <1>4 DEF Inputs, Outputs
  <1>7. CASE l = Env
    BY <1>5, <1>6, <1>7, EnvAssumption
  <1>8. CASE l # Env
    <2>1. l \in p[j].writes
      BY <1>8 DEF Outputs
    <2> QED
      BY <2>1, <1>1, <1>6 DEF RAW, WAW
  <1> QED
    BY <1>7, <1>8

\* What an instruction reads and writes are locations.
LEMMA InputsAreLocations ==
    ASSUME NEW p \in Programs, NEW i \in 1..Len(p)
    PROVE  Inputs(p, i) \subseteq Loc /\ Outputs(p, i) \subseteq Loc
  BY InstrType DEF Inputs, Outputs, Loc

\* Two states caught up to the same point from the same state are equal.
LEMMA CaughtUpUnique ==
    ASSUME NEW p, NEW h, NEW pc, NEW b,
           NEW s, s = [l \in Loc |-> s[l]], NEW t, t = [l \in Loc |-> t[l]],
           CaughtUp(p, h, pc, s, b), CaughtUp(p, h, pc, t, b)
    PROVE  s = t
  <1>1. SUFFICES ASSUME NEW l \in Loc PROVE s[l] = t[l]
    BY Zenon
  <1>2. CASE \E j \in (h + 1)..(pc - 1) : l \in Outputs(p, j)
    BY <1>2, Zenon DEF CaughtUp
  <1>3. CASE \A j \in (h + 1)..(pc - 1) : l \notin Outputs(p, j)
    BY <1>3, Zenon DEF CaughtUp
  <1> QED
    BY <1>2, <1>3, Zenon

\* The instructions of a safe bundle, and its hint, fall through.
LEMMA FallsThrough ==
    ASSUME NEW p \in Programs, ContractSafe(p), NEW h \in 1..Len(p), Live(p, h),
           NEW i \in {h} \cup Members(p, h)
    PROVE  Successors(p, i) = {i + 1}
  <1>1. p[i].cls \notin Control
    BY SafeMembers DEF IsHintInsn, Control
  <1> QED
    BY <1>1 DEF Successors, Control

\* The hint itself changes nothing.
LEMMA HintIsNop ==
    ASSUME NEW p \in Programs, ContractSafe(p), NEW h \in 1..Len(p), Live(p, h),
           NEW s, s = [l \in Loc |-> s[l]]
    PROVE  After(p, h, s) = s
  <1>1. Outputs(p, h) = {}
    BY SafeMembers DEF IsHintInsn, Outputs, EnvWriters
  <1>2. After(p, h, s) = [l \in Loc |-> s[l]]
    BY <1>1 DEF After
  <1> QED
    BY <1>2

\* One more member executed: its inputs are still those of the common state,
\* and what it writes no earlier member wrote.
LEMMA OneMember ==
    ASSUME NEW p \in Programs, ContractSafe(p), NEW h \in 1..Len(p), Live(p, h),
           NEW k \in Members(p, h), NEW s, NEW b, CaughtUp(p, h, k, s, b)
    PROVE  CaughtUp(p, h, k + 1, After(p, k, s), b)
  <1>1. /\ h \in Nat /\ k \in Nat /\ k \in 1..Len(p)
        /\ Members(p, h) = (h + 1)..(h + DeclaredLen(p[h]))
        /\ DeclaredLen(p[h]) \in Nat
    BY SafeMembers, InstrType
  <1>2. /\ \A j \in (h + 1)..(k - 1) : j \in Members(p, h) /\ j < k
        /\ (h + 1)..((k + 1) - 1) = ((h + 1)..(k - 1)) \cup {k}
    BY <1>1
  <1>3. \A x \in Inputs(p, k) : s[x] = b[x]
    <2>1. SUFFICES ASSUME NEW x \in Inputs(p, k) PROVE s[x] = b[x]
      OBVIOUS
    <2>2. \A j \in (h + 1)..(k - 1) : x \notin Outputs(p, j)
      BY <1>2, NoConflict
    <2>3. x \in Loc
      BY <1>1, InputsAreLocations
    <2> QED
      BY <2>2, <2>3 DEF CaughtUp
  <1>4. \A l : Result(p, k, l, s) = Result(p, k, l, b)
    <2>1. [x \in Inputs(p, k) |-> s[x]] = [x \in Inputs(p, k) |-> b[x]]
      BY <1>3
    <2> QED
      BY <2>1, Zenon DEF Result
  <1>5. SUFFICES ASSUME NEW l \in Loc
        PROVE  /\ \A j \in (h + 1)..((k + 1) - 1) :
                    l \in Outputs(p, j) => After(p, k, s)[l] = Result(p, j, l, b)
               /\ (\A j \in (h + 1)..((k + 1) - 1) : l \notin Outputs(p, j))
                    => After(p, k, s)[l] = b[l]
    BY Zenon DEF CaughtUp
  <1>6. CASE l \in Outputs(p, k)
    <2>1. After(p, k, s)[l] = Result(p, k, l, b)
      BY <1>4, <1>6, Zenon DEF After
    <2>2. \A j \in (h + 1)..(k - 1) : l \notin Outputs(p, j)
      BY <1>2, <1>6, NoConflict
    <2> QED
      BY <2>1, <2>2, <1>2, <1>6
  <1>7. CASE l \notin Outputs(p, k)
    <2>1. After(p, k, s)[l] = s[l]
      BY <1>7, Zenon DEF After
    <2> QED
      BY <2>1, <1>2, <1>7, Zenon DEF CaughtUp
  <1> QED
    BY <1>6, <1>7

\* All lanes of a safe bundle commit and no location has two writers, so the
\* state after the one cycle is the common state after every member.
LEMMA BundleInOneCycle ==
    ASSUME NEW p \in Programs, ContractSafe(p), NEW h \in 1..Len(p), Live(p, h),
           NEW w \in [Loc -> Members(p, h)], NEW b,
           \A l \in Loc : Writers(p, h, l) # {} => w[l] \in Writers(p, h, l)
    PROVE  CaughtUp(p, h, BundleEnd(p, h), AfterBundle(p, h, w, b), b)
  <1>1. (h + 1)..(BundleEnd(p, h) - 1) = Members(p, h)
    BY SafeMembers DEF MAX_BUNDLE
  <1>2. Commits(p, h) = Members(p, h)
    BY SafeMembers DEF Commits
  <1>3. ASSUME NEW l \in Loc, NEW j \in Members(p, h), NEW k \in Members(p, h),
               l \in Outputs(p, j), l \in Outputs(p, k)
        PROVE  j = k
    <2>1. j \in Int /\ k \in Int
      BY SafeMembers
    <2>2. ~(j < k) /\ ~(k < j)
      BY <1>3, NoConflict
    <2> QED
      BY <2>1, <2>2
  <1>4. ASSUME NEW l \in Loc, NEW j \in Members(p, h), l \in Outputs(p, j)
        PROVE  AfterBundle(p, h, w, b)[l] = Result(p, j, l, b)
    <2>1. j \in Writers(p, h, l)
      BY <1>2, <1>4 DEF Writers
    <2>2. w[l] \in Members(p, h) /\ l \in Outputs(p, w[l])
      BY <2>1, <1>2 DEF Writers
    <2>3. w[l] = j
      BY <2>2, <1>3, <1>4
    <2> QED
      BY <2>1, <2>3, Zenon DEF AfterBundle
  <1>5. ASSUME NEW l \in Loc, \A j \in Members(p, h) : l \notin Outputs(p, j)
        PROVE  AfterBundle(p, h, w, b)[l] = b[l]
    <2>1. Writers(p, h, l) = {}
      BY <1>2, <1>5 DEF Writers
    <2> QED
      BY <2>1, Zenon DEF AfterBundle
  <1> QED
    BY <1>1, <1>4, <1>5, Zenon DEF CaughtUp

-----------------------------------------------------------------------------
\* A step of the scalar interpreter keeps a state a function on locations.
LEMMA AfterType ==
    ASSUME NEW p, NEW i, NEW s
    PROVE  After(p, i, s) = [l \in Loc |-> After(p, i, s)[l]]
  BY Zenon DEF After

\* So does the one cycle of a bundle.
LEMMA AfterBundleType ==
    ASSUME NEW p, NEW h, NEW w, NEW s
    PROVE  AfterBundle(p, h, w, s) = [l \in Loc |-> AfterBundle(p, h, w, s)[l]]
  BY Zenon DEF AfterBundle

\* Every successor of an instruction is an instruction or the end.
LEMMA SuccessorType ==
    ASSUME NEW p \in Programs, NEW i \in 1..Len(p)
    PROVE  Successors(p, i) \subseteq 1..(Len(p) + 1)
  <1>1. Len(p) \in Nat
    BY ProgramsAssumption
  <1>2. Targets(p, i) \subseteq 1..(Len(p) + 1)
    BY TargetsAssumption
  <1> QED
    BY <1>1, <1>2 DEF Successors

\* Both cores start in one state, outside of any bundle.
LEMMA InitCore == CoreInit => CoreInv
  <1> SUFFICES ASSUME CoreInit PROVE CoreInv
    OBVIOUS
  <1>1. Len(prog) \in Nat
    BY ProgramsAssumption DEF CoreInit
  <1>2. CoreTypeOK
    BY <1>1, InitStatesAssumption DEF CoreInit, CoreTypeOK
  <1> QED
    BY <1>2 DEF CoreInit, CoreInv, SameAsScalar, InSync

\* One instruction takes two equal states to two equal states.
LEMMA ScalarStepInv == CoreInv /\ ScalarStep => CoreInv'
  <1> SUFFICES ASSUME CoreInv, ScalarStep PROVE CoreInv'
    OBVIOUS
  <1> USE DEF InSync
  <1>1. /\ prog \in Programs /\ hpc = spc /\ hw = sc /\ issued = 0
        /\ Len(prog) \in Nat /\ hpc \in 1..Len(prog)
    BY ProgramsAssumption DEF CoreInv, ScalarStep, SameAsScalar, CoreTypeOK, Running
  <1>2. hw' = sc' /\ hpc' = spc' /\ issued' = 0 /\ hpc' \in 1..(Len(prog) + 1)
    BY <1>1, SuccessorType DEF ScalarStep
  <1>3. hw' = [l \in Loc |-> hw'[l]]
    BY AfterType, Zenon DEF ScalarStep
  <1>4. CoreTypeOK'
    BY <1>1, <1>2, <1>3 DEF CoreInv, CoreTypeOK, ScalarStep
  <1> QED
    BY <1>2, <1>4 DEF CoreInv, SameAsScalar

\* The cycle leaves the STARBUG core behind the bundle, the stock core in front of it.
LEMMA IssueBundleInv == ContractSafe(prog) /\ CoreInv /\ IssueBundle => CoreInv'
  <1> SUFFICES ASSUME ContractSafe(prog), CoreInv, IssueBundle PROVE CoreInv'
    OBVIOUS
  <1>1. /\ prog \in Programs /\ ContractSafe(prog)
        /\ hw = sc /\ hpc = spc /\ Len(prog) \in Nat /\ hpc \in 1..Len(prog)
        /\ Live(prog, hpc)
    BY ProgramsAssumption
       DEF CoreInv, IssueBundle, SameAsScalar, CoreTypeOK, Running, InSync
  <1>2. /\ issued' = hpc /\ base' = hw /\ prog' = prog /\ sc' = sc /\ spc' = spc
    BY DEF IssueBundle
  <1>3. Successors(prog, hpc + 1) = {hpc + 2}
    <2>1. hpc + 1 \in Members(prog, hpc)
      BY <1>1, SafeMembers
    <2>2. Successors(prog, hpc + 1) = {(hpc + 1) + 1}
      BY <1>1, <2>1, FallsThrough
    <2> QED
      BY <1>1, <2>2
  <1>4. decision' = hpc + 2 /\ hpc' = BundleEnd(prog, hpc)
    BY <1>3 DEF IssueBundle
  <1>5. PICK winner \in [Loc -> Members(prog, hpc)] :
          /\ \A l \in Loc : Writers(prog, hpc, l) # {} => winner[l] \in Writers(prog, hpc, l)
          /\ hw' = AfterBundle(prog, hpc, winner, hw)
    BY DEF IssueBundle
  <1>6. CaughtUp(prog, hpc, BundleEnd(prog, hpc), hw', hw)
    BY <1>1, <1>5, BundleInOneCycle
  <1>7. CaughtUp(prog, hpc, spc, sc, hw)
    BY <1>1 DEF CaughtUp
  <1>8. hw' = [l \in Loc |-> hw'[l]]
    BY <1>5, AfterBundleType, Zenon
  <1>9. BundleEnd(prog, hpc) \in (hpc + 2)..(Len(prog) + 1)
    BY <1>1, SafeMembers
  <1>10. CoreTypeOK'
    BY <1>1, <1>2, <1>4, <1>8, <1>9 DEF CoreInv, CoreTypeOK
  <1>11. InBundle(spc)'
    BY <1>1, <1>2 DEF InBundle
  <1> QED
    BY <1>1, <1>2, <1>4, <1>6, <1>7, <1>10, <1>11 DEF CoreInv, SameAsScalar, InSync

\* The stock core executes one more member, or leaves the bundle and the states meet.
LEMMA CatchUpInv == ContractSafe(prog) /\ CoreInv /\ CatchUp => CoreInv'
  <1> SUFFICES ASSUME ContractSafe(prog), CoreInv, CatchUp PROVE CoreInv'
    OBVIOUS
  <1> DEFINE h == issued
  <1> HIDE DEF h
  <1>1. /\ prog \in Programs /\ ContractSafe(prog) /\ Len(prog) \in Nat
        /\ h \in 1..Len(prog) /\ Live(prog, h) /\ issued # 0
        /\ hpc = BundleEnd(prog, h) /\ decision = h + 2
        /\ CaughtUp(prog, h, spc, sc, base) /\ CaughtUp(prog, h, hpc, hw, base)
        /\ spc \in {h} \cup Members(prog, h)
    BY ProgramsAssumption DEF CoreInv, CatchUp, CoreTypeOK, InSync, InBundle, h
  <1>2. /\ Members(prog, h) = (h + 1)..(h + DeclaredLen(prog[h]))
        /\ DeclaredLen(prog[h]) \in Nat \ {0}
        /\ hpc = h + DeclaredLen(prog[h]) + 1
        /\ hpc \in 1..(Len(prog) + 1)
    <2>1. /\ Members(prog, h) = (h + 1)..(h + DeclaredLen(prog[h]))
          /\ DeclaredLen(prog[h]) \in 1..MAX_BUNDLE
          /\ hpc = h + DeclaredLen(prog[h]) + 1
          /\ hpc \in (h + 2)..(Len(prog) + 1)
      BY <1>1, SafeMembers
    <2>2. h + 2 >= 1 /\ Len(prog) + 1 \in Int /\ h + 2 \in Int
      BY <1>1
    <2> QED
      BY <2>1, <2>2 DEF MAX_BUNDLE
  <1>3. spc' = spc + 1
    <2>1. Successors(prog, spc) = {spc + 1}
      BY <1>1, FallsThrough
    <2>2. spc = h + 1 => decision = spc + 1
      BY <1>1, <1>2
    <2> QED
      BY <2>1, <2>2 DEF CatchUp, h
  <1>4. CaughtUp(prog, h, spc', sc', base)
    <2>1. CASE spc = h
      <3>1. sc' = sc
        BY <1>1, <2>1, HintIsNop DEF CatchUp, CoreInv, CoreTypeOK
      <3>2. (h + 1)..(spc' - 1) = {} /\ (h + 1)..(spc - 1) = {}
        BY <1>1, <1>3, <2>1
      <3> QED
        BY <1>1, <3>1, <3>2, Zenon DEF CaughtUp
    <2>2. CASE spc \in Members(prog, h)
      <3>1. CaughtUp(prog, h, spc + 1, After(prog, spc, sc), base)
        BY <1>1, <2>2, OneMember
      <3> QED
        BY <3>1, <1>3 DEF CatchUp
    <2> QED
      BY <2>1, <2>2, <1>1
  <1>5. prog' = prog /\ hw' = hw /\ hpc' = hpc /\ base' = base /\ decision' = decision
    BY DEF CatchUp
  <1>6. sc' = [l \in Loc |-> sc'[l]] /\ hw = [l \in Loc |-> hw[l]]
    <2>1. sc' = After(prog, spc, sc)
      BY DEF CatchUp
    <2>2. hw = [l \in Loc |-> hw[l]]
      BY DEF CoreInv, CoreTypeOK
    <2>3. After(prog, spc, sc) = [l \in Loc |-> After(prog, spc, sc)[l]]
      BY AfterType, Zenon
    <2>4. sc' = [l \in Loc |-> sc'[l]]
      BY <2>1, <2>3, Zenon
    <2> QED
      BY <2>2, <2>4, Zenon
  <1>7. spc' \in 1..(Len(prog) + 1)
    BY <1>1, <1>2, <1>3
  <1>8. CASE spc' \in {h} \cup Members(prog, h)
    <2>1. issued' = h /\ InBundle(spc)'
      BY <1>5, <1>8 DEF CatchUp, InBundle, h
    <2>2. CoreTypeOK'
      BY <1>1, <1>5, <1>6, <1>7, <2>1 DEF CoreInv, CoreTypeOK, h
    <2> QED
      BY <1>1, <1>4, <1>5, <2>1, <2>2 DEF CoreInv, SameAsScalar, InSync
  <1>9. CASE spc' \notin {h} \cup Members(prog, h)
    <2>1. issued' = 0
      BY <1>9 DEF CatchUp, InBundle, h
    <2>2. spc' = hpc
      <3> DEFINE n == DeclaredLen(prog[h])
      <3>1. h \in Nat /\ n \in Nat \ {0} /\ hpc = h + n + 1
        BY <1>1, <1>2
      <3>2. spc \in h..(h + n) /\ spc' \notin h..(h + n)
        BY <1>1, <1>2, <1>9, <3>1
      <3> HIDE DEF n
      <3> QED
        BY <3>1, <3>2, <1>3
    <2>3. sc' = hw
      BY <1>1, <1>4, <1>6, <2>2, CaughtUpUnique
    <2>4. CoreTypeOK'
      BY <1>1, <1>5, <1>6, <1>7, <2>1 DEF CoreInv, CoreTypeOK
    <2> QED
      BY <1>5, <2>1, <2>2, <2>3, <2>4 DEF CoreInv, SameAsScalar, InSync
  <1> QED
    BY <1>8, <1>9

\* Every step of a safe program preserves the invariant.
LEMMA CoreStep == ContractSafe(prog) /\ CoreInv /\ [CoreNext]_coreVars => CoreInv'
  <1> SUFFICES ASSUME ContractSafe(prog), CoreInv, [CoreNext]_coreVars PROVE CoreInv'
    OBVIOUS
  <1>1. CASE ScalarStep
    BY <1>1, ScalarStepInv
  <1>2. CASE IssueBundle
    BY <1>2, IssueBundleInv
  <1>3. CASE CatchUp
    BY <1>3, CatchUpInv
  <1>4. CASE UNCHANGED coreVars
    BY <1>4 DEF coreVars, CoreInv, CoreTypeOK, SameAsScalar, InSync, InBundle, CaughtUp
  <1> QED
    BY <1>1, <1>2, <1>3, <1>4 DEF CoreNext, Halted

\* The inductive invariant of the two cores holds of safe programs.
THEOREM CoreInvariance == CoreSpec => [](ContractSafe(prog) => CoreInv)
  <1>1. CoreInit => (ContractSafe(prog) => CoreInv)
    BY InitCore
  <1>2. (ContractSafe(prog) => CoreInv) /\ [CoreNext]_coreVars => (ContractSafe(prog) => CoreInv)'
    <2>1. [CoreNext]_coreVars => prog' = prog
      BY DEF CoreNext, coreVars, ScalarStep, IssueBundle, CatchUp, Halted
    <2> QED
      BY <2>1, CoreStep
  <1> QED
    BY <1>1, <1>2, PTL DEF CoreSpec

\* The variables of both cores keep their types: no safe program runs off its end.
THEOREM CoreIsTyped == CoreSpec => [](ContractSafe(prog) => CoreTypeOK)
  <1>1. CoreInv => CoreTypeOK
    BY DEF CoreInv
  <1> QED
    BY <1>1, CoreInvariance, PTL

(***************************************************************************)
(* The contract is sufficient: if every live hint of the program leads a   *)
(* safe bundle without control transfers, the STARBUG core is always in    *)
(* the state of the stock core, whichever bundles it issues or declines.   *)
(***************************************************************************)
THEOREM ContractSuffices == CoreSpec => [](ContractSafe(prog) => SameAsScalar)
  <1>1. CoreInv => SameAsScalar
    BY DEF CoreInv
  <1> QED
    BY <1>1, CoreInvariance, PTL

-----------------------------------------------------------------------------

LEMMA RunInitInv == RunInit => RunInv
<1> SUFFICES ASSUME RunInit PROVE RunInv
  OBVIOUS
<1>1. CheckInv
  BY CheckInit, ListingsAssumption DEF RunInit, CheckerInit
<1>2. CoreInv
  BY InitCore DEF RunInit
<1>3. insns = prog /\ at = "build" /\ fail = FALSE /\ status = -1
  BY DEF RunInit
<1>4. at \in {"build", "step1", "run", "step3", "exited"} /\ at \notin {"run", "step3"}
  BY <1>3
<1>5. PassedMeansSame
  BY <1>3 DEF PassedMeansSame
<1> QED BY <1>1, <1>2, <1>3, <1>4, <1>5, Zenon DEF RunInv

\* What the cores do is a step of theirs, and it keeps the binary.
LEMMA CoresStep ==
    ASSUME RunInv, [CoreNext]_coreVars
    PROVE  prog' = prog /\ (ContractSafe(prog) => CoreInv)'
<1>1. prog' = prog
  BY DEF CoreNext, coreVars, ScalarStep, IssueBundle, CatchUp, Halted
<1> QED BY <1>1, CoreStep DEF RunInv

\* A step of the checker keeps the listing.
LEMMA CheckerStep ==
    ASSUME RunInv, [CheckerNext]_checkerVars
    PROVE  insns' = insns /\ CheckInv'
<1>1. insns' = insns
  BY DEF CheckerNext, checkerVars, StepOver, TakeBundle, Report, Exited
<1> QED BY <1>1, CheckStep DEF RunInv

\* Every step of the script preserves the invariant.
LEMMA RunStep == RunInv /\ [RunNext]_runVars => RunInv'
<1> SUFFICES ASSUME RunInv, [RunNext]_runVars PROVE RunInv'
  OBVIOUS
<1>1. CASE Build
  <2>1. UNCHANGED coreVars /\ UNCHANGED checkerVars
    BY <1>1 DEF Build
  <2>2. prog' = prog /\ insns' = insns /\ exit' = exit /\ hw' = hw /\ sc' = sc
    BY <2>1 DEF coreVars, checkerVars
  <2> QED BY <1>1, <2>1, <2>2, CoresStep, CheckerStep DEF Build, RunInv, PassedMeansSame
<1>2. CASE RunChecker
  <2>1. UNCHANGED coreVars /\ [CheckerNext]_checkerVars
    BY <1>2 DEF RunChecker, CheckerNext
  <2>2. prog' = prog
    BY <2>1 DEF coreVars
  <2>3. UNCHANGED scriptVars /\ at = "step1"
    BY <1>2 DEF RunChecker
  <2> QED BY <2>1, <2>2, <2>3, CoresStep, CheckerStep DEF scriptVars, RunInv, PassedMeansSame
<1>3. CASE Step1
  <2>1. UNCHANGED coreVars /\ UNCHANGED checkerVars
    BY <1>3 DEF Step1
  <2>2. prog' = prog /\ insns' = insns /\ exit' = exit /\ hw' = hw /\ sc' = sc
    BY <2>1 DEF coreVars, checkerVars
  <2> QED BY <1>3, <2>1, <2>2, CoresStep, CheckerStep DEF Step1, RunInv, PassedMeansSame
<1>4. CASE Run
  <2>1. UNCHANGED checkerVars /\ [CoreNext]_coreVars
    BY <1>4 DEF Run, CoreNext
  <2>2. insns' = insns /\ exit' = exit
    BY <2>1 DEF checkerVars
  <2>3. UNCHANGED scriptVars /\ at = "run"
    BY <1>4 DEF Run
  <2> QED BY <2>1, <2>2, <2>3, CoresStep, CheckerStep DEF scriptVars, RunInv, PassedMeansSame
<1>5. CASE Step2
  <2>1. UNCHANGED coreVars /\ UNCHANGED checkerVars
    BY <1>5 DEF Step2
  <2>2. prog' = prog /\ insns' = insns /\ exit' = exit /\ hw' = hw /\ sc' = sc
    BY <2>1 DEF coreVars, checkerVars
  <2>3. fail' \in BOOLEAN /\ (fail => fail')
    BY <1>5 DEF Step2
  <2> QED BY <1>5, <2>1, <2>2, <2>3, CoresStep, CheckerStep DEF Step2, RunInv, PassedMeansSame
<1>6. CASE Step3
  <2>1. UNCHANGED coreVars /\ UNCHANGED checkerVars
    BY <1>6 DEF Step3
  <2>2. prog' = prog /\ insns' = insns /\ exit' = exit /\ hw' = hw /\ sc' = sc
    BY <2>1 DEF coreVars, checkerVars
  <2>3. /\ rtl' \in {<<hw>>, <<>>} /\ spk' \in {<<sc>>, <<>>} /\ at = "step3"
        /\ fail' = (fail \/ rtl' # spk')
        /\ status' = IF fail' THEN 1 ELSE 0
        /\ at' = "exited"
    BY <1>6 DEF Step3
  <2>4. PassedMeansSame'
    <3> SUFFICES ASSUME status' = 0
                 PROVE  exit' = 0 /\ (spk' # <<>> => hw' = sc')
      BY DEF PassedMeansSame
    <3>1. ~fail' /\ ~fail /\ rtl' = spk'
      <4>1. ~fail'
        BY <2>3
      <4> QED BY <2>3, <4>1, Zenon
    <3>2. exit' = 0
      BY <2>2, <2>3, <3>1 DEF RunInv
    <3>3. ASSUME spk' # <<>> PROVE hw = sc
      <4>1. <<hw>> = <<sc>> \/ <<>> = <<sc>>
        BY <2>3, <3>1, <3>3
      <4>2. <<>> # <<sc>>
        BY Len(<<>>) # Len(<<sc>>)
      <4> QED BY <4>1, <4>2
    <3> QED BY <2>2, <3>2, <3>3
  <2> QED BY <2>1, <2>2, <2>3, <2>4, CoresStep, CheckerStep DEF RunInv
<1>7. CASE UNCHANGED runVars
  <2>1. UNCHANGED coreVars /\ UNCHANGED checkerVars /\ UNCHANGED scriptVars
    BY <1>7 DEF runVars
  <2>2. prog' = prog /\ insns' = insns /\ exit' = exit /\ hw' = hw /\ sc' = sc
    BY <2>1 DEF coreVars, checkerVars
  <2> QED BY <2>1, <2>2, CoresStep, CheckerStep DEF scriptVars, RunInv, PassedMeansSame
<1> QED BY <1>1, <1>2, <1>3, <1>4, <1>5, <1>6, <1>7 DEF RunNext, Finished

(***************************************************************************)
(* The script's inductive invariant: the verdict it acts on is that of the *)
(* binary the cores run.                                                   *)
(***************************************************************************)
THEOREM RunInvariance == RunSpec => []RunInv
BY RunInitInv, RunStep, PTL DEF RunSpec

(***************************************************************************)
(* The checker's rules suffice: what it accepts keeps the contract, if no  *)
(* hint is nested and no control transfer is a member, and is always in    *)
(* the state of the stock core.                                            *)
(***************************************************************************)
THEOREM AcceptedIsScalar == RunSpec => []AcceptedRunsAsScalar
<1>1. RunInv => AcceptedRunsAsScalar
  <2> SUFFICES ASSUME RunInv, exit = 0, NoNestedHints, NoControlMembers
               PROVE  SameAsScalar
    BY DEF AcceptedRunsAsScalar
  <2>1. \A h \in Hints : Live(insns, h) /\ SafeBundle(insns, h)
    BY ExactVerdict DEF RunInv, VerdictExact
  <2>2. ContractSafe(insns)
    <3> SUFFICES ASSUME NEW h \in 1..Len(insns), Live(insns, h)
                 PROVE  /\ SafeBundle(insns, h)
                        /\ \A j \in Members(insns, h) : insns[j].cls \notin Control
      BY DEF ContractSafe
    <3>1. h \in Hints
      BY DEF Hints, Live
    <3>2. SafeBundle(insns, h) /\ Members(insns, h) \subseteq 1..Len(insns)
      BY <2>1, <3>1 DEF SafeBundle
    <3> QED BY <3>1, <3>2 DEF NoControlMembers
  <2> QED BY <2>2 DEF RunInv, CoreInv
<1> QED BY <1>1, RunInvariance, PTL

(***************************************************************************)
(* What the script passes the checker has accepted, and if Spike printed   *)
(* results both cores have computed the same.                              *)
(***************************************************************************)
THEOREM PassedComputesSame == RunSpec => []PassedMeansSame
<1>1. RunInv => PassedMeansSame
  BY DEF RunInv
<1> QED BY <1>1, RunInvariance, PTL
=============================================================================
