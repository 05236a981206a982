---------------------------- MODULE SweepProofs -----------------------------
(***************************************************************************)
(* Proofs about bench/sweep.py, for every list of kernels and of values,   *)
(* repeated ones included, and whatever builds, checks or runs fail.       *)
(***************************************************************************)
EXTENDS Sweep, SequenceTheorems, TLAPS

LEMMA LoopLengths == Len(Kernels) \in Nat /\ Len(Values) \in Nat
BY SweepAssumption

LEMMA ConfigPair ==
    ASSUME NEW c \in Config
    PROVE  /\ c = <<c[1], c[2]>>
           /\ \E k \in 1..Len(Kernels) : c[1] = Kernels[k]
           /\ \E v \in 1..Len(Values) : c[2] = Values[v]
BY DEF Config

LEMMA UpdateTyped ==
    ASSUME NEW S, NEW T, NEW f \in [S -> T], NEW a, NEW b \in T
    PROVE  [f EXCEPT ![a] = b] \in [S -> T]
OBVIOUS

\* Two configurations have no binary and no report in common.
LEMMA PathsApart ==
    ASSUME NEW c \in Config, NEW d \in Config, Path(c) = Path(d)
    PROVE  c = d
<1>1. c = <<c[1], c[2]>> /\ d = <<d[1], d[2]>>
  BY ConfigPair
<1>2. c[1] = d[1] /\ c[2] = d[2]
  BY DEF Path
<1> QED BY <1>1, <1>2

\* Inside the loop over values, there is a current configuration.
LEMMA ThisConfig ==
    ASSUME TypeOK, value \in 1..Len(Values)
    PROVE  This \in Config /\ This[1] = Kernels[kernel] /\ This[2] = Values[value] /\ This[1] \in Sources
<1>1. kernel \in 1..Len(Kernels) /\ Kernels[kernel] \in Sources
  BY LoopLengths DEF TypeOK
<1> QED BY <1>1 DEF This, Config
-----------------------------------------------------------------------------
LEMMA InitSweep == Init => SweepInv
<1> SUFFICES ASSUME Init PROVE SweepInv
  OBVIOUS
<1>1. /\ kernel = 1 /\ value = 0 /\ stage = "build" /\ rec = Absent /\ ref = 0
      /\ rows = <<>> /\ written = FALSE /\ Len(rows) = 0
      /\ results = [c \in Config |-> Absent] /\ fate = [c \in Config |-> NotTried]
  BY DEF Init
<1>2. report \in [Paths -> {Nothing, Old}]
  BY DEF Init
<1>3. Absent \in RecordType /\ Absent.status = "absent"
  BY DEF Absent, RecordType
<1>4. TypeOK
  <2>1. kernel \in 1..(Len(Kernels) + 1) /\ value \in 0..(Len(Values) + 1)
    BY <1>1, LoopLengths
  <2>2. rows \in Seq([pass : Nat, cycles : Nat, ref : Nat])
    BY <1>1
  <2>3. results \in [Config -> RecordType] /\ fate \in [Config -> Int]
    BY <1>1, <1>3 DEF NotTried
  <2>4. report \in [Paths -> Config \cup {Nothing, Old}]
    BY <1>2
  <2>5. /\ value = 0 /\ ~(value > 0) /\ ref \in Nat
        /\ stage \notin {"check", "simulate", "record", "exited"}
        /\ stage \in {"build", "check", "simulate", "record", "exited", "crashed"}
    BY <1>1
  <2>6. written \in BOOLEAN
    BY <1>1
  <2> QED BY <1>1, <1>3, <2>1, <2>2, <2>3, <2>4, <2>5, <2>6, Zenon DEF TypeOK
<1>5. FiguresOwn
  <2>1. \A c \in Config : report[Path(c)] \in {c, Nothing, Old}
    BY <1>2 DEF Paths
  <2> QED BY <1>1, <1>3, <2>1 DEF FiguresOwn, RowsAreOwn
<1>6. ReferenceKept
  BY <1>1 DEF ReferenceKept, SpeedupsShareReference
<1>7. \A c \in Config : ~Passed(c) /\ results[c] = Absent
  BY <1>1 DEF Passed
<1> QED BY <1>1, <1>4, <1>5, <1>6, <1>7 DEF SweepInv
-----------------------------------------------------------------------------
LEMMA TypeStep == TypeOK /\ [Next]_vars => TypeOK'
<1> SUFFICES ASSUME TypeOK, [Next]_vars PROVE TypeOK'
  OBVIOUS
<1> USE LoopLengths
<1> DEFINE Row == [pass : Nat, cycles : Nat, ref : Nat]
<1>1. CASE SkipKernel
  BY <1>1 DEF TypeOK, SkipKernel, AtKernel
<1>2. CASE EnterKernel
  <2>1. results' \in [Config -> RecordType]
    BY <1>2 DEF TypeOK, EnterKernel, Absent, RecordType
  <2>2. kernel \in 1..Len(Kernels) /\ Kernels[kernel] \in Sources /\ value' \in 0..(Len(Values) + 1)
    BY <1>2 DEF TypeOK, EnterKernel, AtKernel
  <2> QED BY <1>2, <2>1, <2>2 DEF TypeOK, EnterKernel, AtKernel
<1>3. CASE LeaveKernel
  BY <1>3 DEF TypeOK, LeaveKernel
<1>4. CASE BuildWorks
  BY <1>4 DEF TypeOK, BuildWorks, AtValue
<1>5. CASE BuildFails
  <2>1. Failed \in RecordType /\ NotBuilt \in Int
    BY DEF Failed, RecordType, NotBuilt
  <2>2. results' \in [Config -> RecordType] /\ fate' \in [Config -> Int]
    BY <1>5, <2>1, UpdateTyped, Zenon DEF TypeOK, BuildFails
  <2> QED BY <1>5, <2>2 DEF TypeOK, BuildFails, AtValue
<1>6. CASE Check
  <2>1. This \in Config
    BY <1>6, ThisConfig DEF TypeOK, Check
  <2>2. PICK about \in {This, report[Path(This)], Nothing} :
           /\ report' = [report EXCEPT ![Path(This)] = about]
           /\ rec' = [status |-> "row", stats |-> about, cycles |-> 0]
    BY <1>6 DEF Check
  <2>3. about \in Config \cup {Nothing, Old}
    BY <2>1, <2>2 DEF TypeOK, Paths
  <2>4. report' \in [Paths -> Config \cup {Nothing, Old}] /\ rec' \in RecordType
    BY <2>2, <2>3 DEF TypeOK, RecordType
  <2>5. fate' \in [Config -> Int]
    <3>1. fate \in [Config -> Int] /\ 0 \in Int /\ fate' = [fate EXCEPT ![This] = 0]
      BY <1>6 DEF TypeOK, Check
    <3> QED BY <3>1, UpdateTyped, Zenon
  <2>6. stage' \in {"simulate", "record"}
    BY <1>6 DEF Check
  <2> QED BY <1>6, <2>4, <2>5, <2>6 DEF TypeOK, Check
<1>7. CASE Simulate
  <2>1. PICK c \in Cycles \cup {0} : rec' = [rec EXCEPT !.cycles = c] /\ fate' = [fate EXCEPT ![This] = c]
    BY <1>7 DEF Simulate
  <2>2. c \in Nat
    BY SweepAssumption
  <2>3. rec' \in RecordType
    BY <2>1, <2>2 DEF TypeOK, RecordType
  <2>4. fate' \in [Config -> Int]
    <3>1. fate \in [Config -> Int] /\ c \in Int
      BY <2>2 DEF TypeOK
    <3> QED BY <2>1, <3>1, UpdateTyped, Zenon
  <2> QED BY <1>7, <2>3, <2>4 DEF TypeOK, Simulate
<1>8. CASE Record
  <2>1. rec \in RecordType /\ rec.cycles \in Nat /\ kernel \in Nat
    BY DEF TypeOK, RecordType
  <2>2. ref' \in Nat
    BY <1>8, <2>1 DEF TypeOK, Record
  <2>3. rows' \in Seq(Row)
    BY <1>8, <2>1, <2>2, AppendProperties DEF TypeOK, Record
  <2>4. results' \in [Config -> RecordType] /\ rec' \in RecordType
    BY <1>8, <2>1 DEF TypeOK, Record, Absent, RecordType
  <2> QED BY <1>8, <2>2, <2>3, <2>4 DEF TypeOK, Record
<1>9. CASE Crash
  BY <1>9 DEF TypeOK, Crash, AtValue
<1>10. CASE Dump
  BY <1>10 DEF TypeOK, Dump, AllSwept
<1>11. CASE UNCHANGED vars
  BY <1>11 DEF TypeOK, vars
<1> QED BY <1>1, <1>2, <1>3, <1>4, <1>5, <1>6, <1>7, <1>8, <1>9, <1>10, <1>11 DEF Next, Ended
-----------------------------------------------------------------------------
LEMMA FiguresStep == SweepInv /\ [Next]_vars => FiguresOwn'
<1> SUFFICES ASSUME SweepInv, [Next]_vars PROVE FiguresOwn'
  OBVIOUS
<1>1. TypeOK /\ FiguresOwn
  BY DEF SweepInv
<1>2. CASE SkipKernel \/ LeaveKernel \/ BuildWorks \/ Dump
  <2>1. stage' \notin {"simulate", "record"} /\ UNCHANGED <<results, report>>
    BY <1>2 DEF SkipKernel, LeaveKernel, BuildWorks, Dump, AtKernel
  <2> QED BY <1>1, <2>1 DEF FiguresOwn, RowsAreOwn
<1>3. CASE EnterKernel
  <2>1. \A c \in Config : results'[c] \in {Absent, results[c]}
    BY <1>3 DEF EnterKernel
  <2>2. Absent.status # "row"
    BY DEF Absent
  <2>3. stage' = "build" /\ UNCHANGED report
    BY <1>3 DEF EnterKernel, AtKernel
  <2> QED BY <1>1, <2>1, <2>2, <2>3 DEF FiguresOwn, RowsAreOwn
<1>4. CASE BuildFails
  <2>1. \A c \in Config : results'[c] \in {Failed, results[c]}
    BY <1>1, <1>4 DEF BuildFails, TypeOK
  <2>2. Failed.status # "row"
    BY DEF Failed
  <2>3. stage' = "build" /\ UNCHANGED report
    BY <1>4 DEF BuildFails, AtValue
  <2> QED BY <1>1, <2>1, <2>2, <2>3 DEF FiguresOwn, RowsAreOwn
<1>5. CASE Check
  <2>1. PICK about \in {This, report[Path(This)], Nothing} :
           /\ report' = [report EXCEPT ![Path(This)] = about]
           /\ rec' = [status |-> "row", stats |-> about, cycles |-> 0]
    BY <1>5 DEF Check
  <2>2. This \in Config
    BY <1>1, <1>5, ThisConfig DEF TypeOK, Check
  <2>3. about \in {This, Nothing, Old}
    BY <1>1, <2>1, <2>2 DEF FiguresOwn
  <2>4. ASSUME NEW c \in Config PROVE report'[Path(c)] \in {c, Nothing, Old}
    <3>1. CASE c = This
      BY <1>1, <2>1, <2>3, <3>1 DEF TypeOK, Paths
    <3>2. CASE c # This
      <4>1. Path(c) # Path(This)
        BY <2>2, <3>2, PathsApart
      <4>2. report'[Path(c)] = report[Path(c)]
        BY <1>1, <2>1, <4>1 DEF TypeOK, Paths
      <4> QED BY <1>1, <4>2 DEF FiguresOwn
    <3> QED BY <3>1, <3>2
  <2>5. This' = This /\ results' = results /\ fate' = [fate EXCEPT ![This] = 0]
    BY <1>5 DEF Check, This
  <2>6. rec'.status = "row" /\ rec'.stats \in {This, Nothing, Old} /\ rec'.cycles = fate'[This]
    BY <1>1, <2>1, <2>2, <2>3, <2>5 DEF TypeOK
  <2> QED BY <1>1, <2>4, <2>5, <2>6 DEF FiguresOwn, RowsAreOwn
<1>6. CASE Simulate
  <2>1. PICK c \in Cycles \cup {0} : rec' = [rec EXCEPT !.cycles = c] /\ fate' = [fate EXCEPT ![This] = c]
    BY <1>6 DEF Simulate
  <2>2. This \in Config
    BY <1>1, <1>6, ThisConfig DEF TypeOK, Simulate
  <2>3. This' = This /\ results' = results /\ report' = report
    BY <1>6 DEF Simulate, This
  <2>4. rec.status = "row" /\ rec.stats \in {This, Nothing, Old}
    BY <1>1, <1>6 DEF FiguresOwn, Simulate
  <2>5. rec'.status = "row" /\ rec'.stats \in {This, Nothing, Old} /\ rec'.cycles = fate'[This]
    BY <1>1, <2>1, <2>2, <2>4 DEF TypeOK, RecordType
  <2> QED BY <1>1, <2>3, <2>5 DEF FiguresOwn, RowsAreOwn
<1>7. CASE Record
  <2>1. results' = [results EXCEPT ![This] = rec] /\ stage' = "build" /\ report' = report
    BY <1>7 DEF Record
  <2>2. rec.stats \in {This, Nothing, Old}
    BY <1>1, <1>7 DEF FiguresOwn, Record
  <2>3. ASSUME NEW c \in Config, results'[c].status = "row"
        PROVE  results'[c].stats \in {c, Nothing, Old}
    <3>1. CASE c = This
      BY <1>1, <2>1, <2>2, <3>1 DEF TypeOK
    <3>2. CASE c # This
      <4>1. results'[c] = results[c]
        BY <1>1, <2>1, <3>2 DEF TypeOK
      <4> QED BY <1>1, <2>3, <4>1 DEF FiguresOwn, RowsAreOwn
    <3> QED BY <3>1, <3>2
  <2> QED BY <1>1, <2>1, <2>3 DEF FiguresOwn, RowsAreOwn
<1>8. CASE Crash
  <2>1. stage' = "crashed" /\ UNCHANGED <<results, report>>
    BY <1>8 DEF Crash
  <2> QED BY <1>1, <2>1 DEF FiguresOwn, RowsAreOwn
<1>9. CASE UNCHANGED vars
  BY <1>1, <1>9 DEF FiguresOwn, RowsAreOwn, This, vars
<1> QED BY <1>2, <1>3, <1>4, <1>5, <1>6, <1>7, <1>8, <1>9 DEF Next, Ended
-----------------------------------------------------------------------------
LEMMA ReferenceStep == SweepInv /\ [Next]_vars => ReferenceKept'
<1> SUFFICES ASSUME SweepInv, [Next]_vars PROVE ReferenceKept'
  OBVIOUS
<1>1. /\ TypeOK /\ ReferenceKept
      /\ kernel \in Int /\ value \in Int /\ Len(rows) \in Nat
      /\ \A i \in 1..Len(rows) : rows[i].pass \in Int
  <2>1. TypeOK /\ ReferenceKept
    BY DEF SweepInv
  <2>2. kernel \in Int /\ value \in Int
    BY <2>1, LoopLengths DEF TypeOK
  <2>3. rows \in Seq([pass : Nat, cycles : Nat, ref : Nat])
    BY <2>1 DEF TypeOK
  <2>4. \A i \in 1..Len(rows) : rows[i] \in [pass : Nat, cycles : Nat, ref : Nat]
    BY <2>3, ElementOfSeq
  <2>5. \A i \in 1..Len(rows) : rows[i].pass \in Int
    <3>1. \A r \in [pass : Nat, cycles : Nat, ref : Nat] : r.pass \in Int
      OBVIOUS
    <3> QED BY <2>4, <3>1, Zenon
  <2>6. Len(rows) \in Nat
    BY <2>3
  <2> QED BY <2>1, <2>2, <2>5, <2>6
<1>2. CASE UNCHANGED rows /\ ~EnterKernel
  <2>1. /\ kernel' >= kernel /\ kernel' \in Int
        /\ value' = 0 => value = 0 \/ kernel' > kernel
        /\ value' > 0 => value > 0 /\ kernel' = kernel
        /\ ref' = ref
    <3>1. \/ UNCHANGED <<kernel, value, ref>>
          \/ value = 0 /\ value' = 0 /\ kernel' = kernel + 1 /\ ref' = ref
          \/ value > 0 /\ value' = 0 /\ kernel' = kernel + 1 /\ ref' = ref
          \/ value > 0 /\ value' = value + 1 /\ kernel' = kernel /\ ref' = ref
      BY <1>1, <1>2, LoopLengths DEF Next, Ended, SkipKernel, LeaveKernel, BuildWorks, BuildFails, Check, Simulate,
         Crash, Dump, vars, AtKernel, AtValue, Record, TypeOK
    <3> QED BY <1>1, <3>1
  <2>2. \A i \in 1..Len(rows) : rows[i].pass =< kernel' /\ (value' = 0 => rows[i].pass < kernel')
    BY <1>1, <2>1 DEF ReferenceKept
  <2>3. SpeedupsShareReference'
    BY <1>1, <1>2 DEF ReferenceKept, SpeedupsShareReference, IsReference
  <2> QED BY <1>1, <1>2, <2>1, <2>2, <2>3 DEF ReferenceKept, IsReference
<1>3. CASE EnterKernel
  <2>1. value = 0 /\ value' = 1 /\ ref' = 0 /\ UNCHANGED <<kernel, rows>>
    BY <1>3 DEF EnterKernel, AtKernel
  <2>2. \A i \in 1..Len(rows) : rows[i].pass < kernel
    BY <1>1, <2>1 DEF ReferenceKept
  <2>3. SpeedupsShareReference'
    BY <1>1, <2>1 DEF ReferenceKept, SpeedupsShareReference, IsReference
  <2> QED BY <1>1, <2>1, <2>2, <2>3 DEF ReferenceKept
<1>4. CASE Record
  <2> DEFINE row == [pass |-> kernel, cycles |-> rec.cycles, ref |-> ref']
             cyc == rec.cycles
  <2>1. value > 0 /\ value' = value + 1 /\ kernel' = kernel /\ rows' = Append(rows, row)
        /\ ref' = IF ref = 0 THEN cyc ELSE ref
    BY <1>1, <1>4 DEF Record, TypeOK
  <2>2. cyc \in Nat /\ ref \in Nat /\ ref' \in Nat
    BY <1>1, <2>1 DEF TypeOK, RecordType
  <2>3. PICK n \in Nat : n = Len(rows)
    BY <1>1
  <2>4. /\ Len(rows') = n + 1
        /\ \A i \in 1..n : rows'[i] = rows[i]
        /\ rows'[n + 1] = row
    BY <1>1, <2>1, <2>2, <2>3, AppendProperties DEF TypeOK
  <2>5. row.pass = kernel /\ row.cycles = cyc /\ row.ref = ref'
    OBVIOUS
  <2> HIDE DEF row, cyc
  <2>6. PICK k1 \in Nat, r1 \in Nat : k1 = kernel /\ r1 = ref'
    BY <1>1, <2>2 DEF TypeOK
  <2>7. \A j \in 1..n : \A p, r : IsReference(j, p, r) => IsReference(j, p, r)'
    BY <2>4 DEF IsReference
  <2>8. IF r1 = 0 THEN \A i \in 1..(n + 1) : rows'[i].pass = k1 => rows'[i].cycles = 0
        ELSE \E j \in 1..(n + 1) : IsReference(j, k1, r1)'
    <3>1. CASE ref # 0
      <4>1. PICK j \in 1..n : IsReference(j, k1, r1)
        BY <1>1, <2>1, <2>3, <2>6, <3>1 DEF ReferenceKept
      <4>2. r1 # 0 /\ IsReference(j, k1, r1)'
        BY <2>1, <2>6, <2>7, <3>1, <4>1
      <4>3. j \in 1..(n + 1)
        OBVIOUS
      <4> QED BY <4>2, <4>3, Zenon
    <3>2. CASE ref = 0
      <4>1. r1 = cyc /\ \A i \in 1..n : rows'[i].pass = k1 => rows'[i].cycles = 0
        BY <1>1, <2>1, <2>3, <2>4, <2>6, <3>2 DEF ReferenceKept
      <4>2. rows'[n + 1].pass = k1 /\ rows'[n + 1].cycles = cyc
        BY <2>4, <2>5, <2>6
      <4>3. CASE cyc = 0
        <5>1. \A i \in 1..(n + 1) : i \in 1..n \/ i = n + 1
          OBVIOUS
        <5> QED BY <4>1, <4>2, <4>3, <5>1, Zenon
      <4>4. CASE cyc # 0
        <5>1. n + 1 \in 1..(n + 1) /\ (n + 1) - 1 = n
          OBVIOUS
        <5>2. IsReference(n + 1, k1, r1)'
          BY <4>1, <4>2, <5>1, Zenon DEF IsReference
        <5> QED BY <4>1, <4>4, <5>1, <5>2, Zenon
      <4> QED BY <4>3, <4>4
    <3> QED BY <3>1, <3>2
  <2>9. SpeedupsShareReference'
    <3> SUFFICES ASSUME NEW i \in 1..(n + 1), rows'[i].cycles # 0
                 PROVE  \E j \in 1..i : IsReference(j, rows[i].pass, rows[i].ref)'
      BY <2>4 DEF SpeedupsShareReference
    <3>1. CASE i \in 1..n
      <4>1. rows'[i] = rows[i]
        BY <2>4, <3>1
      <4>2. PICK j \in 1..i : IsReference(j, rows[i].pass, rows[i].ref)
        BY <1>1, <2>3, <3>1, <4>1 DEF ReferenceKept, SpeedupsShareReference
      <4>3. j \in 1..n
        BY <3>1
      <4> QED BY <2>4, <4>1, <4>2, <4>3 DEF IsReference
    <3>2. CASE i = n + 1
      <4>1. r1 # 0
        BY <2>1, <2>2, <2>4, <2>5, <2>6, <3>2
      <4>2. PICK j \in 1..(n + 1) : IsReference(j, k1, r1)'
        BY <2>8, <4>1
      <4>3. rows'[i].pass = k1 /\ rows'[i].ref = r1
        BY <2>4, <2>5, <2>6, <3>2
      <4> QED BY <3>2, <4>2, <4>3 DEF IsReference
    <3> QED BY <3>1, <3>2
  <2>10. \A i \in 1..(n + 1) : rows'[i].pass =< kernel
    <3>1. \A i \in 1..n : rows'[i].pass =< kernel
      BY <1>1, <2>3, <2>4 DEF ReferenceKept
    <3> QED BY <1>1, <2>3, <2>4, <2>5, <3>1
  <2>11. value' # 0 /\ value' > 0 /\ kernel' = k1 /\ ref' = r1
    BY <1>1, <2>1, <2>6
  <2>12. IF ref' = 0 THEN \A i \in 1..Len(rows') : rows'[i].pass = kernel' => rows'[i].cycles = 0
         ELSE \E j \in 1..Len(rows') : IsReference(j, kernel, ref)'
    BY <2>4, <2>8, <2>11 DEF IsReference
  <2>13. \A i \in 1..Len(rows') : rows'[i].pass =< kernel' /\ (value' = 0 => rows'[i].pass < kernel')
    BY <2>1, <2>4, <2>10, <2>11
  <2> QED BY <2>9, <2>12, <2>13, Zenon DEF ReferenceKept
<1>5. Record \/ EnterKernel \/ UNCHANGED rows
  BY DEF Next, Ended, SkipKernel, LeaveKernel, BuildWorks, BuildFails, Check, Simulate, Crash, Dump, vars
<1> QED BY <1>2, <1>3, <1>4, <1>5
-----------------------------------------------------------------------------
Complete == \A c \in Config :
    IF c[1] \in Sources THEN Passed(c) /\ ~InWork(c) => Recorded(c) ELSE results[c] = Absent

LEMMA CompleteStep == SweepInv /\ [Next]_vars => Complete'
<1> SUFFICES ASSUME SweepInv, [Next]_vars, NEW c \in Config
             PROVE  IF c[1] \in Sources THEN Passed(c)' /\ ~InWork(c)' => Recorded(c)'
                    ELSE results'[c] = Absent
  BY DEF Complete
<1>1. /\ TypeOK /\ FiguresOwn /\ kernel \in Int /\ value \in Int
      /\ c[1] \in Sources /\ Passed(c) /\ ~InWork(c) => Recorded(c)
      /\ c[1] \notin Sources => results[c] = Absent
  BY LoopLengths DEF SweepInv, TypeOK
<1>2. c = <<c[1], c[2]>> /\ (\E v \in 1..Len(Values) : c[2] = Values[v])
  BY ConfigPair
<1>3. ASSUME value \in 1..Len(Values)
      PROVE  /\ This \in Config /\ This = <<Kernels[kernel], Values[value]>> /\ Kernels[kernel] \in Sources
             /\ c # This => results[c] = Absent \/ c[1] \in Sources
  BY <1>1, <1>3, ThisConfig DEF This
<1>4. ASSUME value \in 1..Len(Values), value' = value + 1, kernel' = kernel, Passed(c)'
      PROVE  Passed(c) \/ c = This
  <2>1. CASE c[1] = Kernels[kernel]
    <3>1. PICK v \in 1..value : c[2] = Values[v]
      BY <1>1, <1>4, <2>1 DEF Passed
    <3>2. CASE v = value
      BY <1>2, <2>1, <3>1, <3>2 DEF This
    <3>3. CASE v # value
      BY <1>1, <1>4, <2>1, <3>1, <3>3 DEF Passed
    <3> QED BY <3>2, <3>3
  <2>2. CASE c[1] # Kernels[kernel]
    BY <1>1, <1>4, <2>2 DEF Passed
  <2> QED BY <2>1, <2>2
<1>5. CASE SkipKernel
  <2>1. /\ value = 0 /\ value' = 0 /\ kernel' = kernel + 1 /\ Kernels[kernel] \notin Sources
        /\ stage = "build" /\ UNCHANGED <<results, fate>>
    BY <1>5 DEF SkipKernel, AtKernel
  <2>2. c[1] \in Sources /\ Passed(c)' => Passed(c)
    BY <1>1, <2>1 DEF Passed
  <2> QED BY <1>1, <2>1, <2>2 DEF InWork, Recorded
<1>6. CASE EnterKernel
  <2>1. /\ value = 0 /\ value' = 1 /\ kernel' = kernel /\ Kernels[kernel] \in Sources
        /\ stage = "build" /\ fate' = fate
        /\ results'[c] = IF c[1] = Kernels[kernel] THEN Absent ELSE results[c]
    BY <1>6 DEF EnterKernel, AtKernel
  <2>2. Passed(c)' => Passed(c) /\ c[1] # Kernels[kernel]
    BY <1>1, <2>1 DEF Passed
  <2> QED BY <1>1, <2>1, <2>2 DEF InWork, Recorded
<1>7. CASE LeaveKernel
  <2>1. /\ value = Len(Values) + 1 /\ value' = 0 /\ kernel' = kernel + 1
        /\ stage = "build" /\ UNCHANGED <<results, fate>>
    BY <1>1, <1>7, LoopLengths DEF LeaveKernel, TypeOK
  <2>2. Passed(c)' => Passed(c)
    <3>1. CASE c[1] = Kernels[kernel]
      BY <1>1, <1>2, <2>1, <3>1, LoopLengths DEF Passed
    <3>2. CASE c[1] # Kernels[kernel]
      BY <1>1, <2>1, <3>2 DEF Passed
    <3> QED BY <3>1, <3>2
  <2> QED BY <1>1, <2>1, <2>2 DEF InWork, Recorded
<1>8. CASE BuildWorks
  BY <1>1, <1>8 DEF BuildWorks, AtValue, Passed, InWork, Recorded
<1>9. CASE BuildFails
  <2>1. /\ value \in 1..Len(Values) /\ value' = value + 1 /\ kernel' = kernel /\ stage = "build"
        /\ results' = [results EXCEPT ![This] = Failed] /\ fate' = [fate EXCEPT ![This] = NotBuilt]
    BY <1>9 DEF BuildFails, AtValue
  <2>2. CASE c = This
    BY <1>1, <1>3, <2>1, <2>2 DEF TypeOK, Recorded
  <2>3. CASE c # This
    <3>1. results'[c] = results[c] /\ fate'[c] = fate[c]
      BY <1>1, <2>1, <2>3 DEF TypeOK
    <3> QED BY <1>1, <1>4, <2>1, <2>3, <3>1 DEF Recorded, InWork
  <2> QED BY <2>2, <2>3
<1>10. CASE Check \/ Simulate
  <2>1. /\ value \in 1..Len(Values) /\ UNCHANGED <<kernel, value, results>> /\ This' = This
        /\ stage' \in {"simulate", "record"}
        /\ c # This => fate'[c] = fate[c]
    BY <1>1, <1>10 DEF Check, Simulate, TypeOK, This
  <2>2. CASE c = This
    BY <1>1, <1>3, <2>1, <2>2 DEF InWork
  <2>3. CASE c # This
    BY <1>1, <2>1, <2>3 DEF InWork, Recorded, Passed
  <2> QED BY <2>2, <2>3
<1>11. CASE Record
  <2>1. /\ value \in 1..Len(Values) /\ value' = value + 1 /\ kernel' = kernel /\ stage = "record"
        /\ results' = [results EXCEPT ![This] = rec] /\ fate' = fate
    BY <1>1, <1>11 DEF Record, TypeOK
  <2>2. CASE c = This
    <3>1. rec.status = "row" /\ rec.cycles = fate[c] /\ rec.cycles \in Nat /\ results'[c] = rec
      BY <1>1, <2>1, <2>2 DEF FiguresOwn, TypeOK, RecordType
    <3>2. fate'[c] # NotBuilt
      BY <2>1, <3>1 DEF NotBuilt
    <3> QED BY <1>3, <2>1, <2>2, <3>1, <3>2 DEF Recorded
  <2>3. CASE c # This
    <3>1. results'[c] = results[c]
      BY <1>1, <2>1, <2>3 DEF TypeOK
    <3> QED BY <1>1, <1>4, <2>1, <2>3, <3>1 DEF Recorded, InWork
  <2> QED BY <2>2, <2>3
<1>12. CASE Crash
  <2>1. /\ UNCHANGED <<kernel, value, results, fate>> /\ This' = This /\ stage' = "crashed"
    BY <1>12 DEF Crash, This
  <2>2. Passed(c)' /\ ~InWork(c)' => Passed(c) /\ ~InWork(c)
    BY <2>1 DEF Passed, InWork
  <2> QED BY <1>1, <2>1, <2>2 DEF Recorded
<1>13. CASE Dump
  <2>1. stage = "build" /\ stage' = "exited" /\ UNCHANGED <<kernel, value, results, fate>>
    BY <1>13 DEF Dump, AllSwept
  <2> QED BY <1>1, <2>1 DEF Passed, InWork, Recorded
<1>14. CASE UNCHANGED vars
  BY <1>1, <1>14 DEF vars, Passed, InWork, Recorded, This
<1> QED BY <1>5, <1>6, <1>7, <1>8, <1>9, <1>10, <1>11, <1>12, <1>13, <1>14 DEF Next, Ended
-----------------------------------------------------------------------------
(***************************************************************************)
(* Reports and records stay with their configuration, the reference with   *)
(* its pass, and every configuration that the loops of main have passed    *)
(* has its record, through every failure.                                  *)
(***************************************************************************)
THEOREM SweepInvariance == Spec => []SweepInv
<1>1. SweepInv /\ [Next]_vars => SweepInv'
  <2> SUFFICES ASSUME SweepInv, [Next]_vars PROVE SweepInv'
    OBVIOUS
  <2>1. TypeOK' /\ FiguresOwn' /\ ReferenceKept' /\ Complete'
    BY TypeStep, FiguresStep, ReferenceStep, CompleteStep DEF SweepInv
  <2>2. written' => stage' = "exited"
    BY DEF SweepInv, Next, Ended, SkipKernel, EnterKernel, LeaveKernel, BuildWorks, BuildFails, Check,
       Simulate, Record, Crash, Dump, vars, AtKernel, AtValue, AllSwept
  <2> QED BY <2>1, <2>2 DEF SweepInv, Complete
<1> QED BY <1>1, InitSweep, PTL DEF Spec

(***************************************************************************)
(* RowsAreOwn: the figures in results[name][v] are those of the binary     *)
(* built for name and v, or an earlier session's for the same, or none.    *)
(***************************************************************************)
THEOREM RecordsAreOwn == Spec => []RowsAreOwn
<1>1. SweepInv => RowsAreOwn
  BY DEF SweepInv, FiguresOwn
<1> QED BY <1>1, SweepInvariance, PTL

(***************************************************************************)
(* SpeedupsShareReference: the speedups that are printed for a kernel are  *)
(* all relative to its first run with cycles.                              *)
(***************************************************************************)
THEOREM OneReference == Spec => []SpeedupsShareReference
<1>1. SweepInv => SpeedupsShareReference
  BY DEF SweepInv, ReferenceKept
<1> QED BY <1>1, SweepInvariance, PTL

(***************************************************************************)
(* SweepIsComplete: when the JSON file is there, it has a true record for  *)
(* every kernel that exists and every value.                               *)
(***************************************************************************)
THEOREM WrittenIsComplete == Spec => []SweepIsComplete
<1>1. SweepInv => SweepIsComplete
  <2> SUFFICES ASSUME SweepInv, written, NEW c \in Config
               PROVE  IF c[1] \in Sources THEN Recorded(c) ELSE results[c] = Absent
    BY DEF SweepIsComplete
  <2>1. /\ stage = "exited" /\ value = 0 /\ kernel > Len(Kernels) /\ kernel \in 1..(Len(Kernels) + 1)
    BY DEF SweepInv, TypeOK
  <2>2. Passed(c) /\ ~InWork(c)
    BY <2>1, ConfigPair, LoopLengths DEF Passed, InWork
  <2> QED BY <2>2 DEF SweepInv
<1> QED BY <1>1, SweepInvariance, PTL
=============================================================================
