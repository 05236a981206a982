------------------------------- MODULE Sweep --------------------------------
(***************************************************************************)
(* bench/sweep.py: for every kernel and every value of one compiler option *)
(* builds the STARBUG binary, has the checker judge it, on the unroll axis *)
(* simulates it, and keeps one record per kernel and value.                *)
(*                                                                         *)
(* A report says which binary it is about: the file may be left over from  *)
(* an earlier session when the checker fails, since validate_bundles looks *)
(* at the file only (see BenchFlow).  The record's figures are abstracted  *)
(* to that and to the cycles.                                              *)
(***************************************************************************)
EXTENDS Integers, Sequences

CONSTANTS Kernels,    \* --kernels
          Sources,    \* the kernels whose source file exists
          Values,     \* --values, or the axis' default
          Cycles      \* the cycle counts a simulation may print

ASSUME SweepAssumption == Kernels \in Seq(STRING) /\ Values \in Seq(Nat) /\ Cycles \subseteq Nat \ {0}

VARIABLES
    axis,       \* "unroll" or "lanes"
    kernel,     \* index of the outer loop
    value,      \* index of the inner loop, 0 outside of it
    stage,      \* "build", "check", "simulate", "record", "exited" or "crashed"
    rec,        \* the record build_and_measure is filling in
    ref,        \* ref_cycles, 0 for None
    results,    \* results[name][v]
    report,     \* the binary each <elf>.bundles.json is about
    rows,       \* the printed lines with figures
    fate,       \* history: what has become of each configuration
    written     \* the JSON file has been written

vars == <<axis, kernel, value, stage, rec, ref, results, report, rows, fate, written>>

Config  == {<<Kernels[k], Values[v]>> : k \in 1..Len(Kernels), v \in 1..Len(Values)}
Nothing == <<>>       \* no report
Old     == <<"old">>  \* a report of an earlier session

\* Fates other than a number of cycles (0: none were printed).
NotTried == -1
NotBuilt == -2

Absent == [status |-> "absent", stats |-> Nothing, cycles |-> 0]
Failed == [status |-> "error", stats |-> Nothing, cycles |-> 0]

\* Mutants, here and below: plausible bugs of the definition that follows.
\* The directory's tag lacks the value.
Path_NoValue(c) == c[1]

\* Where the binary and its report are, within sweep_<axis><v>.
Path(c) == <<c[2], c[1]>>
Paths   == {Path(c) : c \in Config}

This == <<Kernels[kernel], Values[value]>>
-----------------------------------------------------------------------------
Init ==
    /\ axis \in {"unroll", "lanes"}
    /\ kernel = 1 /\ value = 0 /\ stage = "build"
    /\ rec = Absent /\ ref = 0
    /\ results = [c \in Config |-> Absent]
    /\ report \in [Paths -> {Nothing, Old}]
    /\ rows = <<>>
    /\ fate = [c \in Config |-> NotTried]
    /\ written = FALSE

AtKernel == stage = "build" /\ value = 0 /\ kernel =< Len(Kernels)

SkipKernel ==
    /\ AtKernel /\ Kernels[kernel] \notin Sources
    /\ kernel' = kernel + 1
    /\ UNCHANGED <<axis, value, stage, rec, ref, results, report, rows, fate, written>>

\* The reference is set once, before the kernels.
EnterKernel_KeepsRef ==
    /\ AtKernel /\ Kernels[kernel] \in Sources
    /\ value' = 1
    /\ results' = [c \in Config |-> IF c[1] = Kernels[kernel] THEN Absent ELSE results[c]]
    /\ UNCHANGED <<axis, kernel, stage, rec, ref, report, rows, fate, written>>

EnterKernel ==
    /\ AtKernel /\ Kernels[kernel] \in Sources
    /\ value' = 1 /\ ref' = 0
    /\ results' = [c \in Config |-> IF c[1] = Kernels[kernel] THEN Absent ELSE results[c]]
    /\ UNCHANGED <<axis, kernel, stage, rec, report, rows, fate, written>>

LeaveKernel ==
    /\ stage = "build" /\ value > Len(Values)
    /\ value' = 0 /\ kernel' = kernel + 1
    /\ UNCHANGED <<axis, stage, rec, ref, results, report, rows, fate, written>>

AtValue == stage = "build" /\ value \in 1..Len(Values)

BuildWorks ==
    /\ AtValue
    /\ stage' = "check"
    /\ UNCHANGED <<axis, kernel, value, rec, ref, results, report, rows, fate, written>>

\* A failed build leaves no record.
BuildFails_Unrecorded ==
    /\ AtValue
    /\ fate' = [fate EXCEPT ![This] = NotBuilt]
    /\ value' = value + 1
    /\ UNCHANGED <<axis, kernel, stage, rec, ref, results, report, rows, written>>

\* compile_kernel returns no binary: an error record, and the next value.
BuildFails ==
    /\ AtValue
    /\ fate' = [fate EXCEPT ![This] = NotBuilt]
    /\ results' = [results EXCEPT ![This] = Failed]
    /\ value' = value + 1
    /\ UNCHANGED <<axis, kernel, stage, rec, ref, report, rows, written>>

\* validate_bundles: the checker writes its report, or fails before or while it does.
Check ==
    /\ stage = "check"
    /\ \E about \in {This, report[Path(This)], Nothing} :
         /\ report' = [report EXCEPT ![Path(This)] = about]
         /\ rec' = [status |-> "row", stats |-> about, cycles |-> 0]
    /\ fate' = [fate EXCEPT ![This] = 0]
    /\ stage' = IF axis = "unroll" THEN "simulate" ELSE "record"
    /\ UNCHANGED <<axis, kernel, value, ref, results, rows, written>>

\* simulate; a timeout or a missing benchmark line leave cycles None.
Simulate ==
    /\ stage = "simulate"
    /\ \E c \in Cycles \cup {0} : /\ rec' = [rec EXCEPT !.cycles = c]
                                 /\ fate' = [fate EXCEPT ![This] = c]
    /\ stage' = "record"
    /\ UNCHANGED <<axis, kernel, value, ref, results, report, rows, written>>

\* The reference is the last run that printed cycles.
Record_LastRef ==
    /\ stage = "record"
    /\ results' = [results EXCEPT ![This] = rec]
    /\ rec' = Absent
    /\ ref' = IF rec.cycles # 0 THEN rec.cycles ELSE ref
    /\ rows' = Append(rows, [pass |-> kernel, cycles |-> rec.cycles, ref |-> ref'])
    /\ value' = value + 1 /\ stage' = "build"
    /\ UNCHANGED <<axis, kernel, report, fate, written>>

\* results[name][v] = rec, and the line with its speedup.
Record ==
    /\ stage = "record"
    /\ results' = [results EXCEPT ![This] = rec]
    /\ rec' = Absent
    /\ ref' = IF ref = 0 THEN rec.cycles ELSE ref
    /\ rows' = Append(rows, [pass |-> kernel, cycles |-> rec.cycles, ref |-> ref'])
    /\ value' = value + 1 /\ stage' = "build"
    /\ UNCHANGED <<axis, kernel, report, fate, written>>

AllSwept == stage = "build" /\ value = 0 /\ kernel > Len(Kernels)

\* A compiler or simulator that cannot be started raises, or the results file
\* that cannot be opened; nothing is written.
Crash ==
    /\ AtValue \/ stage = "simulate" \/ AllSwept
    /\ stage' = "crashed"
    /\ UNCHANGED <<axis, kernel, value, rec, ref, results, report, rows, fate, written>>

Dump ==
    /\ AllSwept
    /\ written' = TRUE /\ stage' = "exited"
    /\ UNCHANGED <<axis, kernel, value, rec, ref, results, report, rows, fate>>

Ended == stage \in {"exited", "crashed"} /\ UNCHANGED vars

Next == SkipKernel \/ EnterKernel \/ LeaveKernel \/ BuildWorks \/ BuildFails \/ Check \/ Simulate
        \/ Record \/ Crash \/ Dump \/ Ended

Spec == Init /\ [][Next]_vars
-----------------------------------------------------------------------------
RecordType == [status : {"absent", "error", "row"},
               stats  : Config \cup {Nothing, Old},
               cycles : Nat]

\* Types of the sweep's state, and where its loops can be.
TypeOK ==
    /\ kernel \in 1..(Len(Kernels) + 1) /\ value \in 0..(Len(Values) + 1)
    /\ value > 0 => kernel =< Len(Kernels) /\ Kernels[kernel] \in Sources
    /\ stage \in {"build", "check", "simulate", "record", "exited", "crashed"}
    /\ stage \in {"check", "simulate", "record"} => value \in 1..Len(Values)
    /\ stage = "exited" => value = 0 /\ kernel > Len(Kernels)
    /\ rec \in RecordType /\ ref \in Nat
    /\ results \in [Config -> RecordType]
    /\ report \in [Paths -> Config \cup {Nothing, Old}]
    /\ rows \in Seq([pass : Nat, cycles : Nat, ref : Nat])
    /\ fate \in [Config -> Int]
    /\ written \in BOOLEAN

(***************************************************************************)
(* A record never shows another configuration's figures: its statistics    *)
(* are of the binary just built, or there are none, or (the checker failed *)
(* and left the file alone) they are an earlier session's.  All values of  *)
(* a kernel are built to the same file name and only the directory tells   *)
(* them apart.                                                             *)
(***************************************************************************)
RowsAreOwn ==
    \A c \in Config : results[c].status = "row" => results[c].stats \in {c, Nothing, Old}

\* Row j is the first of pass p with cycles, and they are r.
IsReference(j, p, r) ==
    /\ rows[j].pass = p /\ rows[j].cycles = r
    /\ \A k \in 1..(j - 1) : rows[k].pass = p => rows[k].cycles = 0

(***************************************************************************)
(* Speedups of one kernel can be compared: all are relative to the same    *)
(* run of that kernel, the first that printed cycles, whatever failed      *)
(* before it.                                                              *)
(***************************************************************************)
SpeedupsShareReference ==
    \A i \in 1..Len(rows) : rows[i].cycles # 0 =>
        \E j \in 1..i : IsReference(j, rows[i].pass, rows[i].ref)

\* The record of c tells what has become of c.
Recorded(c) == IF fate[c] = NotBuilt THEN results[c] = Failed
               ELSE results[c].status = "row" /\ results[c].cycles = fate[c]

\* The loops have passed configuration c, in the current pass over its kernel if there is one.
Passed(c) ==
    IF value > 0 /\ c[1] = Kernels[kernel]
    THEN \E v \in 1..(value - 1) : c[2] = Values[v]
    ELSE \E k \in 1..(kernel - 1) : c[1] = Kernels[k]

(***************************************************************************)
(* What is written is complete: a record for every kernel that exists and  *)
(* every value, an error just where the build failed, and the cycles that  *)
(* configuration's own simulation printed.                                 *)
(***************************************************************************)
SweepIsComplete ==
    written => \A c \in Config :
        IF c[1] \in Sources THEN Recorded(c) ELSE results[c] = Absent

\* Reports and the open record are about their own configuration.
FiguresOwn ==
    /\ RowsAreOwn
    /\ \A c \in Config : report[Path(c)] \in {c, Nothing, Old}
    /\ stage \in {"simulate", "record"} =>
         rec.status = "row" /\ rec.stats \in {This, Nothing, Old} /\ rec.cycles = fate[This]

\* "ref" is the reference of the current pass, or 0 as long as it has none.
ReferenceKept ==
    /\ SpeedupsShareReference
    /\ \A i \in 1..Len(rows) : rows[i].pass =< kernel /\ (value = 0 => rows[i].pass < kernel)
    /\ value > 0 =>
         IF ref = 0 THEN \A i \in 1..Len(rows) : rows[i].pass = kernel => rows[i].cycles = 0
         ELSE \E j \in 1..Len(rows) : IsReference(j, kernel, ref)

\* Between the build and the record of a value the loops met before, that record is outdated.
InWork(c) == stage \in {"simulate", "record", "crashed"} /\ value # 0 /\ c = This

(***************************************************************************)
(* The inductive invariant: besides the two above, every configuration the *)
(* loops have passed is recorded with what became of it (in the latest     *)
(* pass over its kernel, if the command line names a kernel twice), and    *)
(* the file is written at the end only.                                    *)
(***************************************************************************)
SweepInv ==
    /\ TypeOK
    /\ FiguresOwn
    /\ ReferenceKept
    /\ \A c \in Config :
         IF c[1] \in Sources THEN Passed(c) /\ ~InWork(c) => Recorded(c) ELSE results[c] = Absent
    /\ written => stage = "exited"
=============================================================================
