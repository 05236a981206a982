--------------------------- MODULE DynamicProfile ---------------------------
(***************************************************************************)
(* tools/starbug_profile.py and tools/starbug_straddle.py: both find the   *)
(* bundles with the checker's analyse, run the binary on Spike for a       *)
(* histogram of the program counter, and join the two by address.  Which   *)
(* of the three mains has called analyse shows when it returns.            *)
(*                                                                         *)
(* Beside Spike the module follows the program on the STARBUG core (see    *)
(* StarbugCore), with the one reason to decline a bundle the tools know:   *)
(* it does not fit in one I-cache line.  A count is per index of the       *)
(* listing, an address has one.  Breakdowns by function are left out.      *)
(***************************************************************************)
EXTENDS BundleChecker

CONSTANTS Profiled(_),     \* the listings that are run on Spike
          Targets(_, _),   \* indices the branch i of listing p may go to
          MaxTaken         \* bound: transfers of control in one run

ASSUME MaxTakenAssumption == MaxTaken \in Nat

\* A branch goes to an instruction of the listing or out of it.
TargetsWithin(p) == \A i \in 1..Len(p) : Targets(p, i) \subseteq 1..(Len(p) + 1)

\* objdump lists a program in the order of its addresses.
Ascending(p) == \A i \in 1..(Len(p) - 1) : p[i].addr + p[i].size =< p[i + 1].addr

ASSUME TargetsAssumption == \A p \in Listings : TargetsWithin(p)

ASSUME AscendingAssumption == \A p \in Listings : Profiled(p) => Ascending(p)

VARIABLES
    status,   \* of the profiler: "analysing", "spike", "retry", "done", "failed"
    pc,       \* Spike's next instruction
    taken,    \* transfers of control so far
    hist,     \* Spike's histogram
    window,   \* the hint through which the core has come to pc, or 0
    core      \* what has happened on the core

profileVars == <<status, pc, taken, hist, window, core>>

CoreType == [cycles   : Nat,    \* issue cycles
             retired  : Nat,    \* instructions retired, without hints
             formed   : Nat,    \* bundles formed ...
             declined : Nat,    \* ... and declined
             slots    : Nat,    \* members issued in bundles ...
             lost     : Nat,    \* ... and one by one behind a declined hint
             stray    : Nat,    \* members reached by a branch, not through their hint
             ignored  : Nat]    \* hints too long for any bundle

-----------------------------------------------------------------------------
(***************************************************************************)
(* The core.  A bundle is formed if every byte of it lies in the line of   *)
(* its hint; it takes one cycle.  Any other instruction takes one, hints   *)
(* without a bundle included.                                              *)
(***************************************************************************)
Fits(h) == \A j \in {h} \cup Members(insns, h) : \A b \in 0..(insns[j].size - 1) :
               (insns[j].addr + b) \div LineBytes = insns[h].addr \div LineBytes

FormsBundle(i)   == Live(insns, i) /\ Members(insns, i) \subseteq 1..Len(insns)
MemberOfOther(i) == \E h \in 1..Len(insns) : FormsBundle(h) /\ i \in Members(insns, h)

One(condition) == IF condition THEN 1 ELSE 0

AfterInsn(c, i) ==
    LET hint   == DeclaredLen(insns[i]) # 0
        behind == window # 0 /\ i \in Members(insns, window)
        free   == behind /\ Fits(window)
    IN  [cycles   |-> c.cycles + One(~free),
         retired  |-> c.retired + One(~hint),
         formed   |-> c.formed + One(FormsBundle(i) /\ Fits(i)),
         declined |-> c.declined + One(FormsBundle(i) /\ ~Fits(i)),
         slots    |-> c.slots + One(free),
         lost     |-> c.lost + One(behind /\ ~free),
         stray    |-> c.stray + One(~behind /\ MemberOfOther(i)),
         ignored  |-> c.ignored + One(hint /\ ~FormsBundle(i))]

-----------------------------------------------------------------------------
ProfileInit ==
    /\ CheckerInit
    /\ status = "analysing"
    /\ pc = 1 /\ taken = 0
    /\ hist = [i \in 1..Len(insns) |-> 0]
    /\ window = 0
    /\ core = [f \in DOMAIN [cycles |-> 0, retired |-> 0, formed |-> 0, declined |-> 0,
                             slots |-> 0, lost |-> 0, stray |-> 0, ignored |-> 0] |-> 0]

Analyse     == (StepOver \/ TakeBundle) /\ UNCHANGED profileVars
CheckerMain == status = "analysing" /\ Report /\ UNCHANGED profileVars

StartSpike ==
    /\ status = "analysing" /\ exit = -1 /\ idx > Len(insns)
    /\ Profiled(insns)
    /\ status' = "spike"
    /\ UNCHANGED <<checkerVars, pc, taken, hist, window, core>>

Spike == status \in {"spike", "retry"}

\* Spike does not know the ELF's ISA string: once more with the fallback, unless --isa was given.
BadIsa ==
    /\ status = "spike" /\ \A i \in DOMAIN hist : hist[i] = 0
    /\ status' \in {"retry", "failed"}
    /\ UNCHANGED <<checkerVars, pc, taken, hist, window, core>>

\* Spike prints no histogram at all.
NoHistogram ==
    /\ Spike /\ \A i \in DOMAIN hist : hist[i] = 0
    /\ status' = "failed"
    /\ UNCHANGED <<checkerVars, pc, taken, hist, window, core>>

\* Mutant: a histogram line replaces what an address has been counted before.
Retire_Replaces(t) ==
    /\ Spike /\ pc =< Len(insns)
    /\ pc' = t
    /\ hist' = [hist EXCEPT ![pc] = 1]
    /\ core' = AfterInsn(core, pc)
    /\ UNCHANGED <<checkerVars, status>>

\* The instruction at pc is retired and control goes to t.
Retire(t) ==
    /\ Spike /\ pc =< Len(insns)
    /\ pc' = t
    /\ hist' = [hist EXCEPT ![pc] = @ + 1]
    /\ core' = AfterInsn(core, pc)
    /\ UNCHANGED <<checkerVars, status>>

Fall ==
    /\ Retire(pc + 1)
    /\ window' = IF FormsBundle(pc) THEN pc ELSE window
    /\ UNCHANGED taken

Jump ==
    /\ pc =< Len(insns) /\ insns[pc].cls \in Control
    /\ taken < MaxTaken
    /\ \E t \in Targets(insns, pc) : Retire(t)
    /\ taken' = taken + 1
    /\ window' = 0

ProgramEnds ==
    /\ Spike /\ pc > Len(insns) /\ \E i \in DOMAIN hist : hist[i] # 0
    /\ status' = "done"
    /\ UNCHANGED <<checkerVars, pc, taken, hist, window, core>>

Ended == (exit # -1 \/ status \in {"done", "failed"}) /\ UNCHANGED <<checkerVars, profileVars>>

ProfileNext ==
    Analyse \/ CheckerMain \/ StartSpike \/ BadIsa \/ NoHistogram \/ Fall \/ Jump \/ ProgramEnds \/ Ended

ProfileSpec == ProfileInit /\ [][ProfileNext]_<<checkerVars, profileVars>>
-----------------------------------------------------------------------------
(***************************************************************************)
(* The figures of starbug_profile.py.                                      *)
(***************************************************************************)
SafeAt       == {bundles[k].hint : k \in SafeBundles}                 \* bundle_at
member_addrs == UNION {bundles[k].members : k \in SafeBundles}

\* Mutants, here and below: plausible bugs of the definition that follows.
\* Spike's count of a member is added to its bundle's.
Scalar_CountsMembers == {i \in 1..Len(insns) \ SafeAt : DeclaredLen(insns[i]) = 0}

\* What the loop over the listing counts as scalar.
Scalar == {i \in 1..Len(insns) \ (SafeAt \cup member_addrs) : DeclaredLen(insns[i]) = 0}

Executions(I) == SumFunctionOnSet(hist, I)
SlotsOf(K)    == SumFunction([k \in K |-> hist[bundles[k].hint] * Cardinality(bundles[k].members)])

dyn_total          == Executions(Scalar)
dyn_bundle_execs   == Executions(SafeAt)
dyn_in_bundles     == SlotsOf(SafeBundles)
dyn_payload        == dyn_total + dyn_in_bundles
issue_cycles_ideal == dyn_total + dyn_bundle_execs
-----------------------------------------------------------------------------
(***************************************************************************)
(* The figures of starbug_straddle.py.                                     *)
(***************************************************************************)
\* The last member's size is left out of the bundle's extent.
straddles_StartOnly(b) ==
    LET last == CHOOSE j \in b.members : \A k \in b.members : k =< j
    IN  insns[b.hint].addr \div LineBytes # insns[last].addr \div LineBytes

straddles(b) ==
    LET last == CHOOSE j \in b.members : \A k \in b.members : k =< j
        end  == insns[last].addr + insns[last].size - 1
    IN  insns[b.hint].addr \div LineBytes # end \div LineBytes

Straddling == {k \in SafeBundles : straddles(bundles[k])}

dead       == Executions({bundles[k].hint : k \in Straddling})
live       == Executions({bundles[k].hint : k \in SafeBundles \ Straddling})
dead_slots == SlotsOf(Straddling)
live_slots == SlotsOf(SafeBundles \ Straddling)
-----------------------------------------------------------------------------
\* Types of the checker's and the profiler's state.
ProfileTypeOK ==
    /\ CheckerTypeOK
    /\ status \in {"analysing", "spike", "retry", "done", "failed"}
    /\ pc \in 1..(Len(insns) + 1) /\ taken \in 0..MaxTaken
    /\ hist \in [1..Len(insns) -> Nat]
    /\ window \in {0} \cup Hints
    /\ core \in CoreType

\* Binaries that compile to what the contract asks for, without a hint among members.
WellFormed == NoNestedHints /\ ContractSafe(insns)

(***************************************************************************)
(* The profile is the core's execution, although it is computed from a     *)
(* histogram that does not know about bundles: its payload is what was     *)
(* retired, and its ideal issue cycles are the core's, plus a cycle for    *)
(* each member lost to a declined bundle and each hint that is too long.   *)
(* Both are short by the members executed after a branch into the middle   *)
(* of a bundle, which the module comment's "single caveat" does not name.  *)
(***************************************************************************)
ProfileExact ==
    status = "done" /\ WellFormed =>
        /\ dyn_payload + core.stray = core.retired
        /\ issue_cycles_ideal + dead_slots + core.ignored + core.stray = core.cycles

(***************************************************************************)
(* The straddle counter's split is the fetch unit's: bundles it calls live *)
(* are those the core formed, bundles it calls dead those the core         *)
(* declined, with their members, whatever the layout and the path taken.   *)
(***************************************************************************)
StraddleExact ==
    status = "done" /\ WellFormed =>
        /\ live = core.formed /\ dead = core.declined
        /\ live_slots = core.slots /\ dead_slots = core.lost
-----------------------------------------------------------------------------
\* The hints the fetch unit honours, and those of them whose bundle it forms.
Forming == {h \in 1..Len(insns) : FormsBundle(h)}
Fitting == {h \in Forming : Fits(h)}

\* The members behind the executions of hints H.
SlotsBehind(H) == SumFunction([h \in H |-> hist[h] * DeclaredLen(insns[h])])

\* The core has come to pc through a hint, and as many members are still to come.
Behind == window # 0 /\ pc \in Members(insns, window)
ToCome == window + DeclaredLen(insns[window]) + 1 - pc

(***************************************************************************)
(* The inductive invariant: each figure of the core is a sum over Spike's  *)
(* histogram.  What a hint is worth shows when the last of its members has *)
(* been retired; until then the rest of the open window is to come, and    *)
(* nothing breaks a window off when hints are not nested and no member is  *)
(* a branch.                                                               *)
(***************************************************************************)
ProfileInv ==
    /\ ProfileTypeOK /\ CheckInv
    /\ TargetsWithin(insns) /\ (Profiled(insns) => Ascending(insns))
    /\ status # "analysing" => idx > Len(insns) /\ Profiled(insns)
    /\ status = "done" => pc > Len(insns)
    /\ window # 0 => FormsBundle(window) /\ window < pc
    /\ core.retired = Executions(1..Len(insns) \ Hints)
    /\ core.ignored = Executions(Hints \ Forming)
    /\ core.formed = Executions(Fitting) /\ core.declined = Executions(Forming \ Fitting)
    /\ core.cycles + core.slots = Executions(1..Len(insns))
    /\ core.slots + core.lost + core.stray = Executions({i \in 1..Len(insns) : MemberOfOther(i)})
    /\ WellFormed =>
         /\ core.slots + (IF Behind /\ Fits(window) THEN ToCome ELSE 0) = SlotsBehind(Fitting)
         /\ core.lost + (IF Behind /\ ~Fits(window) THEN ToCome ELSE 0) = SlotsBehind(Forming \ Fitting)
=============================================================================
