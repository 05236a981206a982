--------------------------- MODULE BundleChecker ----------------------------
(***************************************************************************)
(* tools/starbug_bundle_check.py: walks the disassembly of a linked ELF    *)
(* from hint to hint, checks the bundle behind each one, and exits with    *)
(* status 1 iff some bundle is unsafe.  A bundle's errors and warnings are *)
(* sets of kinds; their wording is left out.                               *)
(***************************************************************************)
EXTENDS StarbugISA, Functions

CONSTANTS Listings,    \* the disassemblies the checker may be given
          LineBytes    \* --icache-line-bytes

ASSUME ListingsAssumption  == Listings \subseteq Seq(Insn)
ASSUME LineBytesAssumption == LineBytes \in Nat \ {0}

VARIABLES
    insns,      \* what disassemble returns
    idx,        \* the index of analyse's loop
    bundles,    \* the bundles found, in order
    covered,    \* indices of the instructions that belong to a bundle
    exit        \* the exit status, -1 until main returns

checkerVars == <<insns, idx, bundles, covered, exit>>

Kinds    == {"too_long", "truncated", "lane", "lsu_many", "lsu_lane", "raw", "waw"}
Warnings == {"war", "straddle"}

BundleType == [hint : Nat, declared_len : 1..MAX_HINT, members : SUBSET Nat,
               errors : SUBSET Kinds, warnings : SUBSET Warnings]

-----------------------------------------------------------------------------
\* Mutants, here and below: plausible bugs of the definition that follows.
Taken_StopsEarly(h) == {j \in Members(insns, h) : j < Len(insns)}

\* The indices analyse takes as members: it stops at the end of the listing.
Taken(h) == {j \in Members(insns, h) : j =< Len(insns)}

\* Some pair of members, in order, is in relation R.
SomePair(ms, R(_, _)) == \E j \in ms, k \in ms : j < k /\ R(insns[j], insns[k])

Straddles(h, ms) ==
    LET last == CHOOSE j \in ms : \A k \in ms : k =< j
        end  == insns[last].addr + insns[last].size - 1
    IN  insns[h].addr \div LineBytes # end \div LineBytes

\* Errors that make check_bundle return before it looks at the members.
FatalErrors(h, ms) ==
    IF DeclaredLen(insns[h]) > MAX_BUNDLE THEN {"too_long"}
    ELSE IF Cardinality(ms) < DeclaredLen(insns[h]) THEN {"truncated"}
    ELSE {}

\* Write-write conflicts are not looked for.
MemberErrors_NoWAW(h, ms) ==
    LET lsu == {j \in ms : uses_lsu(insns[j])} IN
    {e \in Kinds :
        \/ e = "lane"     /\ \E j \in ms \ {h + 1} : is_lane0_only(insns[j])
        \/ e = "lsu_many" /\ Cardinality(lsu) > 1
        \/ e = "raw"      /\ SomePair(ms, RAW)}

\* Only neighbouring lanes are compared.
MemberErrors_Neighbours(h, ms) ==
    {e \in Kinds :
        \/ e = "lane" /\ \E j \in ms \ {h + 1} : is_lane0_only(insns[j])
        \/ e = "raw"  /\ \E j \in ms : j + 1 \in ms /\ RAW(insns[j], insns[j + 1])
        \/ e = "waw"  /\ \E j \in ms : j + 1 \in ms /\ WAW(insns[j], insns[j + 1])}

MemberErrors(h, ms) ==
    LET lsu == {j \in ms : uses_lsu(insns[j])} IN
    {e \in Kinds :
        \/ e = "lane"     /\ \E j \in ms \ {h + 1} : is_lane0_only(insns[j])
        \/ e = "lsu_many" /\ Cardinality(lsu) > 1
        \/ e = "lsu_lane" /\ Cardinality(lsu) = 1 /\ h + 1 \notin lsu
        \/ e = "raw"      /\ SomePair(ms, RAW)
        \/ e = "waw"      /\ SomePair(ms, WAW)}

MemberWarnings(h, ms) ==
    {w \in Warnings : \/ w = "war"      /\ SomePair(ms, WAR)
                      \/ w = "straddle" /\ Straddles(h, ms)}

check_bundle(h, ms) ==
    LET fatal == FatalErrors(h, ms) IN
    [hint         |-> h,
     declared_len |-> DeclaredLen(insns[h]),
     members      |-> ms,
     errors       |-> IF fatal # {} THEN fatal ELSE MemberErrors(h, ms),
     warnings     |-> IF fatal # {} THEN {} ELSE MemberWarnings(h, ms)]

safe(b) == b.errors = {}

-----------------------------------------------------------------------------
CheckerInit ==
    /\ insns \in Listings
    /\ idx = 1
    /\ bundles = <<>>
    /\ covered = {}
    /\ exit = -1

Analysing == exit = -1 /\ idx =< Len(insns)

\* Not a hint: analyse steps over it.
StepOver ==
    /\ Analysing
    /\ DeclaredLen(insns[idx]) = 0
    /\ idx' = idx + 1
    /\ UNCHANGED <<insns, bundles, covered, exit>>

\* The loop steps into the bundle it has just taken.
TakeBundle_NoSkip ==
    /\ Analysing
    /\ DeclaredLen(insns[idx]) # 0
    /\ LET ms == Taken(idx) IN
         /\ bundles' = Append(bundles, check_bundle(idx, ms))
         /\ covered' = covered \cup ms \cup {idx}
         /\ idx' = idx + 1
    /\ UNCHANGED <<insns, exit>>

\* A hint: its members are taken, checked and skipped over.
TakeBundle ==
    /\ Analysing
    /\ DeclaredLen(insns[idx]) # 0
    /\ LET ms == Taken(idx) IN
         /\ bundles' = Append(bundles, check_bundle(idx, ms))
         /\ covered' = covered \cup ms \cup {idx}
         /\ idx' = idx + 1 + Cardinality(ms)
    /\ UNCHANGED <<insns, exit>>

\* main returns after the report.
Report ==
    /\ exit = -1
    /\ idx > Len(insns)
    /\ exit' = IF \E i \in 1..Len(bundles) : ~safe(bundles[i]) THEN 1 ELSE 0
    /\ UNCHANGED <<insns, idx, bundles, covered>>

Exited == exit # -1 /\ UNCHANGED checkerVars

CheckerNext == StepOver \/ TakeBundle \/ Report \/ Exited

CheckerSpec == CheckerInit /\ [][CheckerNext]_checkerVars
-----------------------------------------------------------------------------
\* The numbers summarise computes.
SafeBundles          == {i \in 1..Len(bundles) : safe(bundles[i])}
hint_count           == Len(bundles)
\* The members of unsafe bundles are counted as bundled.
bundled_insns_All == SumFunction([i \in 1..Len(bundles) |-> Cardinality(bundles[i].members)])

bundled_insns        == SumFunction([i \in SafeBundles |-> Cardinality(bundles[i].members)])
payload              == Len(insns) - hint_count
scalar_insns         == payload - bundled_insns
issue_cycles         == scalar_insns + Cardinality(SafeBundles)
lane_utilisation(k)  == Cardinality({i \in SafeBundles : Cardinality(bundles[i].members) > k})
-----------------------------------------------------------------------------
\* Types of the checker's state.
CheckerTypeOK ==
    /\ insns \in Seq(Insn)
    /\ idx \in Nat \ {0}
    /\ bundles \in Seq(BundleType)
    /\ covered \subseteq 1..Len(insns)
    /\ exit \in {-1, 0, 1}

Hints == {i \in 1..Len(insns) : DeclaredLen(insns[i]) # 0}

\* The instructions attributed to bundle i.
Part(i) == bundles[i].members \cup {bundles[i].hint}

\* No hint stands where another hint's members are taken from.
NoNestedHints == \A h \in Hints : Hints \cap Members(insns, h) = {}

(***************************************************************************)
(* The verdict is exact: when hints are not nested, the checker exits with *)
(* 0 just when every hint forms a bundle the contract calls safe.  It      *)
(* neither accepts an unsafe bundle nor rejects a safe one (an             *)
(* anti-dependence in particular), whatever it has stepped over before.    *)
(***************************************************************************)
VerdictExact ==
    (exit # -1 /\ NoNestedHints) =>
        ((exit = 0) <=> \A h \in Hints : Live(insns, h) /\ SafeBundle(insns, h))

(***************************************************************************)
(* Every instruction is attributed to at most one bundle, as its hint or   *)
(* as a member, and "covered" is the union of the bundles: what the        *)
(* utilisation figures count is counted once.                              *)
(***************************************************************************)
BundlesPartition ==
    /\ \A i, j \in 1..Len(bundles) : i # j => Part(i) \cap Part(j) = {}
    /\ covered = UNION {Part(i) : i \in 1..Len(bundles)}

(***************************************************************************)
(* The inductive invariant: the bundles found so far are those of hints    *)
(* that lie one behind the other and before idx, each judged as            *)
(* check_bundle judges it; no hint before idx has been overlooked, it has  *)
(* a bundle or is a member of one; and the exit status is that of the      *)
(* whole listing.                                                          *)
(***************************************************************************)
CheckInv ==
    /\ CheckerTypeOK
    /\ idx =< Len(insns) + 1
    /\ \A i \in 1..Len(bundles) :
         /\ \E h \in Hints : bundles[i] = check_bundle(h, Taken(h))
         /\ \A x \in Part(i) : x < idx
         /\ \A j \in (i + 1)..Len(bundles) : \A x \in Part(i) : x < bundles[j].hint
    /\ covered = UNION {Part(i) : i \in 1..Len(bundles)}
    /\ \A h \in Hints : h < idx => h \in covered
    /\ exit # -1 =>
         /\ idx > Len(insns)
         /\ exit = IF \E i \in 1..Len(bundles) : ~safe(bundles[i]) THEN 1 ELSE 0

(***************************************************************************)
(* The report's figures agree with each other: coverage is at most 100%,   *)
(* the estimated issue cycles never exceed the payload (a static ILP below *)
(* one is impossible), and the lanes' uses add up to the bundled           *)
(* instructions.                                                           *)
(***************************************************************************)
FiguresAgree ==
    /\ bundled_insns \in 0..payload
    /\ issue_cycles \in 0..payload
    /\ bundled_insns = SumFunction([k \in 0..(MAX_BUNDLE - 1) |-> lane_utilisation(k)])

(***************************************************************************)
(* The module comment's claim: the checker "re-derives every bundle" and   *)
(* proves its members independent and lane-legal, so that an accepted      *)
(* program has no unsafe bundle (incomplete ones are left to the           *)
(* truncation error).                                                      *)
(***************************************************************************)
EveryBundleProved ==
    exit = 0 => \A h \in Hints :
        Live(insns, h) /\ Members(insns, h) \subseteq 1..Len(insns) => SafeBundle(insns, h)
=============================================================================
