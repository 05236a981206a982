---------------------------- MODULE MCCheckedRun ----------------------------
(***************************************************************************)
(* TLC instance of verify_fix: PlainListings have neither nested hints nor *)
(* control transfers in a window; BranchListings have branches there, in   *)
(* lane 0, that do not go to their own bundle (where the two cores would   *)
(* part).  Values are symbolic terms and branches go forward.              *)
(***************************************************************************)
EXTENDS CheckedRun

MCReg == {"a", "b", "c"}

Shape(size, cls, reads, writes, hint) ==
    [addr |-> 0, size |-> size, cls |-> cls, reads |-> reads, writes |-> writes, hint |-> hint]

HintShape(n) == Shape(2, "alu", {}, {}, n)

AddAB  == Shape(4, "alu", {"a"}, {"b"}, 0)
AddCC  == Shape(2, "alu", {"c"}, {"c"}, 0)
FmulBA == Shape(4, "fpu", {"b"}, {"a"}, 0)
LiB    == Shape(2, "alu", {}, {"b"}, 0)
Load   == Shape(4, "load", {"a"}, {"c"}, 0)
Branch == Shape(4, "branch", {"a"}, {}, 0)

Shapes == {HintShape(n) : n \in 1..3} \cup {AddAB, AddCC, FmulBA, LiB, Load, Branch}

Upto(S, n) == UNION {[1..k -> S] : k \in 0..n}

HintsOf(p) == {i \in 1..Len(p) : p[i].hint # 0}

PlainListings ==
    {p \in Upto(Shapes, 4) :
        \A h \in HintsOf(p) : \A j \in Members(p, h) \cap 1..Len(p) :
            p[j].hint = 0 /\ p[j].cls # "branch"}

BranchListings ==
    {p \in Upto({HintShape(2), AddAB, AddCC, Branch}, 4) :
        \A h \in HintsOf(p) : \A j \in Members(p, h) \cap 1..Len(p) :
            p[j].hint = 0 /\ (p[j].cls = "branch" => j = h + 1)}

MCListings == PlainListings \cup BranchListings

MCInitStates     == {[l \in MCReg \cup {"env"} |-> <<l>>]}
MCOp(i, l, args) == <<i, l, args>>
MCTargets(p, i)  ==
    {t \in (i + 2)..(Len(p) + 1) :
        \A h \in HintsOf(p) : i \in Members(p, h) => t \notin Members(p, h)}
=============================================================================
