-------------------------- MODULE MCBundleChecker ---------------------------
(***************************************************************************)
(* TLC instance of the checker: every listing of at most four instructions *)
(* of eleven shapes, with I-cache lines of eight bytes.                    *)
(***************************************************************************)
EXTENDS BundleChecker

MCReg == {"a", "b", "c"}

Shape(size, cls, reads, writes, hint) ==
    [size |-> size, cls |-> cls, reads |-> reads, writes |-> writes, hint |-> hint]

HintShape(n) == Shape(2, "alu", {}, {}, n)

AddAB  == Shape(4, "alu", {"a"}, {"b"}, 0)
AddCC  == Shape(2, "alu", {"c"}, {"c"}, 0)
FmulBA == Shape(4, "fpu", {"b"}, {"a"}, 0)
LiB    == Shape(2, "alu", {}, {"b"}, 0)
Load   == Shape(4, "load", {"a"}, {"c"}, 0)
Store  == Shape(2, "store", {"a", "c"}, {}, 0)
Branch == Shape(4, "branch", {"a"}, {}, 0)

Shapes == {HintShape(n) : n \in {1, 2, 3, 5}} \cup {AddAB, AddCC, FmulBA, LiB, Load, Store, Branch}

\* Lays the shapes out in memory, one behind the other.
Listing(s) ==
    LET addr[k \in 1..Len(s)] == IF k = 1 THEN 0 ELSE addr[k - 1] + s[k - 1].size
    IN  [k \in 1..Len(s) |->
            [addr |-> addr[k], size |-> s[k].size, cls |-> s[k].cls,
             reads |-> s[k].reads, writes |-> s[k].writes, hint |-> s[k].hint]]

Upto(S, n) == UNION {[1..k -> S] : k \in 0..n}

MCListings == {Listing(s) : s \in Upto(Shapes, 4)}
=============================================================================
