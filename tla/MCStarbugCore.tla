--------------------------- MODULE MCStarbugCore ----------------------------
(***************************************************************************)
(* TLC instance of the core: programs of up to four instructions, forward  *)
(* branches (so that every program ends), and symbolic results: a value is *)
(* the term that computed it, so two different computations never agree by *)
(* accident.                                                               *)
(***************************************************************************)
EXTENDS StarbugCore

MCReg == {"a", "b", "c"}

Shape(size, cls, reads, writes, hint) ==
    [addr |-> 0, size |-> size, cls |-> cls, reads |-> reads, writes |-> writes, hint |-> hint]

HintShape(n) == Shape(2, "alu", {}, {}, n)

AddAB  == Shape(4, "alu", {"a"}, {"b"}, 0)
AddCC  == Shape(2, "alu", {"c"}, {"c"}, 0)
FmulBA == Shape(4, "fpu", {"b"}, {"a"}, 0)
Load   == Shape(4, "load", {"c"}, {"b"}, 0)
Store  == Shape(2, "store", {"a", "c"}, {}, 0)
Branch == Shape(4, "branch", {"a"}, {}, 0)

Shapes == {HintShape(n) : n \in {1, 2, 3, 5}} \cup {AddAB, AddCC, FmulBA, Load, Store, Branch}

Upto(S, n) == UNION {[1..k -> S] : k \in 0..n}

MCInitStates     == {[l \in MCReg \cup {"env"} |-> <<l>>]}
MCOp(i, l, args) == <<i, l, args>>
MCTargets(p, i)  == (i + 2)..(Len(p) + 1)

SafePrograms == {p \in Upto(Shapes, 4) : ContractSafe(p)}
=============================================================================
