---------------------------- MODULE MCPacketizer ----------------------------
(***************************************************************************)
(* TLC instance of the packetizer: every block of at most four             *)
(* instructions of eight shapes, every function of two blocks of at most   *)
(* two, and machines of one to three lanes.                                *)
(***************************************************************************)
EXTENDS Packetizer

Plain(name, load, store, uses, defs) ==
    [kind |-> "plain", mayLoad |-> load, mayStore |-> store, name |-> name,
     uses |-> uses, defs |-> defs]

AddAB == Plain({"ADD"}, FALSE, FALSE, {"a"}, {"b"})
AddCC == Plain({"ADD"}, FALSE, FALSE, {"c"}, {"c"})
MulBA == Plain({"MUL"}, FALSE, FALSE, {"b"}, {"a"})
LiB   == Plain({"LI"}, FALSE, FALSE, {"x0"}, {"b"})
Nop   == Plain({"ADD"}, FALSE, FALSE, {"x0"}, {"x0"})
Load  == Plain({}, TRUE, FALSE, {"a"}, {"d"})
Store == Plain({}, FALSE, TRUE, {"a", "d"}, {})
Amo   == Plain({"ADD"}, TRUE, TRUE, {"a", "c"}, {"c"})
Slt   == Plain({"SLT"}, FALSE, FALSE, {"c"}, {"d"})
Call  == [Plain({}, FALSE, FALSE, {"a"}, {"a"}) EXCEPT !.kind = "call"]

AddTo(r) == Plain({"ADD"}, FALSE, FALSE, {"a"}, {r})

Shapes == {AddAB, AddCC, MulBA, LiB, Nop, Load, Amo, Call}
FewShapes == {AddAB, AddCC, Load, Call, Slt, Store}

Upto(S, n) == UNION {[1..k -> S] : k \in 0..n}

MCRegister  == {"x0", "a", "b", "c", "d"}
MCFunctions == {<<>>} \cup {<<b>> : b \in Upto(Shapes, 4)}
                      \cup {<<b, c>> : b \in Upto(FewShapes, 2), c \in Upto(FewShapes, 2)}

Cfg(n, lanes, short, single) ==
    [numLanes |-> n, lanes |-> lanes, allowShort |-> short, emitSingle |-> single]

\* Overrides: "0:alu;1:alu" accepts no load, "0:load,store;..." no ALU operation on lane 0.
NoLoads   == <<ALUClasses, ALUClasses>>
SplitUnit == <<{"Load", "Store"}, ALUClasses, ALUClasses>>

MCConfigs == {Cfg(n, StandardLanes(n), TRUE, FALSE) : n \in 1..3}
             \cup {Cfg(3, StandardLanes(3), FALSE, TRUE), Cfg(2, NoLoads, TRUE, FALSE)}
SplitConfigs == {Cfg(3, SplitUnit, TRUE, FALSE)}
=============================================================================
