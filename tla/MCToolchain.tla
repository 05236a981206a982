---------------------------- MODULE MCToolchain ----------------------------
(***************************************************************************)
(* TLC instance of the tool chain and of the cores behind it: blocks of up *)
(* to four machine instructions, among them an atomic whose opcode name    *)
(* contains "ADD" and an AUIPC, on machines of one to five lanes.  The     *)
(* last table gives the workers what no worker lane can execute.           *)
(*                                                                         *)
(* Programs, which the cores can run, holds every binary that hints of up  *)
(* to three members could make of the functions Run.  Values are symbolic  *)
(* terms and branches go forward, into bundles too.                        *)
(***************************************************************************)
EXTENDS CompiledRun

Plain(name, load, store, uses, defs) ==
    [kind |-> "plain", mayLoad |-> load, mayStore |-> store, name |-> name,
     uses |-> uses, defs |-> defs]

AddAB == Plain({"ADD"}, FALSE, FALSE, {"a"}, {"b"})
AddAC == Plain({"ADD"}, FALSE, FALSE, {"a"}, {"c"})
FmulA == Plain({"MUL"}, FALSE, FALSE, {"a"}, {"a"})
Slt   == Plain({"SLT"}, FALSE, FALSE, {"c"}, {"d"})
Auipc == Plain({}, FALSE, FALSE, {"x0"}, {"d"})
Lw  == Plain({}, TRUE, FALSE, {"a"}, {"d"})
Amo   == Plain({"ADD"}, TRUE, TRUE, {"a", "c"}, {"c"})
Call   == [Plain({}, FALSE, FALSE, {"a"}, {"a"}) EXCEPT !.kind = "call"]
Branch == [Plain({}, FALSE, FALSE, {"b"}, {}) EXCEPT !.kind = "terminator"]
Debug  == [Plain({}, FALSE, FALSE, {}, {}) EXCEPT !.kind = "debug"]

Shapes == {AddAB, AddAC, FmulA, Slt, Auipc, Lw, Amo, Call, Branch, Debug}

ClassOf == [m \in Shapes |->
    CASE m = FmulA -> "fpu"    [] m = Auipc -> "pcrel"  [] m = Lw -> "load"
      [] m = Amo   -> "atomic" [] m = Call  -> "jump"   [] m = Branch -> "branch"
      [] OTHER     -> "alu"]

One(m) == [addr |-> 0, size |-> IF m = Slt THEN 2 ELSE 4, cls |-> ClassOf[m],
           reads |-> m.uses \ {"x0"}, writes |-> m.defs \ {"x0"}, hint |-> 0]

\* A call becomes two instructions, a debug instruction none.
MCEncode(m) == CASE m = Debug -> <<>>
                 [] m = Call  -> <<[One(m) EXCEPT !.cls = "pcrel"], One(m)>>
                 [] OTHER     -> <<One(m)>>

Upto(S, n) == UNION {[1..k -> S] : k \in 0..n}

MCRegister  == {"x0", "a", "b", "c", "d"}
MCReg       == MCRegister \ {"x0"}

\* The blocks and functions that are run.
RunBlocks == Upto({AddAB, AddAC, Slt, Lw, Branch}, 3) \cup {<<Branch, AddAC, AddAB, Lw>>}
RunPairs  == {<<AddAB, Branch>>, <<AddAB, AddAC>>, <<Slt, AddAC>>}
Run       == {<<b>> : b \in RunBlocks} \cup {<<b, c>> : b \in RunPairs, c \in RunPairs}

MCFunctions == Run
               \cup {<<b>> : b \in Upto(Shapes, 3)}
               \cup {<<b, c>> : b \in Upto(Shapes, 2), c \in Upto({AddAB, AddAC, Lw}, 1)}
               \cup {<< <<AddAB, AddAC, Lw, Slt>> >>, << <<Lw, AddAB, AddAC>>, <<Amo, AddAB>> >>}

Cfg(n, lanes, single) ==
    [numLanes |-> n, lanes |-> lanes, allowShort |-> TRUE, emitSingle |-> single]

MoveTable == <<{"Any"}, WorkerClasses, WorkerClasses, WorkerClasses, WorkerClasses>>

MCConfigs == {Cfg(1, StandardLanes(1), FALSE), Cfg(2, StandardLanes(2), TRUE),
              Cfg(4, StandardLanes(4), FALSE),
              Cfg(3, MoveTable, FALSE), Cfg(5, MoveTable, FALSE),
              Cfg(3, <<ALUClasses, {"Any"}, {"Any"}>>, FALSE)}

HintOf(n) == [addr |-> 0, size |-> 2, cls |-> "alu", reads |-> {}, writes |-> {}, hint |-> n]

\* The listings P with instruction m behind each, with a hint in front of it or without.
Grown(P, m) == {p \o h \o MCEncode(m) : p \in P, h \in {<<>>} \cup {<<HintOf(n)>> : n \in 1..3}}

\* A sequence of machine instructions with hints anywhere.
Hintings(s) == LET B[k \in 0..Len(s)] == IF k = 0 THEN {<<>>} ELSE Grown(B[k - 1], s[k])
               IN  {p \in B[Len(s)] : \A i \in 1..Len(p) : Members(p, i) \subseteq 1..Len(p)}

\* A listing with the addresses the printer gives it.
Laid(p) == LET At[k \in 1..Len(p)] == IF k = 1 THEN 0 ELSE At[k - 1] + p[k - 1].size
           IN  [k \in 1..Len(p) |-> [p[k] EXCEPT !.addr = At[k]]]

\* A definition of its own for TLC's sake, which evaluates it once.
Binaries ==
    {Laid(p) : p \in UNION {Hintings(s) : s \in RunBlocks \cup {b \o c : b \in RunPairs, c \in RunPairs}}}

MCPrograms == {<<>>} \cup Binaries

MCInitStates     == {[l \in MCReg \cup {"env"} |-> <<l>>]}
MCOp(i, l, args) == <<i, l, args>>
MCTargets(p, i)  == (i + 2)..(Len(p) + 1)
=============================================================================
