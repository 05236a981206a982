---------------------------- MODULE ConfigLoader ----------------------------
(***************************************************************************)
(* StarbugVLIWConfig.cpp: how the pass's configuration is made from the    *)
(* command line.  The standard lane table is built first; then the lane    *)
(* specs of -starbug-vliw-lane-op-classes ("0:any;1:alu,mv;...") are       *)
(* applied one after the other until one of them is invalid.               *)
(*                                                                         *)
(* A class token is the set of classes applyClassToken switches on for it, *)
(* {} for a blank one.  A lane spec is                                     *)
(*   "blank"      skipped;                                                 *)
(*   "malformed"  no lane id, no class list, or an id that is no number;   *)
(*   "lane"       an id and a list of tokens, BadToken among them or not.  *)
(***************************************************************************)
EXTENDS VLIWConfig

CONSTANTS CommandLines,   \* the option values the compiler may be given
          UIntMax         \* the largest value of an unsigned

\* A token applyClassToken does not know: it stands for no set of classes.
BadToken == {"?"}

Token == (SUBSET OpClass) \cup {BadToken}

LaneSpec == [kind : {"blank", "malformed", "lane"}, lane : 0..UIntMax, tokens : Seq(Token)]

CommandLine == [lanes : 0..UIntMax, emitSingle : BOOLEAN, specs : Seq(LaneSpec)]

ASSUME UIntMaxAssumption      == UIntMax \in Nat \ {0}
ASSUME CommandLinesAssumption == CommandLines \subseteq CommandLine

VARIABLES
    cl,         \* the command line
    config,     \* Cfg
    next,       \* the lane spec applyLaneOpClassOverrides is at
    grow,       \* I of ensureLaneExists' loop, -1 outside of it
    status      \* "applying", then what applyLaneOpClassOverrides returned

vars == <<cl, config, next, grow, status>>
-----------------------------------------------------------------------------
Widest(a, b) == IF a > b THEN a ELSE b

\* Where the scan of the token list stops: at the first bad token, or past the end.
GoodTokens(s) == {t \in 1..Len(s.tokens) : \A u \in 1..t : s.tokens[u] # BadToken}

\* The list is read to its end, whatever it has in its middle.
parseLaneClassList_SkipsBad(s) == UNION {s.tokens[t] : t \in {u \in 1..Len(s.tokens) : s.tokens[u] # BadToken}}

\* The bits parseLaneClassList leaves set: those of the tokens before a bad one.
parseLaneClassList(s) == UNION {s.tokens[t] : t \in GoodTokens(s)}

ListValid(s) == \A t \in 1..Len(s.tokens) : s.tokens[t] # BadToken

\* The lane ensureLaneExists appends when its counter is at i.
NewLane(i) == IF i = 0 THEN makeLane0 ELSE makeALULane

\* Mutants, here and below, are plausible bugs of the definition that follows.
\* Here the loop that appends the worker lanes stops one lane short.
Standard_LaneShort(c) == [numLanes   |-> Widest(1, c.lanes),
                          lanes      |-> StandardLanes(Widest(1, c.lanes - 1)),
                          allowShort |-> TRUE,
                          emitSingle |-> c.emitSingle]

Standard(c) == [numLanes   |-> Widest(1, c.lanes),
                lanes      |-> StandardLanes(Widest(1, c.lanes)),
                allowShort |-> TRUE,
                emitSingle |-> c.emitSingle]

Init ==
    /\ cl \in CommandLines
    /\ config = Standard(cl)
    /\ next = 1
    /\ grow = -1
    /\ status = "applying"

ThisSpec == cl.specs[next]
AtSpec == status = "applying" /\ next =< Len(cl.specs)

\* A blank spec is not stepped over.
SkipBlank_Stays ==
    /\ AtSpec
    /\ ThisSpec.kind = "blank"
    /\ UNCHANGED vars

SkipBlank ==
    /\ AtSpec
    /\ ThisSpec.kind = "blank"
    /\ next' = next + 1
    /\ UNCHANGED <<cl, config, grow, status>>

Malformed ==
    /\ AtSpec
    /\ ThisSpec.kind = "malformed"
    /\ status' = "rejected"
    /\ UNCHANGED <<cl, config, next, grow>>

\* ensureLaneExists is entered: I = Lanes.size().
EnterLane ==
    /\ AtSpec
    /\ ThisSpec.kind = "lane"
    /\ grow = -1
    /\ grow' = Len(config.lanes)
    /\ UNCHANGED <<cl, config, next, status>>

\* Lanes created on the way to a higher id take everything.
GrowTable_Permissive ==
    /\ AtSpec
    /\ grow # -1 /\ grow =< ThisSpec.lane
    /\ config' = [config EXCEPT !.lanes = Append(@, makeLane0)]
    /\ grow' = (grow + 1) % (UIntMax + 1)
    /\ UNCHANGED <<cl, next, status>>

\* One iteration of its loop; the counter wraps around.
GrowTable ==
    /\ AtSpec
    /\ grow # -1 /\ grow =< ThisSpec.lane
    /\ config' = [config EXCEPT !.lanes = Append(@, NewLane(grow))]
    /\ grow' = (grow + 1) % (UIntMax + 1)
    /\ UNCHANGED <<cl, next, status>>

\* The classes are added to those of an earlier spec of the lane.
SetClasses_NoReset ==
    /\ AtSpec
    /\ grow > ThisSpec.lane
    /\ config' = [config EXCEPT !.lanes[ThisSpec.lane + 1] = @ \cup parseLaneClassList(ThisSpec)]
    /\ grow' = -1
    /\ IF ListValid(ThisSpec)
       THEN next' = next + 1 /\ status' = status
       ELSE next' = next /\ status' = "rejected"
    /\ UNCHANGED cl

\* The loop is over: the lane's classes are replaced by those of the spec.
SetClasses ==
    /\ AtSpec
    /\ grow > ThisSpec.lane
    /\ config' = [config EXCEPT !.lanes[ThisSpec.lane + 1] = parseLaneClassList(ThisSpec)]
    /\ grow' = -1
    /\ IF ListValid(ThisSpec)
       THEN next' = next + 1 /\ status' = status
       ELSE next' = next /\ status' = "rejected"
    /\ UNCHANGED cl

\* Every spec was applied: the table may have become wider than NumLanes.
Accept ==
    /\ status = "applying"
    /\ next > Len(cl.specs)
    /\ config' = [config EXCEPT !.numLanes = Widest(@, Len(config.lanes))]
    /\ status' = "accepted"
    /\ UNCHANGED <<cl, next, grow>>

Loaded == status # "applying"

Returned == Loaded /\ UNCHANGED vars

Next == SkipBlank \/ Malformed \/ EnterLane \/ GrowTable \/ SetClasses \/ Accept \/ Returned

Spec == Init /\ [][Next]_vars
FairSpec == Spec /\ WF_vars(Next)
-----------------------------------------------------------------------------
\* Types: the configuration is always one the packetizer can be built with.
TypeOK ==
    /\ cl \in CommandLine
    /\ config \in ConfigType
    /\ next \in 1..(Len(cl.specs) + 1)
    /\ grow \in -1..UIntMax
    /\ status \in {"applying", "accepted", "rejected"}

(***************************************************************************)
(* The pass never asks for a lane outside of the table: the table has an   *)
(* entry for every lane up to the bundle width, also when the overrides    *)
(* were rejected half way.                                                 *)
(***************************************************************************)
LanesCoverWidth == maxBundleWidth(config) =< Len(config.lanes)

SpecsOf(specs, l, n) == {k \in 1..n : specs[k].kind = "lane" /\ specs[k].lane = l}

LastOf(specs, l, n) ==
    CHOOSE k \in SpecsOf(specs, l, n) : \A j \in SpecsOf(specs, l, n) : j =< k

AllTokens(s) == UNION {s.tokens[t] : t \in 1..Len(s.tokens)}

\* What the first n lane specs say of lane l, read all at once.
Meaning(specs, l, n) == IF SpecsOf(specs, l, n) = {} THEN NewLane(l)
                        ELSE AllTokens(specs[LastOf(specs, l, n)])

\* The table is what the first n specs mean, and has every lane they name.
TableMeans(specs, table, n) ==
    /\ \A l \in 0..(Len(table) - 1) : table[l + 1] = Meaning(specs, l, n)
    /\ \A k \in 1..n : specs[k].kind = "lane" => specs[k].lane < Len(table)

\* It has no lane beyond those asked for and those they name.
EndsAtNamed(c, table, n) == \/ Len(table) = Widest(1, c.lanes)
                            \/ SpecsOf(c.specs, Len(table) - 1, n) # {}

(***************************************************************************)
(* An accepted spec means what it says: the last spec of a lane decides    *)
(* its classes alone, lanes nobody mentions have the standard classes,     *)
(* also those that were created to reach a higher lane id, and the bundle  *)
(* width is that of the table.                                             *)
(***************************************************************************)
AcceptedMeaning ==
    status = "accepted" =>
        /\ TableMeans(cl.specs, config.lanes, Len(cl.specs))
        /\ EndsAtNamed(cl, config.lanes, Len(cl.specs))
        /\ config.numLanes = Len(config.lanes)

\* The classes s lists in front of its first bad token.
CutShort(s, classes) ==
    \E n \in 0..(Len(s.tokens) - 1) :
        /\ s.tokens[n + 1] = BadToken /\ \A t \in 1..n : s.tokens[t] # BadToken
        /\ classes = UNION {s.tokens[t] : t \in 1..n}

(***************************************************************************)
(* "ignoring invalid spec" (StarbugVLIWConfig.cpp:200) ignores part of it: *)
(* after an error the bundle width is the one asked for, whatever lanes    *)
(* were appended; the specs in front of the bad one keep their effect, the *)
(* lane of a bad class list has what stands before its first unknown       *)
(* class, and every other lane is as if the rest had not been written.     *)
(***************************************************************************)
RejectedIsContained ==
    status = "rejected" =>
        /\ config.numLanes = Widest(1, cl.lanes)
        /\ \A l \in 0..(Len(config.lanes) - 1) :
             IF ThisSpec.kind = "lane" /\ ThisSpec.lane = l
             THEN CutShort(ThisSpec, config.lanes[l + 1])
             ELSE config.lanes[l + 1] = Meaning(cl.specs, l, next - 1)

(***************************************************************************)
(* Loading ends, provided no lane id is the largest unsigned: there        *)
(* ensureLaneExists' counter wraps around before it can exceed the id.     *)
(***************************************************************************)
LoadReturns ==
    (\A k \in 1..Len(cl.specs) : cl.specs[k].lane < UIntMax) => <>Loaded

(***************************************************************************)
(* The inductive invariant.  While lane specs are applied, the table is    *)
(* what the specs so far mean and ends at the widest lane named; while the *)
(* table grows it ends at the loop's counter.  A spec for the largest      *)
(* unsigned never leaves the loop, so nothing is said of the table then.   *)
(***************************************************************************)
Growing == grow # -1

LoadInv ==
    /\ TypeOK
    /\ LanesCoverWidth
    /\ AcceptedMeaning
    /\ RejectedIsContained
    /\ status # "accepted" => config.numLanes = Widest(1, cl.lanes)
    /\ Growing => AtSpec /\ ThisSpec.kind = "lane"
    /\ status = "applying" /\ ~Growing =>
         /\ Len(config.lanes) =< UIntMax
         /\ TableMeans(cl.specs, config.lanes, next - 1)
         /\ EndsAtNamed(cl, config.lanes, next - 1)
    /\ Growing /\ ThisSpec.lane < UIntMax =>
         /\ grow = Len(config.lanes)
         /\ TableMeans(cl.specs, config.lanes, next - 1)
         /\ \/ EndsAtNamed(cl, config.lanes, next - 1)
            \/ Len(config.lanes) =< ThisSpec.lane + 1
=============================================================================
