---------------------------- MODULE Packetizer -----------------------------
(***************************************************************************)
(* StarbugVLIWPacketizer.cpp: the machine-function pass that groups        *)
(* consecutive instructions of a basic block into packets and inserts a    *)
(* STARBUG_BUNDLE_HINT in front of the packets worth issuing together.     *)
(* It inserts hints and changes nothing else, so its output is the set     *)
(* "hints".                                                                *)
(***************************************************************************)
EXTENDS MachineCode

CONSTANTS Functions,   \* the machine functions the pass may be run on
          Configs      \* the configurations it may be built with

ASSUME FunctionsAssumption == Functions \subseteq Seq(Seq(MachineInstr))
ASSUME ConfigsAssumption   == Configs \subseteq ConfigType

\* Mutants, here and below: plausible bugs of the definition that follows.
hasPacketDependency_NoWAR(mi, p) ==
    mi.uses \cap p.defs # {} \/ mi.defs \cap p.defs # {}

hasPacketDependency_NoRAW(mi, p) == mi.defs \cap (p.defs \cup p.uses) # {}

\* Two instructions that only read the same register are kept apart.
hasPacketDependency_RAR(mi, p) ==
    \/ mi.uses \cap (p.defs \cup p.uses) # {}
    \/ mi.defs \cap (p.defs \cup p.uses) # {}

hasPacketDependency(mi, p) ==
    \/ mi.uses \cap p.defs # {}                 \* RAW
    \/ mi.defs \cap (p.defs \cup p.uses) # {}   \* WAW, WAR

-----------------------------------------------------------------------------
VARIABLES
    config,    \* Config, fixed when the pass object is constructed
    eligible,  \* hasStarbugVLIW() and not skipFunction()
    mf,        \* the machine function
    bb,        \* the block being packetized; Len(mf) + 1 when the pass returns
    pos,       \* the instruction the loop is at
    packet,    \* Packet, PacketLanes, PacketUses and PacketDefs
    hints,     \* the hints inserted so far
    changed    \* Changed, the value the pass returns

vars == <<config, eligible, mf, bb, pos, packet, hints, changed>>

EmptyPacket == [members |-> <<>>, lanes |-> <<>>, uses |-> {}, defs |-> {}]

Extend(p, lane, mi) == [members |-> Append(p.members, pos),
                        lanes   |-> Append(p.lanes, lane),
                        uses    |-> p.uses \cup mi.uses,
                        defs    |-> p.defs \cup mi.defs]

\* Only the free lane is looked for, not a legal one.
FreeLanes_AnyLane(p, class) ==
    {l \in 0..(maxBundleWidth(config) - 1) : \A k \in 1..Len(p.lanes) : p.lanes[k] # l}

\* The free lanes that accept the class; tryAssignLane takes the lowest.
FreeLanes(p, class) ==
    {l \in 0..(maxBundleWidth(config) - 1) :
        /\ isLaneLegal(config, l, class)
        /\ \A k \in 1..Len(p.lanes) : p.lanes[k] # l}

tryAssignLane(p, class) ==
    IF FreeLanes(p, class) = {} THEN -1
    ELSE CHOOSE l \in FreeLanes(p, class) : \A m \in FreeLanes(p, class) : l =< m

ShouldEmitHint(p) ==
    LET size == Len(p.members) IN
    /\ size # 0
    /\ \/ size = maxBundleWidth(config)
       \/ size # 1 /\ config.allowShort
       \/ size = 1 /\ config.emitSingle

\* The hint counts itself.
Emitted_CountsHint(p) ==
    IF ShouldEmitHint(p)
    THEN {[bb |-> bb, at |-> p.members[1], len |-> Len(p.members) + 1]} ELSE {}

\* What flushPacket inserts for packet p.
Emitted(p) == IF ShouldEmitHint(p)
              THEN {[bb |-> bb, at |-> p.members[1], len |-> Len(p.members)]}
              ELSE {}

IsFull(p) == Len(p.members) >= maxBundleWidth(config)

Insert(new) == /\ hints' = hints \cup new
               /\ changed' = (changed \/ new # {})

MI == mf[bb][pos]
MustFlush == packet.members # <<>> /\ hasPacketDependency(MI, packet)
-----------------------------------------------------------------------------
Init ==
    /\ config \in Configs
    /\ mf \in Functions
    /\ eligible \in BOOLEAN
    /\ bb = 1
    /\ pos = 1
    /\ packet = EmptyPacket
    /\ hints = {}
    /\ changed = FALSE

\* runOnMachineFunction returns at once: no Starbug subtarget, or skipFunction.
SkipFunction ==
    /\ ~eligible
    /\ bb =< Len(mf)
    /\ bb' = Len(mf) + 1
    /\ UNCHANGED <<config, eligible, mf, pos, packet, hints, changed>>

AtInstr == eligible /\ bb =< Len(mf) /\ pos =< Len(mf[bb])

\* An instruction that cannot be packetized ends the packet.
Barrier ==
    /\ AtInstr
    /\ ~isPacketizableMI(MI)
    /\ Insert(Emitted(packet))
    /\ packet' = EmptyPacket
    /\ pos' = pos + 1
    /\ UNCHANGED <<config, eligible, mf, bb>>

(***************************************************************************)
(* The instruction is put at the end of packet p (the one open, or a fresh *)
(* one), which is flushed in the same iteration when that fills it.        *)
(***************************************************************************)
PutInto(p, flushed) ==
    LET full == Extend(p, tryAssignLane(p, classifyOpClass(MI)), MI) IN
    /\ tryAssignLane(p, classifyOpClass(MI)) >= 0
    /\ packet' = IF IsFull(full) THEN EmptyPacket ELSE full
    /\ Insert(flushed \cup (IF IsFull(full) THEN Emitted(full) ELSE {}))
    /\ pos' = pos + 1
    /\ UNCHANGED <<config, eligible, mf, bb>>

Join ==
    /\ AtInstr
    /\ isPacketizableMI(MI)
    /\ ~MustFlush
    /\ PutInto(packet, {})

\* flushPacket does not clear the packet.
FlushAndJoin_KeepsPacket ==
    /\ AtInstr
    /\ isPacketizableMI(MI)
    /\ MustFlush \/ tryAssignLane(packet, classifyOpClass(MI)) < 0
    /\ PutInto(packet, Emitted(packet))

\* A dependence on the packet, or no free lane in it: flush, then start afresh.
FlushAndJoin ==
    /\ AtInstr
    /\ isPacketizableMI(MI)
    /\ MustFlush \/ tryAssignLane(packet, classifyOpClass(MI)) < 0
    /\ PutInto(EmptyPacket, Emitted(packet))

\* An instruction without a lane is tried again.
Unplaceable_Retries ==
    /\ AtInstr
    /\ isPacketizableMI(MI)
    /\ tryAssignLane(EmptyPacket, classifyOpClass(MI)) < 0
    /\ Insert(Emitted(packet))
    /\ packet' = EmptyPacket
    /\ UNCHANGED <<config, eligible, mf, bb, pos>>

\* No lane of the machine accepts the class: the instruction stays scalar.
Unplaceable ==
    /\ AtInstr
    /\ isPacketizableMI(MI)
    /\ tryAssignLane(EmptyPacket, classifyOpClass(MI)) < 0
    /\ Insert(Emitted(packet))
    /\ packet' = EmptyPacket
    /\ pos' = pos + 1
    /\ UNCHANGED <<config, eligible, mf, bb>>

\* The flush after the loop is missing.
EndBlock_NoFlush ==
    /\ eligible
    /\ bb =< Len(mf)
    /\ pos = Len(mf[bb]) + 1
    /\ packet' = EmptyPacket
    /\ bb' = bb + 1
    /\ pos' = 1
    /\ UNCHANGED <<config, eligible, mf, hints, changed>>

\* The end of packetizeBasicBlock: the last flush, then the next block.
EndBlock ==
    /\ eligible
    /\ bb =< Len(mf)
    /\ pos = Len(mf[bb]) + 1
    /\ Insert(Emitted(packet))
    /\ packet' = EmptyPacket
    /\ bb' = bb + 1
    /\ pos' = 1
    /\ UNCHANGED <<config, eligible, mf>>

Done == bb > Len(mf)

\* The pass has returned.
Returned == Done /\ UNCHANGED vars

Next == SkipFunction \/ Barrier \/ Join \/ FlushAndJoin \/ Unplaceable \/ EndBlock \/ Returned

Spec == Init /\ [][Next]_vars
FairSpec == Spec /\ WF_vars(Next)
-----------------------------------------------------------------------------
(***************************************************************************)
(* Types: the packet is a sequence of positions and lanes, the hints lie   *)
(* in the function.                                                        *)
(***************************************************************************)
PacketType == [members : Seq(Nat), lanes : Seq(Nat),
               uses : SUBSET Register, defs : SUBSET Register]

TypeOK ==
    /\ config \in ConfigType /\ mf \in Seq(Seq(MachineInstr)) /\ eligible \in BOOLEAN
    /\ bb \in 1..(Len(mf) + 1)
    /\ pos \in Nat \ {0}
    /\ packet \in PacketType
    /\ hints \subseteq HintType
    /\ changed \in BOOLEAN

(***************************************************************************)
(* Every bundle the hardware will form from the pass's output lies inside  *)
(* one basic block, holds only packetizable instructions and has no RAW,   *)
(* WAW or WAR pair.  The pass checks an instruction against the packet it  *)
(* keeps; the hardware takes the instructions that follow the hint.  The   *)
(* property says the two are the same instructions.                        *)
(***************************************************************************)
BundlesIndependent == \A h \in hints : WindowIndependent(mf, h)

(***************************************************************************)
(* No two bundles overlap, hence no hint stands inside another's window,   *)
(* where it would take the place of a member.                              *)
(***************************************************************************)
BundlesDisjoint == \A g, h \in hints : Overlap(g, h) => g = h

(***************************************************************************)
(* tryAssignLane assigns lanes, but hints are inserted in program order    *)
(* and the hardware takes the place in the bundle for the lane.  Under a   *)
(* table with uniform workers the two agree: every member is legal on the  *)
(* lane it will really be issued to.                                       *)
(***************************************************************************)
PlaceIsLegalLane ==
    UniformWorkers(config) => \A h \in hints : WindowLaneLegal(config, mf, h)

(***************************************************************************)
(* Packet p is a faithful record of the last instructions before q in      *)
(* block b of function fn: it holds them all, in order, with their         *)
(* registers; they are independent; and under uniform workers the lane     *)
(* assigned to a member is its place.                                      *)
(***************************************************************************)
PacketAt(cfg, fn, b, p, q) ==
    LET n == Len(p.members)
        Member(k) == fn[b][p.members[k]]
    IN  /\ p \in PacketType
        /\ Len(p.lanes) = n
        /\ n < q
        /\ n > 0 => b =< Len(fn) /\ q - 1 =< Len(fn[b])
        /\ \A k \in 1..n : /\ p.members[k] = q - n + k - 1
                           /\ isPacketizableMI(Member(k))
                           /\ Member(k).uses \subseteq p.uses
                           /\ Member(k).defs \subseteq p.defs
        /\ \A k \in 1..n, m \in 1..n : k < m => Independent(Member(k), Member(m))
        /\ UniformWorkers(cfg) =>
             \A k \in 1..n : /\ p.lanes[k] = k - 1
                             /\ isLaneLegal(cfg, k - 1, classifyOpClass(Member(k)))

GoodHint(cfg, fn, h) == /\ WindowIndependent(fn, h)
                        /\ h.len =< maxBundleWidth(cfg)
                        /\ UniformWorkers(cfg) => WindowLaneLegal(cfg, fn, h)

\* Hint h lies wholly before position q of block b.
Behind(h, b, q) == h.bb < b \/ (h.bb = b /\ h.at + h.len =< q)

(***************************************************************************)
(* The inductive invariant: between two iterations of the loop the packet  *)
(* is open, faithful and not full, every hint inserted is good, and the    *)
(* packet starts where the hinted windows end.                             *)
(***************************************************************************)
PacketInv ==
    /\ TypeOK
    /\ PacketAt(config, mf, bb, packet, pos)
    /\ Len(packet.members) < maxBundleWidth(config)
    /\ ~eligible => packet = EmptyPacket
    /\ \A h \in hints : /\ GoodHint(config, mf, h)
                        /\ Behind(h, bb, pos - Len(packet.members))
    /\ BundlesDisjoint

Hinted(b, i) == \E h \in hints : h.bb = b /\ i \in Window(h)

\* Instructions i and i+1 of block b would make a legal bundle of two.
LegalPair(b, i) ==
    LET fst == mf[b][i]  snd == mf[b][i + 1] IN
    /\ isPacketizableMI(fst) /\ isPacketizableMI(snd)
    /\ Independent(fst, snd)
    /\ isLaneLegal(config, 0, classifyOpClass(fst))
    /\ isLaneLegal(config, 1, classifyOpClass(snd))

\* The pass runs on a machine with workers, and may emit bundles shorter than the machine.
PairsWanted == eligible /\ UniformWorkers(config) /\ config.allowShort /\ config.numLanes > 1

NotMissed(b, i) == LegalPair(b, i) => Hinted(b, i) \/ Hinted(b, i + 1)

(***************************************************************************)
(* The greedy pass leaves no obvious bundle behind: in a block it has left *)
(* two neighbours that stay scalar could not have been a bundle (stale     *)
(* packet state, a flush too many or a lost final flush would leave one).  *)
(***************************************************************************)
NoMissedPair ==
    PairsWanted => \A b \in 1..(bb - 1) : \A i \in 1..(Len(mf[b]) - 1) : NotMissed(b, i)

(***************************************************************************)
(* Its inductive form: no pair that begins before the open packet has been *)
(* missed either, and a packet of one member records just its registers,   *)
(* a packet of none no registers, so that only a real dependence closes it.*)
(***************************************************************************)
PairInv ==
    /\ PacketInv
    /\ NoMissedPair
    /\ PairsWanted /\ bb =< Len(mf) =>
         \A i \in 1..(Len(mf[bb]) - 1) :
             i < pos - Len(packet.members) => NotMissed(bb, i)
    /\ Len(packet.members) = 0 => packet = EmptyPacket
    /\ Len(packet.members) = 1 =>
         LET only == mf[bb][packet.members[1]]
         IN  packet.uses = only.uses /\ packet.defs = only.defs

(***************************************************************************)
(* The pass implements the abstract plan: it only adds hints, one at a     *)
(* time, each of them good and disjoint from the others.                   *)
(***************************************************************************)
Plan == INSTANCE BundlePlan WITH config <- config, fn <- mf, plan <- hints
ImplementsPlan == Plan!Spec

\* packetizeBasicBlock's loop always ends, also on an instruction no lane accepts.
PassReturns == <>Done
-----------------------------------------------------------------------------
(***************************************************************************)
(* "No packet violates configured lane legality", for every lane table:    *)
(* each member is legal on the lane its place in the bundle gives it.      *)
(***************************************************************************)
NoPacketViolatesLanes == \A h \in hints : WindowLaneLegal(config, mf, h)
=============================================================================
