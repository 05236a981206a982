--------------------------- MODULE ToolchainProofs --------------------------
(***************************************************************************)
(* Proofs about the compiler pass and about the tool chain, for every      *)
(* machine function, configuration, set of registers and, where it         *)
(* matters, faithful encoding.  First the packetizer on its own: its       *)
(* inductive invariant, the safety of the bundles it emits and the         *)
(* refinement of BundlePlan.  Then the composition: what the packetizer    *)
(* plans from operands and opcode names is what the checker derives from   *)
(* encodings, and for a real machine it is safe and accepted.  Last the    *)
(* way from function to execution, which takes the cores from              *)
(* CheckedRunProofs.                                                       *)
(***************************************************************************)
EXTENDS CompiledRun, CheckedRunProofs

(***************************************************************************)
(* A nonempty set of naturals has a least element, so the CHOOSE of        *)
(* tryAssignLane has a witness.                                            *)
(***************************************************************************)
LEMMA LeastElement ==
    ASSUME NEW S \in SUBSET Nat, S # {}
    PROVE  \E l \in S : \A m \in S : l =< m
<1> DEFINE Below(n) == {x \in S : x =< n}
           Initials == {Below(n) : n \in S}
<1>1. \A n \in S : Below(n) \in FiniteSubsetsOf(S)
  <2> SUFFICES ASSUME NEW n \in S PROVE IsFiniteSet(Below(n))
    BY DEF FiniteSubsetsOf
  <2> QED BY FS_BoundedSetOfNaturals
<1>2. \E T \in Initials : \A U \in Initials : <<U, T>> \notin StrictSubsetOrdering(S)
  <2>1. Initials \subseteq FiniteSubsetsOf(S) /\ Initials # {}
    BY <1>1
  <2> HIDE DEF Initials
  <2> QED BY <2>1, FS_StrictSubsetOrderingWellFounded, WFMin
<1>3. PICK l \in S : \A m \in S : <<Below(m), Below(l)>> \notin StrictSubsetOrdering(S)
  BY <1>2
<1>4. ASSUME NEW m \in S, m < l PROVE FALSE
  <2>1. Below(m) \subseteq Below(l)
    <3>1. \A x \in S : x =< m => x =< l
      BY <1>4
    <3> QED BY <3>1
  <2>2. l \in Below(l) /\ l \notin Below(m)
    BY <1>4
  <2>3. <<Below(m), Below(l)>> \in StrictSubsetOrdering(S)
    <3>1. Below(m) \in SUBSET S /\ Below(l) \in SUBSET S
      OBVIOUS
    <3> HIDE DEF Below
    <3> QED BY <2>1, <2>2, <3>1 DEF StrictSubsetOrdering
  <2> QED BY <1>3, <2>3
<1> QED BY <1>4

\* A lane that tryAssignLane returns is a free lane of the machine, the lowest one.
LEMMA AssignedLane ==
    ASSUME TypeOK, NEW p, NEW class, tryAssignLane(p, class) >= 0
    PROVE  /\ FreeLanes(p, class) # {}
           /\ tryAssignLane(p, class) \in FreeLanes(p, class)
           /\ \A m \in FreeLanes(p, class) : tryAssignLane(p, class) =< m
           /\ tryAssignLane(p, class) \in Nat
<1> DEFINE F == FreeLanes(p, class)
<1>1. F \in SUBSET Nat
  BY DEF FreeLanes, TypeOK, ConfigType, maxBundleWidth
<1> HIDE DEF F
<1>2. tryAssignLane(p, class) = IF F = {} THEN -1 ELSE CHOOSE l \in F : \A m \in F : l =< m
  BY DEF tryAssignLane, F
<1>3. F # {}
  BY <1>2
<1>4. PICK l \in F : \A m \in F : l =< m
  BY <1>1, <1>3, LeastElement
<1>5. /\ tryAssignLane(p, class) \in F
      /\ \A m \in F : tryAssignLane(p, class) =< m
  BY <1>2, <1>3, <1>4
<1> QED BY <1>1, <1>3, <1>5 DEF F

(***************************************************************************)
(* Under uniform workers a packet whose members sit on lanes 0..n-1 gives  *)
(* the next member lane n, and its class is legal there.                   *)
(***************************************************************************)
LEMMA UniformLane ==
    ASSUME TypeOK, UniformWorkers(config),
           NEW p, p \in PacketType, NEW class,
           \A k \in 1..Len(p.lanes) : p.lanes[k] = k - 1,
           tryAssignLane(p, class) >= 0
    PROVE  /\ tryAssignLane(p, class) = Len(p.lanes)
           /\ isLaneLegal(config, Len(p.lanes), class)
<1> DEFINE n == Len(p.lanes)
           F == FreeLanes(p, class)
           w == maxBundleWidth(config)
<1>1. n \in Nat /\ w \in Nat \ {0} /\ w =< Len(config.lanes) /\ Len(config.lanes) \in Nat
  BY DEF PacketType, TypeOK, ConfigType, maxBundleWidth, UniformWorkers
<1>2. F \subseteq n..(w - 1)
  <2> SUFFICES ASSUME NEW l \in F, l < n PROVE FALSE
    BY <1>1 DEF FreeLanes
  <2>1. l \in 0..(w - 1) /\ \A k \in 1..n : p.lanes[k] # l
    BY DEF FreeLanes
  <2>2. l \in Int /\ l + 1 \in 1..n /\ (l + 1) - 1 = l
    BY <1>1, <2>1
  <2>3. p.lanes[l + 1] = (l + 1) - 1
    BY <2>2, Zenon
  <2> QED BY <2>1, <2>2, <2>3
<1>3. PICK l \in F : TRUE
  BY AssignedLane
<1>4. n \in 0..(w - 1) /\ l \in n..(w - 1) /\ isLaneLegal(config, l, class)
  BY <1>1, <1>2 DEF FreeLanes
<1>5. isLaneLegal(config, n, class)
  <2>1. CASE n = 0
    BY <1>1, <2>1 DEF isLaneLegal, UniformWorkers
  <2>2. CASE n > 0
    <3>1. config.lanes[n + 1] = config.lanes[l + 1]
      <4>1. n + 1 \in 2..w /\ l + 1 \in 2..w
        BY <1>1, <1>4, <2>2
      <4> QED BY <4>1 DEF UniformWorkers, maxBundleWidth
    <3> QED BY <1>1, <1>4, <3>1 DEF isLaneLegal
  <2> QED BY <1>1, <2>1, <2>2
<1>6. n \in F
  BY <1>1, <1>4, <1>5 DEF FreeLanes
<1>7. tryAssignLane(p, class) \in n..(w - 1) /\ tryAssignLane(p, class) =< n
  BY <1>2, <1>6, AssignedLane
<1> QED BY <1>1, <1>5, <1>7

-----------------------------------------------------------------------------
\* The instruction the loop is at has the type of an instruction.
LEMMA CurrentInstr ==
    ASSUME TypeOK, AtInstr
    PROVE  /\ bb \in 1..Len(mf) /\ pos \in 1..Len(mf[bb])
           /\ mf[bb] \in Seq(MachineInstr) /\ Len(mf[bb]) \in Nat /\ Len(mf) \in Nat
           /\ MI \in MachineInstr
<1>1. bb \in 1..Len(mf) /\ Len(mf) \in Nat
  BY DEF TypeOK, AtInstr
<1>2. mf[bb] \in Seq(MachineInstr)
  BY <1>1 DEF TypeOK
<1>3. Len(mf[bb]) \in Nat /\ pos \in 1..Len(mf[bb])
  BY <1>2 DEF TypeOK, AtInstr
<1> QED BY <1>1, <1>2, <1>3 DEF MI

\* The packet flushPacket leaves is faithful anywhere.
LEMMA EmptyPacketAt ==
    ASSUME NEW cfg, NEW fn, NEW b, NEW q \in Nat \ {0}
    PROVE  PacketAt(cfg, fn, b, EmptyPacket, q)
BY DEF PacketAt, EmptyPacket, PacketType

(***************************************************************************)
(* Appending an independent instruction on the lane tryAssignLane gives    *)
(* keeps a packet faithful.                                                *)
(***************************************************************************)
LEMMA ExtendedPacket ==
    ASSUME TypeOK, AtInstr, isPacketizableMI(MI),
           NEW p, PacketAt(config, mf, bb, p, pos),
           p.members # <<>> => ~hasPacketDependency(MI, p),
           tryAssignLane(p, classifyOpClass(MI)) >= 0
    PROVE  LET e == Extend(p, tryAssignLane(p, classifyOpClass(MI)), MI)
           IN  /\ PacketAt(config, mf, bb, e, pos + 1)
               /\ Len(e.members) = Len(p.members) + 1
<1> DEFINE n == Len(p.members)
           lane == tryAssignLane(p, classifyOpClass(MI))
           e == Extend(p, lane, MI)
           Old(k) == mf[bb][p.members[k]]
           Member(k) == mf[bb][e.members[k]]
<1>1. /\ p \in PacketType /\ Len(p.lanes) = n /\ n \in Nat /\ n < pos
      /\ p.members \in Seq(Nat) /\ p.lanes \in Seq(Nat)
      /\ p.uses \subseteq Register /\ p.defs \subseteq Register
  BY DEF PacketAt, PacketType
<1>2. /\ bb \in 1..Len(mf) /\ Len(mf) \in Nat
      /\ pos \in 1..Len(mf[bb]) /\ Len(mf[bb]) \in Nat
      /\ MI \in MachineInstr /\ lane \in Nat
  BY CurrentInstr, AssignedLane
<1>3. /\ e.members = Append(p.members, pos) /\ e.lanes = Append(p.lanes, lane)
      /\ e.uses = p.uses \cup MI.uses /\ e.defs = p.defs \cup MI.defs
      /\ e = [members |-> e.members, lanes |-> e.lanes, uses |-> e.uses, defs |-> e.defs]
  BY DEF Extend
<1> HIDE DEF e, lane
<1>4. /\ Len(e.members) = n + 1 /\ Len(e.lanes) = n + 1
      /\ e.members[n + 1] = pos /\ e.lanes[n + 1] = lane
      /\ \A k \in 1..n : e.members[k] = p.members[k] /\ e.lanes[k] = p.lanes[k]
      /\ e.members \in Seq(Nat) /\ e.lanes \in Seq(Nat)
  <2>1. pos \in Nat
    BY <1>2
  <2>2. /\ Len(e.members) = n + 1 /\ e.members[n + 1] = pos /\ e.members \in Seq(Nat)
        /\ \A k \in 1..n : e.members[k] = p.members[k]
    BY <1>1, <1>3, <2>1, AppendProperties
  <2>3. /\ Len(e.lanes) = n + 1 /\ e.lanes[n + 1] = lane /\ e.lanes \in Seq(Nat)
        /\ \A k \in 1..n : e.lanes[k] = p.lanes[k]
    <3>1. p.lanes \in Seq(Nat) /\ lane \in Nat /\ Len(p.lanes) = n /\ e.lanes = Append(p.lanes, lane)
      BY <1>1, <1>2, <1>3
    <3> HIDE DEF n
    <3> QED BY <3>1, AppendProperties
  <2> QED BY <2>2, <2>3
<1>5. e \in PacketType
  <2>1. MI.uses \subseteq Register /\ MI.defs \subseteq Register
    BY <1>2 DEF MachineInstr
  <2> QED BY <1>1, <1>3, <1>4, <2>1 DEF PacketType
<1>6. Member(n + 1) = MI /\ \A k \in 1..n : Member(k) = Old(k)
  BY <1>4 DEF MI
<1> HIDE DEF Member, Old
<1>7. ASSUME NEW k \in 1..(n + 1)
      PROVE  /\ e.members[k] = (pos + 1) - (n + 1) + k - 1
             /\ isPacketizableMI(Member(k))
             /\ Member(k).uses \subseteq e.uses
             /\ Member(k).defs \subseteq e.defs
  <2>1. CASE k = n + 1
    <3>1. Member(k) = MI /\ e.members[k] = pos
      BY <1>4, <1>6, <2>1
    <3>2. pos = (pos + 1) - (n + 1) + k - 1
      <4>1. \A a, b \in Int : a = (a + 1) - (b + 1) + (b + 1) - 1
        OBVIOUS
      <4>2. pos \in Int /\ n \in Int
        BY <1>1, <1>2
      <4> QED BY <2>1, <4>1, <4>2
    <3> QED BY <1>3, <3>1, <3>2
  <2>2. CASE k \in 1..n
    <3>1. /\ p.members[k] = pos - n + k - 1 /\ isPacketizableMI(Old(k))
          /\ Old(k).uses \subseteq p.uses /\ Old(k).defs \subseteq p.defs
      BY <2>2 DEF PacketAt, Old
    <3>2. Member(k) = Old(k) /\ e.members[k] = p.members[k]
      BY <1>4, <1>6, <2>2
    <3>3. pos - n + k - 1 = (pos + 1) - (n + 1) + k - 1
      <4>1. \A a, b, c \in Int : a - b + c - 1 = (a + 1) - (b + 1) + c - 1
        OBVIOUS
      <4> QED BY <1>1, <1>2, <2>2, <4>1
    <3>4. e.members[k] = (pos + 1) - (n + 1) + k - 1
      BY <3>1, <3>2, <3>3
    <3>5. isPacketizableMI(Member(k))
      BY <3>1, <3>2
    <3>6. Member(k).uses \subseteq e.uses /\ Member(k).defs \subseteq e.defs
      BY <1>3, <3>1, <3>2
    <3> QED BY <3>4, <3>5, <3>6
  <2>3. k = n + 1 \/ k \in 1..n
    BY <1>1
  <2> QED BY <2>1, <2>2, <2>3
<1>8. ASSUME NEW k \in 1..(n + 1), NEW m \in 1..(n + 1), k < m
      PROVE  Independent(Member(k), Member(m))
  <2>1. CASE m = n + 1
    <3>1. k \in 1..n /\ p.members # <<>>
      BY <1>1, <1>8, <2>1
    <3>2. /\ MI.uses \cap p.defs = {}
          /\ MI.defs \cap (p.defs \cup p.uses) = {}
      BY <3>1 DEF hasPacketDependency
    <3>3. Old(k).uses \subseteq p.uses /\ Old(k).defs \subseteq p.defs
      BY <3>1 DEF PacketAt, Old
    <3>4. Independent(Old(k), MI)
      BY <3>2, <3>3 DEF Independent
    <3> QED BY <1>6, <2>1, <3>1, <3>4
  <2>2. CASE m \in 1..n
    <3>1. k \in 1..n
      BY <1>1, <1>8, <2>2
    <3>2. Independent(Old(k), Old(m))
      BY <1>8, <2>2, <3>1 DEF PacketAt, Old
    <3> QED BY <1>6, <2>2, <3>1, <3>2
  <2>3. m = n + 1 \/ m \in 1..n
    BY <1>1
  <2> QED BY <2>1, <2>2, <2>3
<1>9. ASSUME UniformWorkers(config), NEW k \in 1..(n + 1)
      PROVE  /\ e.lanes[k] = k - 1
             /\ isLaneLegal(config, k - 1, classifyOpClass(Member(k)))
  <2>1. \A i \in 1..n : /\ p.lanes[i] = i - 1
                        /\ isLaneLegal(config, i - 1, classifyOpClass(Old(i)))
    BY <1>9 DEF PacketAt, Old
  <2>2. CASE k \in 1..n
    <3>1. e.lanes[k] = p.lanes[k]
      BY <1>4, <2>2
    <3>2. Member(k) = Old(k)
      BY <1>6, <2>2
    <3> QED BY <2>1, <2>2, <3>1, <3>2
  <2>3. CASE k = n + 1
    <3>1. lane = n /\ isLaneLegal(config, n, classifyOpClass(MI))
      BY <1>1, <1>9, <2>1, UniformLane DEF lane
    <3>2. k - 1 = n /\ e.lanes[k] = lane /\ Member(k) = MI
      BY <1>1, <1>4, <1>6, <2>3
    <3> QED BY <3>1, <3>2
  <2>4. k = n + 1 \/ k \in 1..n
    BY <1>1
  <2> QED BY <2>2, <2>3, <2>4
<1>10. /\ Len(e.members) < pos + 1
       /\ bb =< Len(mf) /\ (pos + 1) - 1 =< Len(mf[bb])
  <2>1. Len(e.members) < pos + 1
    <3>1. n \in Nat /\ pos \in Nat /\ n < pos /\ Len(e.members) = n + 1
      BY <1>1, <1>2, <1>4
    <3> HIDE DEF n
    <3> QED BY <3>1
  <2> QED BY <1>2, <2>1
<1>11. PacketAt(config, mf, bb, e, pos + 1)
  BY <1>4, <1>5, <1>7, <1>8, <1>9, <1>10 DEF PacketAt, Member
<1> QED BY <1>4, <1>11 DEF e, lane

(***************************************************************************)
(* The hint flushPacket emits for a faithful packet is good, and its       *)
(* window is exactly the packet.                                           *)
(***************************************************************************)
LEMMA EmittedHint ==
    ASSUME TypeOK, NEW p, NEW q \in Nat, PacketAt(config, mf, bb, p, q),
           Len(p.members) =< maxBundleWidth(config), NEW h \in Emitted(p)
    PROVE  /\ h = [bb |-> bb, at |-> q - Len(p.members), len |-> Len(p.members)]
           /\ h \in HintType
           /\ GoodHint(config, mf, h)
           /\ h.bb = bb /\ h.at + h.len = q /\ h.len > 0 /\ h.at \in Nat \ {0}
<1> DEFINE n == Len(p.members)
<1>1. /\ ShouldEmitHint(p)
      /\ h = [bb |-> bb, at |-> p.members[1], len |-> n]
  BY DEF Emitted
<1>2. n \in Nat /\ n > 0 /\ n < q /\ bb =< Len(mf) /\ q - 1 =< Len(mf[bb])
  BY <1>1 DEF ShouldEmitHint, PacketAt, PacketType
<1>3. \A k \in 1..n : p.members[k] = q - n + k - 1
  BY DEF PacketAt
<1>4. h.bb = bb /\ h.at = q - n /\ h.len = n /\ h.at \in Nat /\ h.at >= 1
  <2>1. h.bb = bb /\ h.at = p.members[1] /\ h.len = n
    BY <1>1
  <2> HIDE DEF n
  <2>2. 1 \in 1..n
    BY <1>2
  <2>3. p.members[1] = q - n + 1 - 1
    BY <1>3, <2>2
  <2>4. q - n + 1 - 1 = q - n /\ q - n \in Nat /\ q - n >= 1
    BY <1>2
  <2> QED BY <2>1, <2>3, <2>4
<1>5. h = [bb |-> bb, at |-> q - n, len |-> n]
  BY <1>1, <1>4
<1>6. bb \in 1..Len(mf) /\ bb \in Nat /\ Len(mf[bb]) \in Nat
  <2>1. bb \in 1..Len(mf) /\ bb \in Nat
    BY <1>2 DEF TypeOK
  <2> QED BY <2>1 DEF TypeOK
<1> DEFINE a == q - n
<1>7. /\ Window(h) = a..(q - 1) /\ a \in Int /\ q \in Int /\ 1 =< a /\ a =< q - 1 /\ h.at = a
      /\ q = a + n
      /\ \A k \in 1..n : p.members[k] = a + k - 1
  <2>1. a \in Int /\ q \in Int /\ 1 =< a /\ a =< q - 1 /\ h.at = a /\ q = a + n
    BY <1>2, <1>4
  <2>2. \A k \in 1..n : p.members[k] = a + k - 1
    BY <1>3
  <2>3. Window(h) = a..(q - 1)
    <3>1. h.at + h.len - 1 = q - 1
      BY <1>2, <1>4
    <3> QED BY <2>1, <3>1 DEF Window
  <2> QED BY <2>1, <2>2, <2>3
<1> HIDE DEF a
<1>8. ASSUME NEW i \in Window(h)
      PROVE  i - a + 1 \in 1..n /\ p.members[i - a + 1] = i
  <2>1. i \in Int /\ a =< i /\ i =< q - 1
    BY <1>7
  <2>2. i - a + 1 \in 1..n /\ a + (i - a + 1) - 1 = i
    BY <1>2, <1>7, <2>1
  <2> QED BY <1>7, <2>2
<1>9. WindowIndependent(mf, h)
  <2>1. Window(h) # {} /\ Window(h) \subseteq 1..Len(mf[bb])
    <3>1. q - 1 \in a..(q - 1) /\ \A i \in a..(q - 1) : i \in 1..Len(mf[bb])
      BY <1>2, <1>6, <1>7
    <3> QED BY <1>7, <3>1
  <2>2. ASSUME NEW i \in Window(h) PROVE isPacketizableMI(mf[bb][i])
    BY <1>8 DEF PacketAt
  <2>3. ASSUME NEW i \in Window(h), NEW j \in Window(h), i < j
        PROVE  Independent(mf[bb][i], mf[bb][j])
    <3>1. i - a + 1 < j - a + 1
      BY <1>7, <2>3
    <3>2. /\ i - a + 1 \in 1..n /\ p.members[i - a + 1] = i
          /\ j - a + 1 \in 1..n /\ p.members[j - a + 1] = j
      BY <1>8
    <3> QED BY <3>1, <3>2 DEF PacketAt
  <2> QED BY <1>4, <1>6, <2>1, <2>2, <2>3 DEF WindowIndependent
<1>10. ASSUME UniformWorkers(config) PROVE WindowLaneLegal(config, mf, h)
  <2>1. ASSUME NEW i \in Window(h)
        PROVE  isLaneLegal(config, i - h.at, classifyOpClass(mf[bb][i]))
    <3>1. i \in Int /\ i - h.at = (i - a + 1) - 1
      BY <1>7
    <3> QED BY <1>8, <1>10, <3>1 DEF PacketAt
  <2> QED BY <1>4, <2>1 DEF WindowLaneLegal
<1>11. GoodHint(config, mf, h)
  BY <1>4, <1>9, <1>10 DEF GoodHint
<1>12. h \in HintType
  BY <1>1, <1>4, <1>6, <1>2 DEF HintType
<1>13. h.at + h.len = q
  BY <1>2, <1>4
<1> QED BY <1>2, <1>4, <1>5, <1>11, <1>12, <1>13

(***************************************************************************)
(* Emitting a faithful packet that starts no earlier than the open one     *)
(* keeps every hint good and behind, and the windows disjoint.             *)
(***************************************************************************)
LEMMA HintsGrow ==
    ASSUME PacketInv, NEW p, NEW q \in Nat, PacketAt(config, mf, bb, p, q),
           Len(p.members) =< maxBundleWidth(config),
           pos - Len(packet.members) =< q - Len(p.members)
    PROVE  LET all == hints \cup Emitted(p)
           IN  /\ all \subseteq HintType
               /\ \A h \in all : GoodHint(config, mf, h) /\ Behind(h, bb, q)
               /\ \A g, h \in all : Overlap(g, h) => g = h
<1> DEFINE s == pos - Len(packet.members)
           n == Len(p.members)
<1>1. n \in Nat /\ n < q /\ s \in Int /\ s =< q - n /\ TypeOK /\ bb \in Int
  <2>1. p.members \in Seq(Nat) /\ packet.members \in Seq(Nat) /\ pos \in Nat /\ n < q
    BY DEF PacketInv, TypeOK, PacketAt, PacketType
  <2>2. bb \in Int
    BY DEF PacketInv, TypeOK
  <2> QED BY <2>1, <2>2 DEF PacketInv
<1>2. ASSUME NEW h \in Emitted(p)
      PROVE  /\ h \in HintType /\ GoodHint(config, mf, h)
             /\ h.bb = bb /\ h.at + h.len = q /\ h.at = q - n /\ h.len = n
             /\ h = [bb |-> bb, at |-> q - n, len |-> n]
  BY <1>1, EmittedHint
<1>3. ASSUME NEW h \in hints
      PROVE  /\ h \in HintType /\ GoodHint(config, mf, h)
             /\ Behind(h, bb, s)
             /\ h.bb \in Int /\ h.at \in Int /\ h.len \in Int
  <2>1. h \in HintType
    BY DEF PacketInv, TypeOK
  <2> QED BY <2>1 DEF PacketInv, HintType
<1> HIDE DEF s, n
<1>4. ASSUME NEW h \in hints PROVE Behind(h, bb, q)
  BY <1>1, <1>3 DEF Behind
<1>5. ASSUME NEW h \in Emitted(p) PROVE Behind(h, bb, q)
  BY <1>1, <1>2 DEF Behind
<1>6. ASSUME NEW g \in hints, NEW h \in Emitted(p) PROVE ~Overlap(g, h) /\ ~Overlap(h, g)
  <2>1. CASE g.bb < bb
    BY <1>1, <1>2, <1>3, <2>1 DEF Overlap
  <2>2. CASE g.bb = bb /\ g.at + g.len =< s
    <3>1. \A i \in Window(g) : i < s
      BY <1>1, <1>3, <2>2 DEF Window
    <3>2. \A i \in Window(h) : i >= s
      BY <1>1, <1>2 DEF Window
    <3>3. Window(g) \cap Window(h) = {}
      <4> SUFFICES ASSUME NEW i \in Window(g), i \in Window(h) PROVE FALSE
        OBVIOUS
      <4>1. i \in Int
        BY <1>3 DEF Window
      <4> QED BY <1>1, <3>1, <3>2, <4>1
    <3> QED BY <3>3 DEF Overlap
  <2> QED BY <1>3, <2>1, <2>2 DEF Behind
<1>7. \A g, h \in hints : Overlap(g, h) => g = h
  BY DEF PacketInv, BundlesDisjoint
<1>8. \A g, h \in Emitted(p) : g = h
  BY <1>2
<1> QED BY <1>2, <1>3, <1>4, <1>5, <1>6, <1>7, <1>8

\* A hint behind a position stays behind every later one.
LEMMA BehindMonotonic ==
    ASSUME NEW h \in HintType, NEW b \in Int, NEW q \in Int, NEW r \in Int,
           q =< r, Behind(h, b, q)
    PROVE  Behind(h, b, r) /\ Behind(h, b + 1, 1)
<1>1. h.bb \in Nat /\ h.at \in Nat /\ h.len \in Nat
  BY DEF HintType
<1> QED BY <1>1 DEF Behind

-----------------------------------------------------------------------------
(***************************************************************************)
(* The pass starts with an empty packet and no hint.                       *)
(***************************************************************************)
LEMMA InitInv == Init => PacketInv
<1> SUFFICES ASSUME Init PROVE PacketInv
  OBVIOUS
<1>1. config \in ConfigType /\ mf \in Seq(Seq(MachineInstr))
  BY FunctionsAssumption, ConfigsAssumption DEF Init
<1>2. Len(mf) \in Nat /\ EmptyPacket \in PacketType /\ maxBundleWidth(config) \in Nat \ {0}
  BY <1>1 DEF EmptyPacket, PacketType, ConfigType, maxBundleWidth
<1>3. TypeOK
  <2>1. bb \in 1..(Len(mf) + 1) /\ pos \in Nat \ {0}
    BY <1>2 DEF Init
  <2>2. packet \in PacketType /\ hints \subseteq HintType
    BY <1>2 DEF Init
  <2>3. changed \in BOOLEAN /\ eligible \in BOOLEAN
    BY DEF Init
  <2> QED BY <1>1, <2>1, <2>2, <2>3 DEF TypeOK
<1>4. PacketAt(config, mf, bb, packet, pos)
  BY EmptyPacketAt DEF Init
<1>5. Len(packet.members) < maxBundleWidth(config)
  BY <1>2 DEF Init, EmptyPacket
<1> QED BY <1>3, <1>4, <1>5 DEF Init, PacketInv, BundlesDisjoint

(***************************************************************************)
(* The invariant of the next state from what an iteration leaves behind.   *)
(***************************************************************************)
LEMMA NextInv ==
    ASSUME PacketInv,
           config' = config, mf' = mf, eligible' = eligible, eligible,
           bb' \in 1..(Len(mf) + 1), pos' \in Nat \ {0}, changed' \in BOOLEAN,
           PacketAt(config, mf, bb', packet', pos'),
           Len(packet'.members) < maxBundleWidth(config),
           hints' \subseteq HintType,
           \A h \in hints' : /\ GoodHint(config, mf, h)
                             /\ Behind(h, bb', pos' - Len(packet'.members)),
           \A g, h \in hints' : Overlap(g, h) => g = h
    PROVE  PacketInv'
<1>1. packet' \in PacketType
  BY DEF PacketAt
<1>2. TypeOK'
  BY <1>1 DEF PacketInv, TypeOK
<1> QED BY <1>2 DEF PacketInv, BundlesDisjoint

\* What a flush of the open packet leaves, and a fresh packet after it.
LEMMA Flushed ==
    ASSUME PacketInv
    PROVE  /\ hints \cup Emitted(packet) \subseteq HintType
           /\ \A h \in hints \cup Emitted(packet) :
                 GoodHint(config, mf, h) /\ Behind(h, bb, pos)
           /\ \A g, h \in hints \cup Emitted(packet) : Overlap(g, h) => g = h
<1>1. pos \in Nat /\ PacketAt(config, mf, bb, packet, pos)
  BY DEF PacketInv, TypeOK
<1>2. Len(packet.members) \in Nat /\ maxBundleWidth(config) \in Nat
  BY DEF PacketInv, TypeOK, PacketType, ConfigType, maxBundleWidth
<1>3. Len(packet.members) =< maxBundleWidth(config)
  BY <1>2 DEF PacketInv
<1> QED BY <1>1, <1>2, <1>3, HintsGrow

\* Barrier and Unplaceable: the packet is flushed and the instruction stays scalar.
LEMMA FlushKeepsInv ==
    ASSUME PacketInv, AtInstr,
           Insert(Emitted(packet)), packet' = EmptyPacket, pos' = pos + 1,
           UNCHANGED <<config, eligible, mf, bb>>
    PROVE  PacketInv'
<1>1. pos \in Nat \ {0} /\ bb \in 1..(Len(mf) + 1) /\ eligible /\ changed' \in BOOLEAN
  BY DEF PacketInv, TypeOK, AtInstr, Insert
<1>2. PacketAt(config, mf, bb', packet', pos')
  BY <1>1, EmptyPacketAt
<1>3. Len(packet'.members) = 0 /\ maxBundleWidth(config) \in Nat \ {0}
  BY DEF EmptyPacket, PacketInv, TypeOK, ConfigType, maxBundleWidth
<1>4. hints' = hints \cup Emitted(packet)
  BY DEF Insert
<1>5. ASSUME NEW h \in hints' PROVE Behind(h, bb', pos' - Len(packet'.members))
  <2>1. h \in HintType /\ Behind(h, bb, pos)
    BY <1>4, Flushed
  <2> QED BY <1>1, <1>3, <2>1, BehindMonotonic
<1> QED BY <1>1, <1>2, <1>3, <1>4, <1>5, Flushed, NextInv

(***************************************************************************)
(* Join and FlushAndJoin: the instruction is put into a faithful packet p  *)
(* that starts no earlier than the open one; "flushed" is what the flush   *)
(* before it emitted, and the packet was empty when the machine has only   *)
(* one lane.                                                               *)
(***************************************************************************)
LEMMA PutKeepsInv ==
    ASSUME PacketInv, AtInstr, isPacketizableMI(MI),
           NEW p, NEW flushed, PutInto(p, flushed),
           PacketAt(config, mf, bb, p, pos), Len(p.members) < maxBundleWidth(config),
           p.members # <<>> => ~hasPacketDependency(MI, p),
           \/ p = packet /\ flushed = {}
           \/ p = EmptyPacket /\ flushed = Emitted(packet)
    PROVE  PacketInv'
<1> DEFINE lane == tryAssignLane(p, classifyOpClass(MI))
           full == Extend(p, lane, MI)
           w == maxBundleWidth(config)
<1>1. /\ TypeOK /\ pos \in Nat \ {0} /\ bb \in 1..(Len(mf) + 1) /\ bb \in Int
      /\ eligible /\ w \in Nat \ {0} /\ changed' \in BOOLEAN
      /\ Len(packet.members) \in Nat /\ Len(p.members) \in Nat
  <2>1. TypeOK /\ eligible /\ packet \in PacketType /\ p \in PacketType
    BY DEF PacketInv, TypeOK, AtInstr, PacketAt
  <2>2. Len(packet.members) \in Nat /\ Len(p.members) \in Nat
    BY <2>1 DEF PacketType
  <2>3. pos \in Nat \ {0} /\ bb \in 1..(Len(mf) + 1) /\ bb \in Int
    BY <2>1 DEF TypeOK
  <2>4. w \in Nat \ {0}
    BY <2>1 DEF TypeOK, ConfigType, maxBundleWidth
  <2>5. changed' \in BOOLEAN
    BY DEF PutInto, Insert
  <2> QED BY <2>1, <2>2, <2>3, <2>4, <2>5
<1>2. PacketAt(config, mf, bb, full, pos + 1) /\ Len(full.members) = Len(p.members) + 1
  BY <1>1, ExtendedPacket DEF PutInto
<1>3. /\ packet' = IF IsFull(full) THEN EmptyPacket ELSE full
      /\ hints' = hints \cup flushed \cup (IF IsFull(full) THEN Emitted(full) ELSE {})
      /\ pos' = pos + 1 /\ UNCHANGED <<config, eligible, mf, bb>>
  BY DEF PutInto, Insert
<1> HIDE DEF full, w
<1>4. Len(EmptyPacket.members) = 0
  BY DEF EmptyPacket
<1>5. CASE ~IsFull(full)
  <2>1. packet' = full /\ hints' = hints \cup flushed
    BY <1>3, <1>5
  <2>2. Len(full.members) < w
    BY <1>1, <1>2, <1>5 DEF IsFull, w
  <2>3. /\ hints' \subseteq HintType
        /\ \A h \in hints' : GoodHint(config, mf, h)
                             /\ Behind(h, bb, pos - Len(p.members))
        /\ \A g, h \in hints' : Overlap(g, h) => g = h
    <3>1. CASE p = packet /\ flushed = {}
      BY <2>1, <3>1 DEF PacketInv, TypeOK, BundlesDisjoint
    <3>2. CASE p = EmptyPacket /\ flushed = Emitted(packet)
      BY <1>1, <1>4, <2>1, <3>2, Flushed
    <3> QED BY <3>1, <3>2
  <2>4. pos' - Len(packet'.members) = pos - Len(p.members)
    <3>1. pos' = pos + 1 /\ Len(packet'.members) = Len(p.members) + 1
      BY <1>2, <1>3, <2>1
    <3>2. \A a, b \in Int : (a + 1) - (b + 1) = a - b
      OBVIOUS
    <3> QED BY <1>1, <3>1, <3>2
  <2>5. Len(packet'.members) < maxBundleWidth(config)
    BY <2>1, <2>2 DEF w
  <2>6. PacketAt(config, mf, bb', packet', pos') /\ pos' \in Nat \ {0} /\ bb' \in 1..(Len(mf) + 1)
    BY <1>1, <1>2, <1>3, <2>1
  <2>7. \A h \in hints' : /\ GoodHint(config, mf, h)
                          /\ Behind(h, bb', pos' - Len(packet'.members))
    BY <1>3, <2>3, <2>4
  <2> QED BY <1>1, <1>3, <2>3, <2>5, <2>6, <2>7, NextInv
<1>6. CASE IsFull(full)
  <2>1. /\ packet' = EmptyPacket
        /\ hints' = hints \cup flushed \cup Emitted(full)
    BY <1>3, <1>6
  <2>2. Len(full.members) = w /\ Len(p.members) = w - 1
    BY <1>1, <1>2, <1>6 DEF IsFull, w
  <2>3. hints' = hints \cup Emitted(full)
    <3>1. CASE flushed = {}
      BY <2>1, <3>1
    <3>2. CASE p = EmptyPacket /\ flushed = Emitted(packet)
      <4>1. Len(packet.members) = 0
        BY <1>1, <1>4, <2>2, <3>2 DEF PacketInv, w
      <4>2. Emitted(packet) = {}
        BY <4>1 DEF Emitted, ShouldEmitHint
      <4> QED BY <2>1, <3>2, <4>2
    <3> QED BY <3>1, <3>2
  <2>4. pos - Len(packet.members) =< (pos + 1) - Len(full.members)
    <3>1. Len(p.members) =< Len(packet.members)
      BY <1>1, <1>4
    <3>2. \A a, b, c \in Nat : b =< c => a - c =< (a + 1) - (b + 1)
      OBVIOUS
    <3>3. pos \in Nat
      BY <1>1
    <3> QED BY <1>1, <1>2, <3>1, <3>2, <3>3
  <2>5. /\ hints' \subseteq HintType
        /\ \A h \in hints' : GoodHint(config, mf, h) /\ Behind(h, bb, pos + 1)
        /\ \A g, h \in hints' : Overlap(g, h) => g = h
    <3>1. Len(full.members) =< maxBundleWidth(config)
      BY <1>1, <2>2 DEF w
    <3>2. pos + 1 \in Nat
      BY <1>1
    <3> QED BY <1>2, <2>3, <2>4, <3>1, <3>2, HintsGrow
  <2>6. PacketAt(config, mf, bb', packet', pos') /\ pos' \in Nat \ {0} /\ bb' \in 1..(Len(mf) + 1)
    BY <1>1, <1>3, <2>1, EmptyPacketAt
  <2>7. Len(packet'.members) < maxBundleWidth(config) /\ pos' - Len(packet'.members) = pos + 1
    <3>1. Len(packet'.members) = 0
      BY <1>4, <2>1
    <3>2. maxBundleWidth(config) \in Nat \ {0}
      BY <1>1 DEF w
    <3>3. pos' = pos + 1 /\ pos \in Nat
      BY <1>1, <1>3
    <3>4. \A a \in Nat : (a + 1) - 0 = a + 1
      OBVIOUS
    <3>5. pos' - Len(packet'.members) = pos + 1
      BY <3>1, <3>3, <3>4
    <3>6. Len(packet'.members) < maxBundleWidth(config)
      BY <3>1, <3>2
    <3> QED BY <3>5, <3>6
  <2>8. \A h \in hints' : /\ GoodHint(config, mf, h)
                          /\ Behind(h, bb', pos' - Len(packet'.members))
    BY <1>3, <2>5, <2>7
  <2> QED BY <1>1, <1>3, <2>5, <2>6, <2>7, <2>8, NextInv
<1> QED BY <1>5, <1>6

-----------------------------------------------------------------------------
\* Each iteration of the loop preserves the invariant: a barrier closes the packet.
LEMMA BarrierInv == PacketInv /\ Barrier => PacketInv'
BY FlushKeepsInv DEF Barrier

\* An instruction no lane accepts closes the packet too.
LEMMA UnplaceableInv == PacketInv /\ Unplaceable => PacketInv'
BY FlushKeepsInv DEF Unplaceable

\* An independent instruction with a free lane extends the open packet.
LEMMA JoinInv == PacketInv /\ Join => PacketInv'
<1> SUFFICES ASSUME PacketInv, Join PROVE PacketInv'
  OBVIOUS
<1>1. PacketAt(config, mf, bb, packet, pos) /\ Len(packet.members) < maxBundleWidth(config)
  BY DEF PacketInv
<1>2. packet.members # <<>> => ~hasPacketDependency(MI, packet)
  BY DEF Join, MustFlush
<1>3. AtInstr /\ isPacketizableMI(MI) /\ PutInto(packet, {})
  BY DEF Join
<1> QED BY <1>1, <1>2, <1>3, PutKeepsInv

\* A conflict closes the packet; the instruction opens the next one.
LEMMA FlushAndJoinInv == PacketInv /\ FlushAndJoin => PacketInv'
<1> SUFFICES ASSUME PacketInv, FlushAndJoin PROVE PacketInv'
  OBVIOUS
<1>1. pos \in Nat \ {0} /\ maxBundleWidth(config) \in Nat \ {0}
  BY DEF PacketInv, TypeOK, ConfigType, maxBundleWidth
<1>2. PacketAt(config, mf, bb, EmptyPacket, pos)
  BY <1>1, EmptyPacketAt
<1>3. EmptyPacket.members = <<>> /\ Len(EmptyPacket.members) = 0
  BY DEF EmptyPacket
<1>4. AtInstr /\ isPacketizableMI(MI) /\ PutInto(EmptyPacket, Emitted(packet))
  BY DEF FlushAndJoin
<1>5. Len(EmptyPacket.members) < maxBundleWidth(config)
  BY <1>1, <1>3
<1> QED BY <1>2, <1>3, <1>4, <1>5, PutKeepsInv

\* The last flush of a block, then the next block from its first instruction.
LEMMA EndBlockInv == PacketInv /\ EndBlock => PacketInv'
<1> SUFFICES ASSUME PacketInv, EndBlock PROVE PacketInv'
  OBVIOUS
<1>1. /\ eligible /\ bb \in Int /\ bb' \in 1..(Len(mf) + 1) /\ bb' = bb + 1 /\ pos' = 1
      /\ pos \in Int /\ maxBundleWidth(config) \in Nat \ {0}
  BY DEF PacketInv, TypeOK, EndBlock, ConfigType, maxBundleWidth
<1>2. changed' \in BOOLEAN
  BY DEF EndBlock, Insert
<1>3. /\ packet' = EmptyPacket /\ hints' = hints \cup Emitted(packet)
      /\ UNCHANGED <<config, eligible, mf>>
  BY DEF EndBlock, Insert
<1>4. PacketAt(config, mf, bb', packet', pos')
  BY <1>1, <1>3, EmptyPacketAt
<1>5. Len(packet'.members) = 0
  BY <1>3 DEF EmptyPacket
<1>6. ASSUME NEW h \in hints' PROVE Behind(h, bb', pos' - Len(packet'.members))
  <2>1. h \in HintType /\ Behind(h, bb, pos)
    BY <1>3, Flushed
  <2> QED BY <1>1, <1>5, <2>1, BehindMonotonic
<1>7. Len(packet'.members) < maxBundleWidth(config) /\ pos' \in Nat \ {0}
  BY <1>1, <1>5
<1> QED BY <1>1, <1>2, <1>3, <1>4, <1>6, <1>7, Flushed, NextInv

\* A function that is skipped gets no hints.
LEMMA SkipFunctionInv == PacketInv /\ SkipFunction => PacketInv'
<1> SUFFICES ASSUME PacketInv, SkipFunction PROVE PacketInv'
  OBVIOUS
<1>1. /\ ~eligible /\ bb \in Nat /\ bb =< Len(mf) /\ bb' = Len(mf) + 1 /\ Len(mf) \in Nat
      /\ UNCHANGED <<config, eligible, mf, pos, packet, hints, changed>>
  BY DEF PacketInv, TypeOK, SkipFunction
<1>2. packet = EmptyPacket /\ Len(packet.members) = 0 /\ pos \in Nat \ {0}
  BY <1>1 DEF PacketInv, TypeOK, EmptyPacket
<1>3. bb' \in 1..(Len(mf) + 1) /\ bb < bb'
  BY <1>1
<1>4. TypeOK'
  BY <1>1, <1>3 DEF PacketInv, TypeOK
<1>5. PacketAt(config, mf, bb', packet', pos')
  BY <1>1, <1>2, EmptyPacketAt
<1>6. ASSUME NEW h \in hints PROVE Behind(h, bb', pos)
  <2>1. h \in HintType /\ Behind(h, bb, pos)
    BY <1>2 DEF PacketInv, TypeOK
  <2>2. h.bb \in Nat /\ h.bb =< bb
    BY <1>1, <2>1 DEF HintType, Behind
  <2> QED BY <1>1, <1>3, <2>2 DEF Behind
<1>7. pos - Len(packet.members) = pos
  BY <1>2
<1> QED BY <1>1, <1>2, <1>4, <1>5, <1>6, <1>7 DEF PacketInv, BundlesDisjoint

\* Every step of the pass preserves the invariant.
LEMMA StepInv == PacketInv /\ [Next]_vars => PacketInv'
<1> SUFFICES ASSUME PacketInv, [Next]_vars PROVE PacketInv'
  OBVIOUS
<1>1. CASE UNCHANGED vars
  BY <1>1 DEF vars, PacketInv, TypeOK, BundlesDisjoint
<1>2. CASE Next
  BY <1>2, <1>1, BarrierInv, JoinInv, FlushAndJoinInv, UnplaceableInv, EndBlockInv,
     SkipFunctionInv DEF Next, Returned
<1> QED BY <1>1, <1>2

(***************************************************************************)
(* Between two iterations of packetizeBasicBlock's loop the packet is a    *)
(* faithful record of the instructions before the loop, and every hint     *)
(* already inserted is good: the inductive invariant holds always.         *)
(***************************************************************************)
THEOREM Invariance == Spec => []PacketInv
BY InitInv, StepInv, PTL DEF Spec

\* The pass's variables keep their types.
THEOREM TypeCorrect == Spec => []TypeOK
<1>1. PacketInv => TypeOK
  BY DEF PacketInv
<1> QED BY <1>1, Invariance, PTL

(***************************************************************************)
(* Every bundle the hardware will form holds independent, packetizable     *)
(* instructions of one block, for every function and every lane table.     *)
(***************************************************************************)
THEOREM EmittedBundlesIndependent == Spec => []BundlesIndependent
<1>1. PacketInv => BundlesIndependent
  BY DEF PacketInv, GoodHint, BundlesIndependent
<1> QED BY <1>1, Invariance, PTL

\* No two emitted bundles overlap, hence no hint is a member of a bundle.
THEOREM EmittedBundlesDisjoint == Spec => []BundlesDisjoint
<1>1. PacketInv => BundlesDisjoint
  BY DEF PacketInv
<1> QED BY <1>1, Invariance, PTL

(***************************************************************************)
(* With uniform worker lanes, every member of an emitted bundle is legal   *)
(* on the lane its place in memory gives it.                               *)
(***************************************************************************)
THEOREM PlacesAreLegalLanes == Spec => []PlaceIsLegalLane
<1>1. PacketInv => PlaceIsLegalLane
  BY DEF PacketInv, GoodHint, PlaceIsLegalLane
<1> QED BY <1>1, Invariance, PTL

-----------------------------------------------------------------------------
\* A machine on which pairs are wanted has two lanes, and lane 0 takes everything.
LEMMA TwoLanes ==
    ASSUME PacketInv, PairsWanted
    PROVE  /\ config.numLanes \in Nat /\ 2 =< config.numLanes
           /\ config.numLanes =< Len(config.lanes) /\ Len(config.lanes) \in Nat
           /\ \A class : isLaneLegal(config, 0, class)
<1>1. config.numLanes \in Nat /\ 2 =< config.numLanes
  BY DEF PacketInv, TypeOK, ConfigType, PairsWanted
<1>2. config.numLanes =< Len(config.lanes) /\ Len(config.lanes) \in Nat
  BY DEF PacketInv, TypeOK, ConfigType, PairsWanted, UniformWorkers
<1>3. 0 < Len(config.lanes) /\ "Any" \in config.lanes[0 + 1]
  BY <1>1, <1>2 DEF PairsWanted, UniformWorkers
<1> QED BY <1>1, <1>2, <1>3 DEF isLaneLegal

\* Then no instruction is without a lane in an empty packet.
LEMMA FreshLane ==
    ASSUME PacketInv, PairsWanted, NEW class
    PROVE  tryAssignLane(EmptyPacket, class) >= 0
<1> DEFINE F == FreeLanes(EmptyPacket, class)
<1>1. 0 \in F /\ F \in SUBSET Nat
  BY TwoLanes DEF FreeLanes, maxBundleWidth, EmptyPacket
<1>2. tryAssignLane(EmptyPacket, class)
        = IF F = {} THEN -1 ELSE CHOOSE l \in F : \A m \in F : l =< m
  BY DEF tryAssignLane
<1> HIDE DEF F
<1>3. F # {}
  BY <1>1
<1>4. PICK l \in F : \A m \in F : l =< m
  BY <1>1, <1>3, LeastElement
<1>5. tryAssignLane(EmptyPacket, class) \in F
  BY <1>2, <1>3, <1>4
<1>6. tryAssignLane(EmptyPacket, class) \in Nat
  BY <1>1, <1>5
<1> QED BY <1>6

\* A faithful packet of two members or more is hinted when it is flushed.
LEMMA FlushedIsHinted ==
    ASSUME PacketInv, PairsWanted, NEW p, NEW q \in Nat, PacketAt(config, mf, bb, p, q),
           Len(p.members) =< maxBundleWidth(config), Len(p.members) >= 2,
           NEW i \in Int, q - Len(p.members) =< i, i < q
    PROVE  \E h \in Emitted(p) : h.bb = bb /\ i \in Window(h)
<1>1. Len(p.members) \in Nat
  BY DEF PacketAt, PacketType
<1>2. ShouldEmitHint(p)
  <2>1. Len(p.members) # 0 /\ Len(p.members) # 1
    <3>1. \A n \in Nat : n >= 2 => n # 0 /\ n # 1
      OBVIOUS
    <3> QED BY <1>1, <3>1, Zenon
  <2>2. config.allowShort
    BY DEF PairsWanted
  <2> QED BY <2>1, <2>2, Zenon DEF ShouldEmitHint
<1>3. PICK h \in Emitted(p) : TRUE
  BY <1>2 DEF Emitted
<1>4. h = [bb |-> bb, at |-> q - Len(p.members), len |-> Len(p.members)]
  BY <1>1, EmittedHint DEF PacketInv
<1>5. h.bb = bb /\ h.at = q - Len(p.members) /\ h.len = Len(p.members)
  BY <1>4
<1>6. i \in Window(h)
  BY <1>1, <1>5 DEF Window
<1> QED BY <1>5, <1>6

\* A pair that has not been missed never will be.
LEMMA PairsStay ==
    ASSUME config' = config, mf' = mf, hints \subseteq hints',
           NEW b, NEW i, NotMissed(b, i)
    PROVE  NotMissed(b, i)'
BY DEF NotMissed, LegalPair, Hinted

(***************************************************************************)
(* What an iteration within a block owes the pairs: those that begin in    *)
(* the open packet but before the next one are not missed.                 *)
(***************************************************************************)
LEMMA NextPairs ==
    ASSUME PairInv, PacketInv', UNCHANGED <<config, eligible, mf, bb>>, hints \subseteq hints',
           PairsWanted => \A i \in 1..(Len(mf[bb]) - 1) :
               pos - Len(packet.members) =< i /\ i < pos' - Len(packet'.members)
                   => NotMissed(bb, i)',
           Len(packet'.members) = 1 =>
               LET only == mf[bb][packet'.members[1]]
               IN  packet'.uses = only.uses /\ packet'.defs = only.defs,
           Len(packet'.members) = 0 => packet' = EmptyPacket
    PROVE  PairInv'
<1>1. PairsWanted' = PairsWanted
  BY DEF PairsWanted
<1>2. NoMissedPair'
  <2> SUFFICES ASSUME PairsWanted, NEW b \in 1..(bb - 1), NEW i \in 1..(Len(mf[b]) - 1)
               PROVE  NotMissed(b, i)'
    BY <1>1 DEF NoMissedPair
  <2> QED BY PairsStay DEF PairInv, NoMissedPair
<1>3. ASSUME PairsWanted, bb =< Len(mf), NEW i \in 1..(Len(mf[bb]) - 1),
             i < pos' - Len(packet'.members)
      PROVE  NotMissed(bb, i)'
  <2>1. pos - Len(packet.members) \in Int
    BY DEF PairInv, PacketInv, TypeOK, PacketType
  <2>2. CASE pos - Len(packet.members) =< i
    BY <1>3, <2>2
  <2>3. CASE i < pos - Len(packet.members)
    <3>1. PICK b : b = bb
      OBVIOUS
    <3>2. NotMissed(b, i)
      BY <1>3, <2>3, <3>1 DEF PairInv
    <3>3. NotMissed(b, i)'
      BY <3>2, PairsStay
    <3> QED BY <3>1, <3>3 DEF NotMissed, LegalPair, Hinted
  <2> QED BY <2>1, <2>2, <2>3
<1> QED BY <1>1, <1>2, <1>3 DEF PairInv

\* The next instruction cannot join: the pairs of the packet that is flushed.
LEMMA FlushMissesNone ==
    ASSUME PairInv, AtInstr, PairsWanted, Emitted(packet) \subseteq hints',
           UNCHANGED <<config, mf, bb>>,
           \/ ~isPacketizableMI(MI)
           \/ isPacketizableMI(MI)
              /\ (MustFlush \/ tryAssignLane(packet, classifyOpClass(MI)) < 0),
           NEW i \in 1..(Len(mf[bb]) - 1), pos - Len(packet.members) =< i, i < pos
    PROVE  NotMissed(bb, i)'
<1> SUFFICES ASSUME LegalPair(bb, i)
             PROVE  \E h \in hints' : h.bb = bb /\ i \in Window(h)
  BY DEF NotMissed, LegalPair, Hinted
<1> DEFINE n == Len(packet.members)
<1>1. n \in Nat /\ pos \in Nat /\ PacketInv /\ PacketAt(config, mf, bb, packet, pos)
      /\ n < maxBundleWidth(config) /\ maxBundleWidth(config) \in Nat
  <2>1. PacketInv /\ PacketAt(config, mf, bb, packet, pos) /\ n < maxBundleWidth(config)
    BY DEF PairInv, PacketInv
  <2>2. n \in Nat /\ pos \in Nat /\ maxBundleWidth(config) \in Nat
    BY <2>1 DEF PacketInv, TypeOK, PacketType, ConfigType, maxBundleWidth
  <2> QED BY <2>1, <2>2
<1>2. CASE n >= 2
  <2>1. n =< maxBundleWidth(config) /\ i \in Int
    BY <1>1
  <2>2. \E h \in Emitted(packet) : h.bb = bb /\ i \in Window(h)
    BY <1>1, <1>2, <2>1, FlushedIsHinted
  <2> QED BY <2>2
<1>3. CASE n = 1
  <2>1. /\ packet.members[1] = i /\ i = pos - 1 /\ mf[bb][i + 1] = MI
        /\ packet.lanes = <<0>> /\ packet.members # <<>>
    <3>1. packet.members[1] = pos - 1 + 1 - 1 /\ packet.lanes[1] = 0 /\ Len(packet.lanes) = 1
      BY <1>1, <1>3 DEF PacketAt, PairsWanted
    <3>2. i = pos - 1
      BY <1>1, <1>3
    <3> QED BY <1>1, <1>3, <3>1, <3>2 DEF MI, PacketInv, TypeOK, PacketType
  <2>2. packet.uses = mf[bb][i].uses /\ packet.defs = mf[bb][i].defs
    BY <1>3, <2>1 DEF PairInv
  <2>3. isPacketizableMI(MI) /\ Independent(mf[bb][i], MI)
        /\ isLaneLegal(config, 1, classifyOpClass(MI))
    BY <2>1 DEF LegalPair
  <2>4. ~MustFlush
    BY <2>2, <2>3 DEF MustFlush, hasPacketDependency, Independent
  <2>5. 1 \in FreeLanes(packet, classifyOpClass(MI))
    <3>1. 1 \in 0..(maxBundleWidth(config) - 1)
      BY <1>1, TwoLanes DEF maxBundleWidth
    <3> QED BY <2>1, <2>3, <3>1 DEF FreeLanes
  <2>6. ~(tryAssignLane(packet, classifyOpClass(MI)) < 0)
    <3> DEFINE F == FreeLanes(packet, classifyOpClass(MI))
    <3>1. tryAssignLane(packet, classifyOpClass(MI))
            = IF F = {} THEN -1 ELSE CHOOSE l \in F : \A m \in F : l =< m
      BY DEF tryAssignLane
    <3>2. F # {} /\ F \in SUBSET Nat
      BY <1>1, <2>5 DEF FreeLanes
    <3> HIDE DEF F
    <3>3. PICK l \in F : \A m \in F : l =< m
      BY <3>2, LeastElement
    <3>4. tryAssignLane(packet, classifyOpClass(MI)) \in F
      BY <3>1, <3>2, <3>3
    <3>5. tryAssignLane(packet, classifyOpClass(MI)) \in Nat
      BY <3>2, <3>4
    <3> QED BY <3>5
  <2> QED BY <2>3, <2>4, <2>6, Zenon
<1>4. CASE n = 0
  <2>1. \A a, c \in Int : ~(a - 0 =< c /\ c < a)
    OBVIOUS
  <2>2. pos \in Int /\ i \in Int
    BY <1>1
  <2> QED BY <1>4, <2>1, <2>2, Zenon
<1>5. n = 0 \/ n = 1 \/ n >= 2
  <2>1. \A x \in Nat : x = 0 \/ x = 1 \/ x >= 2
    OBVIOUS
  <2> QED BY <1>1, <2>1, Zenon
<1> QED BY <1>2, <1>3, <1>4, <1>5, Zenon

(***************************************************************************)
(* Barrier: an instruction that is not packetizable is in no legal pair.   *)
(* Unplaceable: where pairs are wanted, lane 0 takes every instruction.    *)
(***************************************************************************)
LEMMA FlushPairs ==
    ASSUME PairInv, AtInstr, PairsWanted => ~isPacketizableMI(MI),
           Insert(Emitted(packet)), packet' = EmptyPacket, pos' = pos + 1,
           UNCHANGED <<config, eligible, mf, bb>>
    PROVE  PairInv'
<1>1. /\ PacketInv /\ pos \in Nat /\ Len(packet'.members) = 0
      /\ hints \subseteq hints' /\ Emitted(packet) \subseteq hints'
  BY DEF PairInv, PacketInv, TypeOK, EmptyPacket, Insert
<1>2. PacketInv'
  BY <1>1, FlushKeepsInv
<1>3. ASSUME PairsWanted, NEW i \in 1..(Len(mf[bb]) - 1),
             pos - Len(packet.members) =< i, i < pos' - Len(packet'.members)
      PROVE  NotMissed(bb, i)'
  <2>1. ~isPacketizableMI(MI)
    BY <1>3
  <2>2. i < pos \/ i = pos
    BY <1>1, <1>3
  <2>3. CASE i < pos
    BY <1>1, <1>3, <2>1, <2>3, FlushMissesNone
  <2>4. CASE i = pos
    BY <2>1, <2>4 DEF NotMissed, LegalPair, MI
  <2> QED BY <2>2, <2>3, <2>4
<1>4. Len(packet'.members) # 1
  BY <1>1
<1> QED BY <1>1, <1>2, <1>3, <1>4, NextPairs

LEMMA BarrierPairs == PairInv /\ Barrier => PairInv'
BY FlushPairs DEF Barrier

LEMMA UnplaceablePairs == PairInv /\ Unplaceable => PairInv'
<1> SUFFICES ASSUME PairInv, Unplaceable PROVE PairInv'
  OBVIOUS
<1>1. PacketInv /\ TypeOK
  BY DEF PairInv, PacketInv
<1>2. ~PairsWanted
  <2> SUFFICES ASSUME PairsWanted PROVE FALSE
    OBVIOUS
  <2>1. tryAssignLane(EmptyPacket, classifyOpClass(MI)) < 0
    BY DEF Unplaceable
  <2>2. tryAssignLane(EmptyPacket, classifyOpClass(MI)) >= 0
    BY <1>1, FreshLane
  <2>3. tryAssignLane(EmptyPacket, classifyOpClass(MI)) \in Nat
    BY <1>1, <2>2, AssignedLane
  <2> QED BY <2>1, <2>3
<1> QED BY <1>2, FlushPairs DEF Unplaceable

\* A packet of one member records that member's registers.
LEMMA FirstMember ==
    ASSUME TypeOK, NEW p, p \in PacketType, NEW lane,
           Len(p.members) = 0 => p = EmptyPacket
    PROVE  LET e == Extend(p, lane, MI)
               only == mf[bb][e.members[1]]
           IN  Len(e.members) = 1 => e.uses = only.uses /\ e.defs = only.defs
<1>1. p.members \in Seq(Nat) /\ pos \in Nat
  BY DEF TypeOK, PacketType
<1>2. Len(Append(p.members, pos)) = 1 => Len(p.members) = 0 /\ Append(p.members, pos)[1] = pos
  BY <1>1
<1>3. EmptyPacket.uses = {} /\ EmptyPacket.defs = {}
  BY DEF EmptyPacket
<1> QED BY <1>2, <1>3 DEF Extend, MI

(***************************************************************************)
(* Join and FlushAndJoin: the pairs of a packet that is flushed before the *)
(* instruction is put into a fresh one, or with it because it is full.     *)
(***************************************************************************)
LEMMA PutPairs ==
    ASSUME PairInv, PacketInv', AtInstr, isPacketizableMI(MI),
           NEW p, NEW flushed, PutInto(p, flushed),
           PacketAt(config, mf, bb, p, pos), Len(p.members) = 0 => p = EmptyPacket,
           p.members # <<>> => ~hasPacketDependency(MI, p),
           \/ p = packet /\ flushed = {}
           \/ /\ p = EmptyPacket /\ flushed = Emitted(packet)
              /\ MustFlush \/ tryAssignLane(packet, classifyOpClass(MI)) < 0
    PROVE  PairInv'
<1> DEFINE lane == tryAssignLane(p, classifyOpClass(MI))
           full == Extend(p, lane, MI)
<1>1. /\ PacketInv /\ TypeOK /\ pos \in Nat
      /\ Len(packet.members) \in Nat /\ Len(packet.members) < maxBundleWidth(config)
      /\ p \in PacketType /\ Len(p.members) \in Nat
  <2>1. PacketInv /\ TypeOK /\ Len(packet.members) < maxBundleWidth(config)
    BY DEF PairInv, PacketInv
  <2>2. pos \in Nat /\ Len(packet.members) \in Nat
    BY <2>1 DEF TypeOK, PacketType
  <2>3. p \in PacketType /\ Len(p.members) \in Nat
    BY DEF PacketAt, PacketType
  <2> QED BY <2>1, <2>2, <2>3
<1>2. PacketAt(config, mf, bb, full, pos + 1) /\ Len(full.members) = Len(p.members) + 1
  BY <1>1, ExtendedPacket DEF PutInto
<1>3. /\ packet' = IF IsFull(full) THEN EmptyPacket ELSE full
      /\ hints' = hints \cup flushed \cup (IF IsFull(full) THEN Emitted(full) ELSE {})
      /\ pos' = pos + 1 /\ UNCHANGED <<config, eligible, mf, bb>>
  BY DEF PutInto, Insert
<1>4. Len(full.members) = 1 =>
         full.uses = mf[bb][full.members[1]].uses /\ full.defs = mf[bb][full.members[1]].defs
  BY <1>1, FirstMember
<1>5. Len(EmptyPacket.members) = 0
  BY DEF EmptyPacket
<1> HIDE DEF full, lane
<1>6. Len(packet'.members) = 0 => packet' = EmptyPacket
  BY <1>1, <1>2, <1>3, <1>5
<1>7. Len(packet'.members) = 1 =>
         packet'.uses = mf[bb][packet'.members[1]].uses
         /\ packet'.defs = mf[bb][packet'.members[1]].defs
  BY <1>3, <1>4, <1>5
<1>8. ASSUME PairsWanted, NEW i \in 1..(Len(mf[bb]) - 1),
             pos - Len(packet.members) =< i, i < pos' - Len(packet'.members)
      PROVE  NotMissed(bb, i)'
  <2>1. maxBundleWidth(config) \in Nat /\ maxBundleWidth(config) >= 2
    BY <1>1, <1>8, TwoLanes DEF maxBundleWidth
  <2>2. CASE p = packet /\ IsFull(full)
    <3>1. i \in Int /\ (pos + 1) - Len(full.members) =< i /\ i < pos + 1
      <4>1. Len(full.members) = Len(packet.members) + 1 /\ pos' - Len(packet'.members) = pos + 1
        <5>1. Len(full.members) = Len(packet.members) + 1
          BY <1>2, <2>2
        <5>2. pos' = pos + 1 /\ Len(packet'.members) = 0
          BY <1>3, <1>5, <2>2
        <5>3. (pos + 1) - 0 = pos + 1
          BY <1>1
        <5>4. pos' - Len(packet'.members) = (pos + 1) - 0
          BY <5>2
        <5> QED BY <5>1, <5>3, <5>4
      <4>2. \A a, b \in Int : (a + 1) - (b + 1) = a - b
        OBVIOUS
      <4>3. pos \in Int /\ Len(packet.members) \in Int /\ i \in Int
        BY <1>1
      <4>4. (pos + 1) - Len(full.members) = pos - Len(packet.members)
        BY <4>1, <4>2, <4>3, Zenon
      <4> QED BY <1>8, <4>1, <4>3, <4>4, Zenon
    <3>2. Len(full.members) =< maxBundleWidth(config) /\ Len(full.members) >= 2
      BY <1>1, <1>2, <2>1, <2>2 DEF IsFull
    <3>3. \E h \in Emitted(full) : h.bb = bb /\ i \in Window(h)
      <4>1. pos + 1 \in Nat
        BY <1>1
      <4> QED BY <1>1, <1>2, <1>8, <3>1, <3>2, <4>1, FlushedIsHinted
    <3>4. Emitted(full) \subseteq hints'
      BY <1>3, <2>2
    <3> QED BY <1>3, <3>3, <3>4 DEF NotMissed, Hinted
  <2>3. CASE p = packet /\ ~IsFull(full)
    <3>1. packet' = full
      BY <1>3, <2>3
    <3>2. Len(packet'.members) = Len(packet.members) + 1
      BY <1>2, <2>3, <3>1
    <3>3. \A a, b, c \in Int : ~(a - b =< c /\ c < (a + 1) - (b + 1))
      OBVIOUS
    <3>4. i \in Int /\ pos \in Int /\ Len(packet.members) \in Int
      BY <1>1
    <3> QED BY <1>3, <1>8, <3>2, <3>3, <3>4, Zenon
  <2>4. CASE p = EmptyPacket /\ flushed = Emitted(packet)
             /\ (MustFlush \/ tryAssignLane(packet, classifyOpClass(MI)) < 0)
    <3>1. Len(full.members) = 1
      BY <1>2, <1>5, <2>4
    <3>2. ~IsFull(full)
      BY <2>1, <3>1 DEF IsFull
    <3>3. Len(packet'.members) = 1 /\ Emitted(packet) \subseteq hints'
      BY <1>3, <2>4, <3>1, <3>2
    <3>4. i < pos
      <4>1. \A a, c \in Int : c < (a + 1) - 1 => c < a
        OBVIOUS
      <4>2. pos \in Int /\ i \in Int
        BY <1>1
      <4> QED BY <1>3, <1>8, <3>3, <4>1, <4>2, Zenon
    <3> QED BY <1>3, <1>8, <2>4, <3>3, <3>4, FlushMissesNone
  <2> QED BY <2>2, <2>3, <2>4
<1>9. hints \subseteq hints'
  BY <1>3
<1> QED BY <1>3, <1>6, <1>7, <1>8, <1>9, NextPairs

LEMMA JoinPairs == PairInv /\ Join => PairInv'
<1> SUFFICES ASSUME PairInv, Join PROVE PairInv'
  OBVIOUS
<1>1. PacketInv /\ PacketAt(config, mf, bb, packet, pos)
      /\ (Len(packet.members) = 0 => packet = EmptyPacket)
  BY DEF PairInv, PacketInv
<1>2. PacketInv'
  BY <1>1, JoinInv
<1>3. packet.members # <<>> => ~hasPacketDependency(MI, packet)
  BY DEF Join, MustFlush
<1>4. AtInstr /\ isPacketizableMI(MI) /\ PutInto(packet, {})
  BY DEF Join
<1> QED BY <1>1, <1>2, <1>3, <1>4, PutPairs

LEMMA FlushAndJoinPairs == PairInv /\ FlushAndJoin => PairInv'
<1> SUFFICES ASSUME PairInv, FlushAndJoin PROVE PairInv'
  OBVIOUS
<1>1. PacketInv /\ pos \in Nat \ {0}
  BY DEF PairInv, PacketInv, TypeOK
<1>2. PacketInv' /\ PacketAt(config, mf, bb, EmptyPacket, pos)
  BY <1>1, FlushAndJoinInv, EmptyPacketAt
<1>3. EmptyPacket.members = <<>>
  BY DEF EmptyPacket
<1>4. /\ AtInstr /\ isPacketizableMI(MI) /\ PutInto(EmptyPacket, Emitted(packet))
      /\ MustFlush \/ tryAssignLane(packet, classifyOpClass(MI)) < 0
  BY DEF FlushAndJoin
<1> QED BY <1>2, <1>3, <1>4, PutPairs

\* A packet open at the end of its block has its pairs hinted, or holds the last instruction.
LEMMA EndBlockPairs == PairInv /\ EndBlock => PairInv'
<1> SUFFICES ASSUME PairInv, EndBlock PROVE PairInv'
  OBVIOUS
<1>1. /\ PacketInv /\ PacketAt(config, mf, bb, packet, pos)
      /\ bb \in Int /\ bb' = bb + 1 /\ pos' = 1 /\ pos \in Nat /\ pos = Len(mf[bb]) + 1
      /\ Len(mf[bb]) \in Nat /\ bb =< Len(mf)
      /\ Len(packet.members) \in Nat /\ Len(packet.members) < maxBundleWidth(config)
      /\ maxBundleWidth(config) \in Nat
  <2>1. PacketInv /\ TypeOK /\ PacketAt(config, mf, bb, packet, pos)
        /\ Len(packet.members) < maxBundleWidth(config)
    BY DEF PairInv, PacketInv
  <2>2. bb \in Int /\ pos \in Nat /\ Len(packet.members) \in Nat /\ maxBundleWidth(config) \in Nat
    BY <2>1 DEF TypeOK, PacketType, ConfigType, maxBundleWidth
  <2>3. bb' = bb + 1 /\ pos' = 1 /\ pos = Len(mf[bb]) + 1 /\ bb =< Len(mf)
    BY DEF EndBlock
  <2>4. Len(mf[bb]) \in Nat
    BY <2>1, <2>3 DEF TypeOK
  <2> QED BY <2>1, <2>2, <2>3, <2>4
<1>2. /\ packet' = EmptyPacket /\ hints' = hints \cup Emitted(packet)
      /\ UNCHANGED <<config, eligible, mf>>
  BY DEF EndBlock, Insert
<1>3. PacketInv' /\ Len(packet'.members) = 0 /\ PairsWanted' = PairsWanted
  BY <1>1, <1>2, EndBlockInv DEF EmptyPacket, PairsWanted
<1>4. NoMissedPair'
  <2> SUFFICES ASSUME PairsWanted, NEW b \in 1..bb, NEW i \in 1..(Len(mf[b]) - 1)
               PROVE  NotMissed(b, i)'
    BY <1>1, <1>2, <1>3 DEF NoMissedPair
  <2>1. CASE b # bb
    <3>1. b \in 1..(bb - 1)
      BY <1>1, <2>1
    <3>2. NotMissed(b, i)
      BY <3>1 DEF PairInv, NoMissedPair
    <3> QED BY <1>2, <3>2, PairsStay
  <2>2. CASE b = bb /\ i < pos - Len(packet.members)
    <3>1. NotMissed(b, i)
      BY <1>1, <2>2 DEF PairInv
    <3> QED BY <1>2, <3>1, PairsStay
  <2>3. CASE b = bb /\ pos - Len(packet.members) =< i
    <3>1. i \in Int /\ i < pos /\ Len(packet.members) >= 2
      BY <1>1, <2>3
    <3>2. \E h \in Emitted(packet) : h.bb = bb /\ i \in Window(h)
      <4>1. /\ PacketInv /\ PacketAt(config, mf, bb, packet, pos) /\ pos \in Nat
            /\ Len(packet.members) =< maxBundleWidth(config) /\ pos - Len(packet.members) =< i
        BY <1>1, <2>3
      <4> QED BY <3>1, <4>1, FlushedIsHinted
    <3> QED BY <1>2, <2>3, <3>2 DEF NotMissed, Hinted
  <2>4. b = bb => i < pos - Len(packet.members) \/ pos - Len(packet.members) =< i
    <3>1. \A a, c, d \in Int : c < a - d \/ a - d =< c
      OBVIOUS
    <3>2. i \in Int /\ pos \in Int /\ Len(packet.members) \in Int
      BY <1>1
    <3> QED BY <3>1, <3>2, Zenon
  <2> QED BY <2>1, <2>2, <2>3, <2>4, Zenon
<1>5. ~(\E i \in 1..(Len(mf'[bb']) - 1) : i < pos' - Len(packet'.members))
  BY <1>1, <1>3
<1> QED BY <1>2, <1>3, <1>4, <1>5 DEF PairInv

\* Nothing is asked of a function that is skipped.
LEMMA SkipFunctionPairs == PairInv /\ SkipFunction => PairInv'
<1> SUFFICES ASSUME PairInv, SkipFunction PROVE PairInv'
  OBVIOUS
<1>1. PacketInv' /\ ~eligible' /\ packet' = EmptyPacket
  BY SkipFunctionInv DEF PairInv, PacketInv, SkipFunction
<1>2. ~PairsWanted' /\ Len(packet'.members) = 0
  BY <1>1 DEF PairsWanted, EmptyPacket
<1> QED BY <1>1, <1>2 DEF PairInv, NoMissedPair

LEMMA InitPairs == Init => PairInv
<1> SUFFICES ASSUME Init PROVE PairInv
  OBVIOUS
<1>1. PacketInv /\ packet = EmptyPacket /\ Len(packet.members) = 0 /\ bb = 1 /\ pos = 1
  BY InitInv DEF Init, EmptyPacket
<1> QED BY <1>1 DEF PairInv, NoMissedPair

\* Every step of the pass keeps the pairs.
LEMMA PairStep == PairInv /\ [Next]_vars => PairInv'
<1> SUFFICES ASSUME PairInv, [Next]_vars PROVE PairInv'
  OBVIOUS
<1>1. CASE UNCHANGED vars
  <2>1. PacketInv'
    BY <1>1, StepInv DEF PairInv
  <2> QED BY <1>1, <2>1 DEF vars, PairInv, NoMissedPair, PairsWanted, NotMissed, LegalPair, Hinted
<1>2. CASE Next
  BY <1>1, <1>2, BarrierPairs, JoinPairs, FlushAndJoinPairs, UnplaceablePairs, EndBlockPairs,
     SkipFunctionPairs DEF Next, Returned
<1> QED BY <1>1, <1>2

(***************************************************************************)
(* The inductive form of the greedy pass's promise, up to the open packet. *)
(***************************************************************************)
THEOREM PairInvariance == Spec => []PairInv
BY InitPairs, PairStep, PTL DEF Spec

(***************************************************************************)
(* Two neighbours that stay scalar could not have been a bundle, for every *)
(* function and every table of uniform workers.                            *)
(***************************************************************************)
THEOREM NoPairMissed == Spec => []NoMissedPair
<1>1. PairInv => NoMissedPair
  BY DEF PairInv
<1> QED BY <1>1, PairInvariance, PTL

-----------------------------------------------------------------------------
\* One iteration inserts at most one hint.
LEMMA OneHint ==
    ASSUME PacketInv, [Next]_vars
    PROVE  hints' = hints \/ \E h : hints' = hints \cup {h}
<1>1. ASSUME NEW p PROVE Emitted(p) = {} \/ \E h : Emitted(p) = {h}
  BY DEF Emitted
<1>2. CASE hints' = hints
  BY <1>2
<1>3. ASSUME NEW p, hints' = hints \cup Emitted(p)
      PROVE  hints' = hints \/ \E h : hints' = hints \cup {h}
  BY <1>1, <1>3
<1>4. CASE Barrier \/ Unplaceable \/ EndBlock
  BY <1>3, <1>4 DEF Barrier, Unplaceable, EndBlock, Insert
<1>5. CASE Join
  BY <1>2, <1>3, <1>5 DEF Join, PutInto, Insert
<1>6. CASE FlushAndJoin
  <2> DEFINE full == Extend(EmptyPacket, tryAssignLane(EmptyPacket, classifyOpClass(MI)), MI)
  <2>1. hints' = hints \cup Emitted(packet) \cup (IF IsFull(full) THEN Emitted(full) ELSE {})
    BY <1>6 DEF FlushAndJoin, PutInto, Insert
  <2>2. CASE ~IsFull(full)
    BY <1>3, <2>1, <2>2
  <2>3. CASE IsFull(full)
    <3>1. /\ Len(packet.members) \in Nat /\ maxBundleWidth(config) \in Nat
          /\ Len(packet.members) < maxBundleWidth(config)
      BY DEF PacketInv, TypeOK, PacketType, ConfigType, maxBundleWidth
    <3>2. Len(full.members) = 1
      BY DEF Extend, EmptyPacket
    <3>3. Len(packet.members) = 0
      BY <2>3, <3>1, <3>2 DEF IsFull
    <3>4. Emitted(packet) = {}
      BY <3>3 DEF Emitted, ShouldEmitHint
    <3> QED BY <1>3, <2>1, <3>4
  <2> QED BY <2>2, <2>3
<1>7. CASE SkipFunction \/ Returned \/ UNCHANGED vars
  BY <1>2, <1>7 DEF SkipFunction, Returned, vars
<1> QED BY <1>4, <1>5, <1>6, <1>7 DEF Next

\* The abstract plan speaks of the same instructions, lanes and windows.
LEMMA SameTerms ==
    /\ Plan!ConfigType = ConfigType
    /\ Plan!MachineInstr = MachineInstr
    /\ \A h : Plan!GoodHint(h) = GoodHint(config, mf, h)
    /\ \A g, h : Plan!Overlap(g, h) = Overlap(g, h)
    /\ Plan!maxBundleWidth(config) = maxBundleWidth(config)
<1>1. Plan!ConfigType = ConfigType
  BY DEF Plan!ConfigType, ConfigType, Plan!OpClass, OpClass
<1>2. Plan!NameKeys = NameKeys /\ Plan!NameClasses = NameClasses
  BY DEF Plan!NameKeys, NameKeys, Plan!NameClasses, NameClasses
<1>3. Plan!MachineInstr = MachineInstr
  BY <1>2 DEF Plan!MachineInstr, MachineInstr, Plan!MIKind, MIKind
<1>4. \A mi, i : Plan!NameMatches(mi, i) = NameMatches(mi, i)
  BY <1>2 DEF Plan!NameMatches, NameMatches
<1>5. \A mi : Plan!classifyOpClass(mi) = classifyOpClass(mi)
  BY DEF Plan!classifyOpClass, classifyOpClass, Plan!NameMatches, NameMatches,
         Plan!NameClasses, NameClasses
<1>6. \A cfg, l, c : Plan!isLaneLegal(cfg, l, c) = isLaneLegal(cfg, l, c)
  BY DEF Plan!isLaneLegal, isLaneLegal
<1>7. \A h : Plan!Window(h) = Window(h)
  BY DEF Plan!Window, Window
<1>8. \A a, b : Plan!Independent(a, b) = Independent(a, b)
  BY DEF Plan!Independent, Independent
<1>9. \A mi : Plan!isPacketizableMI(mi) = isPacketizableMI(mi)
  BY DEF Plan!isPacketizableMI, isPacketizableMI
<1>10. \A fn, h : Plan!WindowIndependent(fn, h) = WindowIndependent(fn, h)
  BY <1>7, <1>8, <1>9 DEF Plan!WindowIndependent, WindowIndependent
<1>11. \A cfg, fn, h : Plan!WindowLaneLegal(cfg, fn, h) = WindowLaneLegal(cfg, fn, h)
  BY <1>5, <1>6, <1>7 DEF Plan!WindowLaneLegal, WindowLaneLegal
<1>12. \A cfg : Plan!UniformWorkers(cfg) = UniformWorkers(cfg)
  BY DEF Plan!UniformWorkers, UniformWorkers
<1>13. \A cfg : Plan!maxBundleWidth(cfg) = maxBundleWidth(cfg)
  BY DEF Plan!maxBundleWidth, maxBundleWidth
<1>14. \A h : Plan!GoodHint(h) = GoodHint(config, mf, h)
  BY <1>10, <1>11, <1>12, <1>13 DEF Plan!GoodHint, GoodHint
<1>15. \A g, h : Plan!Overlap(g, h) = Overlap(g, h)
  BY <1>7 DEF Plan!Overlap, Overlap
<1> QED BY <1>1, <1>3, <1>13, <1>14, <1>15

\* Every step of the pass adds one good hint to the plan, or leaves the plan alone.
LEMMA StepRefines ==
    ASSUME PacketInv, PacketInv', [Next]_vars
    PROVE  [Plan!Next]_<<config, mf, hints>>
<1>1. config' = config /\ mf' = mf
  BY DEF Next, SkipFunction, Barrier, Join, FlushAndJoin, PutInto, Unplaceable, EndBlock,
         Returned, vars
<1>2. CASE hints' = hints
  BY <1>1, <1>2
<1>3. ASSUME NEW h, hints' = hints \cup {h}, h \notin hints PROVE Plan!AddHint
  <2>1. h \in HintType /\ GoodHint(config, mf, h)
    BY <1>1, <1>3 DEF PacketInv, TypeOK
  <2>2. \A g \in hints : ~Overlap(g, h)
    BY <1>3 DEF PacketInv, BundlesDisjoint
  <2>3. h = [bb |-> h.bb, at |-> h.at, len |-> h.len]
        /\ h.bb \in Nat /\ h.at \in Nat /\ h.len \in Nat
    BY <2>1 DEF HintType
  <2>4. /\ h.bb \in 1..Len(mf) /\ Window(h) # {} /\ Window(h) \subseteq 1..Len(mf[h.bb])
        /\ h.len =< maxBundleWidth(config)
    BY <2>1 DEF GoodHint, WindowIndependent
  <2>5. h.len >= 1
    BY <2>3, <2>4 DEF Window
  <2>6. h.at \in 1..Len(mf[h.bb])
    <3>1. h.at \in Window(h)
      BY <2>3, <2>5 DEF Window
    <3> QED BY <2>4, <3>1
  <2>7. maxBundleWidth(config) \in Nat
    BY DEF PacketInv, TypeOK, ConfigType, maxBundleWidth
  <2>8. Plan!GoodHint(h)
    BY <2>1, SameTerms
  <2>9. h.len \in 1..maxBundleWidth(config)
    BY <2>3, <2>4, <2>5, <2>7
  <2>10. h.at \in UNION {1..Len(mf[c]) : c \in 1..Len(mf)}
    BY <2>4, <2>6
  <2>11. h \in {[bb |-> b, at |-> a, len |-> n] :
                  b \in 1..Len(mf),
                  a \in UNION {1..Len(mf[c]) : c \in 1..Len(mf)},
                  n \in 1..maxBundleWidth(config)}
    BY <2>3, <2>4, <2>9, <2>10
  <2> QED BY <1>1, <1>3, <2>2, <2>8, <2>11, SameTerms DEF Plan!AddHint
<1>4. \A h : h \in hints /\ hints' = hints \cup {h} => hints' = hints
  OBVIOUS
<1> QED BY <1>2, <1>3, <1>4, OneHint DEF Plan!Next

(***************************************************************************)
(* The packetizer implements the abstract plan: whatever its algorithm     *)
(* does, it only adds good, disjoint hints to an unchanged function.       *)
(***************************************************************************)
THEOREM RefinesPlan == Spec => ImplementsPlan
<1>1. Init => Plan!Init
  BY FunctionsAssumption, ConfigsAssumption, SameTerms DEF Init, Plan!Init
<1>2. PacketInv /\ PacketInv' /\ [Next]_vars => [Plan!Next]_<<config, mf, hints>>
  BY StepRefines
<1> QED BY <1>1, <1>2, Invariance, PTL DEF Spec, ImplementsPlan, Plan!Spec

-----------------------------------------------------------------------------

LEMMA FunctionType ==
    ASSUME Encodable
    PROVE  /\ Len(mf) \in Nat
           /\ \A b \in 1..Len(mf) : Len(mf[b]) \in Nat
           /\ \A b \in 1..Len(mf) : \A i \in 1..Len(mf[b]) : EncodesFaithfully(mf[b][i])
<1>1. mf \in Seq(Seq(MachineInstr))
  BY DEF Encodable
<1>2. Len(mf) \in Nat /\ \A b \in 1..Len(mf) : mf[b] \in Seq(MachineInstr)
  BY <1>1
<1>3. \A b \in 1..Len(mf) : Len(mf[b]) \in Nat
  BY <1>2
<1>4. \A b \in 1..Len(mf) : \A i \in 1..Len(mf[b]) : EncodesFaithfully(mf[b][i])
  BY Zenon DEF Encodable
<1> QED BY <1>2, <1>3, <1>4

\* The printer, the checker and the pass itself leave the instructions alone.
LEMMA SameFunction == Encodable /\ UNCHANGED mf => Encodable'
BY DEF Encodable

\* The window of a hint lies in its block and is made of packetizable instructions.
LEMMA HintWindow ==
    ASSUME PacketInv, NEW h \in hints
    PROVE  /\ h.bb \in 1..Len(mf) /\ h.at \in 1..Len(mf[h.bb]) /\ h.len \in Nat \ {0}
           /\ h.at + h.len - 1 =< Len(mf[h.bb])
           /\ h.len =< config.numLanes /\ config.numLanes \in Nat
           /\ \A k \in 1..h.len : /\ h.at + k - 1 \in Window(h)
                                  /\ h.at + k - 1 \in 1..Len(mf[h.bb])
                                  /\ isPacketizableMI(mf[h.bb][h.at + k - 1])
<1>1. /\ TypeOK /\ h \in HintType /\ GoodHint(config, mf, h) /\ config \in ConfigType
      /\ mf \in Seq(Seq(MachineInstr))
  BY DEF PacketInv, TypeOK
<1>2. /\ h.bb \in Nat /\ h.at \in Nat /\ h.len \in Nat /\ config.numLanes \in Nat
  BY <1>1 DEF HintType, ConfigType
<1>3. /\ WindowIndependent(mf, h) /\ h.len =< config.numLanes
  BY <1>1 DEF GoodHint, maxBundleWidth
<1>4. h.bb \in 1..Len(mf) /\ Len(mf[h.bb]) \in Nat
  BY <1>1, <1>3 DEF WindowIndependent
<1>5. PICK n \in Nat : n = Len(mf[h.bb])
  BY <1>4
<1>6. Window(h) # {} /\ Window(h) \subseteq 1..n /\ Window(h) = h.at..(h.at + h.len - 1)
  BY <1>3, <1>5 DEF WindowIndependent, Window
<1>7. h.len # 0
  BY <1>2, <1>6
<1>8. h.at \in Window(h) /\ h.at + h.len - 1 \in Window(h)
  BY <1>2, <1>6, <1>7
<1>9. \A k \in 1..h.len : h.at + k - 1 \in Window(h)
  BY <1>2, <1>6
<1>10. \A i \in Window(h) : isPacketizableMI(mf[h.bb][i])
  BY <1>3 DEF WindowIndependent
<1>11. h.at \in 1..n /\ h.at + h.len - 1 =< n
  BY <1>6, <1>8
<1> QED BY <1>2, <1>3, <1>4, <1>5, <1>6, <1>7, <1>9, <1>10, <1>11

\* No hint stands before the first instruction, now and after a step.
LEMMA NoHintInFront == PacketInv => \A h \in hints : ~(h.bb < 1) /\ ~(h.at < 1)
BY HintWindow

LEMMA NoHintInFrontNext == PacketInv' => (\A h \in hints : ~(h.bb < 1) /\ ~(h.at < 1))'
BY NoHintInFront, PTL

LEMMA EndAddrType ==
    ASSUME insns \in Seq(Insn)
    PROVE  EndAddr \in Nat
<1>1. CASE insns = <<>>
  BY <1>1 DEF EndAddr
<1>2. CASE insns # <<>>
  <2>1. Len(insns) \in 1..Len(insns)
    BY <1>2
  <2>2. insns[Len(insns)] \in Insn
    BY <2>1
  <2>3. insns[Len(insns)].addr \in Nat /\ insns[Len(insns)].size \in Nat
    BY <2>2 DEF Insn, InsnFields
  <2> QED BY <1>2, <2>3 DEF EndAddr
<1> QED BY <1>1, <1>2

\* An instruction keeps everything but its address when it is laid out.
LEMMA PlacedInsn ==
    ASSUME NEW f \in Insn, NEW a \in Nat
    PROVE  LET g == [f EXCEPT !.addr = a] IN
           /\ g \in Insn /\ DeclaredLen(g) = DeclaredLen(f)
           /\ g.size = f.size /\ g.cls = f.cls /\ g.reads = f.reads /\ g.writes = f.writes /\ g.hint = f.hint
BY DEF Insn, InsnFields, IsHintInsn, DeclaredLen

\* c.li x0, n is a hint of length n as long as n fits.
LEMMA HintInsnType ==
    ASSUME insns \in Seq(Insn), NEW n \in 1..MAX_HINT
    PROVE  HintInsn(n) \in Insn /\ DeclaredLen(HintInsn(n)) = n
<1>1. EndAddr \in Nat
  BY EndAddrType
<1>2. n \in 0..MAX_HINT
  BY DEF MAX_HINT
<1>3. HintInsn(n) \in InsnFields
  BY <1>1, <1>2 DEF HintInsn, InsnFields, Class
<1> QED BY <1>3 DEF HintInsn, Insn, IsHintInsn, DeclaredLen
-----------------------------------------------------------------------------
LEMMA ToolInitInv == ToolInit => ToolInv
<1> SUFFICES ASSUME ToolInit PROVE ToolInv
  OBVIOUS
<1>1. /\ Init /\ eb = 1 /\ ei = 1 /\ placed = {} /\ insns = <<>>
      /\ idx = 1 /\ bundles = <<>> /\ covered = {} /\ exit = -1
  BY DEF ToolInit
<1>2. PacketInv /\ Encodable /\ hints = {}
  <2>1. PacketInv /\ mf \in Functions /\ hints = {}
    BY <1>1, InitInv DEF Init
  <2>2. mf \in Seq(Seq(MachineInstr))
    BY <2>1, FunctionsAssumption
  <2>3. \A b \in 1..Len(mf) : \A i \in 1..Len(mf[b]) : EncodesFaithfully(mf[b][i])
    BY <2>1, EncodeAssumption
  <2> QED BY <2>1, <2>2, <2>3 DEF Encodable
<1>3. AtPlace
  BY <1>1, <1>2, FunctionType DEF AtPlace
<1>4. insns \in Seq(Insn) /\ Len(insns) = 0
  BY <1>1
<1>5. LaidOut
  BY <1>1, <1>2, <1>4 DEF LaidOut
<1>6. CheckInv
  BY <1>1, <1>4, CheckInit
<1> QED BY <1>1, <1>2, <1>3, <1>5, <1>6, SameFunction DEF ToolInv

\* Nothing is printed as long as the pass runs.
LEMMA PackKeeps == ToolInv /\ Pack => ToolInv'
<1> SUFFICES ASSUME ToolInv, Pack PROVE ToolInv'
  OBVIOUS
<1>1. /\ ~Done /\ Next /\ UNCHANGED <<printVars, checkerVars>>
      /\ PacketInv /\ Encodable
  BY DEF Pack, ToolInv
<1>2. UNCHANGED <<eb, ei, placed, insns, idx, bundles, covered, exit>>
  BY <1>1 DEF printVars, checkerVars
<1>3. /\ eb = 1 /\ ei = 1 /\ placed = {} /\ insns = <<>> /\ AtPlace
      /\ idx = 1 /\ bundles = <<>> /\ covered = {} /\ exit = -1
  BY <1>1 DEF ToolInv, Printed
<1>4. PacketInv' /\ UNCHANGED <<config, mf>>
  <2>1. PacketInv'
    BY <1>1, StepInv
  <2>2. UNCHANGED <<config, mf>>
    BY <1>1 DEF Next, SkipFunction, Barrier, Join, FlushAndJoin, PutInto, Unplaceable, EndBlock, Returned, vars
  <2> QED BY <2>1, <2>2
<1>5. AtPlace'
  BY <1>2, <1>3, <1>4 DEF AtPlace
<1>6. insns \in Seq(Insn) /\ Len(insns) = 0
  BY <1>3
<1>7. CheckInv'
  BY <1>1, <1>3, <1>6, CheckInit, CheckStutter
<1>8. LaidOut'
  <2>1. \A h \in hints' : ~(h.bb < 1) /\ ~(h.at < 1) /\ ~(h.bb < eb') /\ ~(h.at < ei')
    BY <1>2, <1>3, <1>4, NoHintInFrontNext
  <2> QED BY <1>2, <1>3, <1>4, <1>6, <2>1 DEF LaidOut, Past
<1> QED BY <1>1, <1>2, <1>3, <1>4, <1>5, <1>7, <1>8, SameFunction DEF ToolInv

(***************************************************************************)
(* A hint is printed in front of its window.  No other window is open at   *)
(* that point, because windows are disjoint.                               *)
(***************************************************************************)
LEMMA PrintHintKeeps == ToolInv /\ PrintHint => ToolInv'
<1> SUFFICES ASSUME ToolInv, PrintHint PROVE ToolInv'
  OBVIOUS
<1>1. /\ Done /\ eb =< Len(mf) /\ ~Printed /\ UNCHANGED <<vars, eb, ei, checkVars>>
      /\ PacketInv /\ Encodable
  <2>1. Len(mf) \in Nat /\ eb \in Nat /\ Done /\ eb =< Len(mf)
    BY FunctionType DEF PrintHint, Printing, ToolInv, AtPlace
  <2> QED BY <2>1 DEF PrintHint, Printed, ToolInv
<1>2. UNCHANGED <<config, mf, hints, bb, eb, ei, idx, bundles, covered, exit>>
  BY <1>1 DEF vars, checkVars
<1>3. PICK h \in Pending : /\ insns' = Append(insns, HintInsn(h.len))
                           /\ placed' = placed \cup {[hint |-> h, index |-> Len(insns) + 1]}
  BY DEF PrintHint
<1>4. h \in hints /\ h.bb = eb /\ h.at = ei /\ \A p \in placed : p.hint # h
  BY DEF Pending
<1>5. PacketInv'
  BY <1>1, StepInv
<1>6. AtPlace' /\ Done' /\ ~Printed' /\ (WidthsFit' <=> WidthsFit)
  BY <1>1, <1>2 DEF ToolInv, AtPlace, Done, Printed, WidthsFit
<1>7. ASSUME WidthsFit PROVE LaidOut'
  <2>1. LaidOut /\ insns \in Seq(Insn)
    BY <1>7 DEF ToolInv, LaidOut
  <2>2. /\ ei \in Nat \ {0} /\ h.len \in Nat \ {0} /\ h.len \in 1..MAX_HINT
        /\ h.at \in Nat /\ h.at \in Window(h)
    <3>1. ei \in Nat \ {0} /\ config.numLanes =< 63
      BY <1>7 DEF ToolInv, AtPlace, WidthsFit, MAX_HINT
    <3>2. /\ h.at \in 1..Len(mf[h.bb]) /\ h.len \in Nat \ {0} /\ h.len =< config.numLanes
          /\ config.numLanes \in Nat /\ h.bb \in 1..Len(mf)
      BY <1>1, <1>4, HintWindow
    <3>3. h.at \in Nat /\ h.len \in 1..63
      <4>1. PICK m \in Nat : h.at \in 1..m
        BY <1>1, <3>2, FunctionType
      <4>2. \A l, w \in Nat : l # 0 /\ l =< w /\ w =< 63 => l \in 1..63
        OBVIOUS
      <4>3. h.len \in 1..63
        BY <3>1, <3>2, <4>2, Zenon
      <4> QED BY <4>1, <4>3
    <3>4. h.at \in Window(h)
      BY <3>3 DEF Window
    <3> QED BY <3>1, <3>2, <3>3, <3>4 DEF MAX_HINT
  <2> DEFINE e == HintInsn(h.len)
  <2>3. e \in Insn /\ DeclaredLen(e) = h.len
    BY <2>1, <2>2, HintInsnType
  <2> HIDE DEF e
  <2>4. PICK n \in Nat : n = Len(insns)
    BY <2>1
  <2>5. PICK new : new = [hint |-> h, index |-> n + 1]
    OBVIOUS
  <2>6. /\ insns' \in Seq(Insn) /\ Len(insns') = n + 1 /\ insns'[n + 1] = e
        /\ \A i \in 1..n : insns'[i] = insns[i]
    BY <1>3, <2>1, <2>3, <2>4, AppendProperties DEF e
  <2>7. \A b, i : Past(b, i)' = Past(b, i)
    BY <1>2 DEF Past
  <2>8. ASSUME NEW p \in placed PROVE HintPrinted(p)'
    <3> DEFINE g == p.hint
    <3>1. HintPrinted(p) /\ g \in hints /\ g # h
      BY <1>4, <2>1 DEF LaidOut, HintPrinted
    <3>2. /\ p.index \in 1..n /\ DeclaredLen(insns[p.index]) = g.len
          /\ Past(g.bb, g.at) \/ (g.bb = eb /\ g.at = ei)
          /\ \A k \in 1..g.len : Past(g.bb, g.at + k - 1) =>
               /\ p.index + k =< n
               /\ Encodes(insns[p.index + k], mf[g.bb][g.at + k - 1])
      BY <2>4, <3>1 DEF HintPrinted
    <3>3. ~(g.bb = eb /\ ei < g.at + g.len)
      <4> SUFFICES ASSUME g.bb = eb, ei < g.at + g.len PROVE FALSE
        OBVIOUS
      <4>1. g.at \in Nat /\ g.len \in Nat /\ eb \in Nat
        <5>1. g \in HintType
          BY <1>1, <3>1 DEF PacketInv, TypeOK
        <5>2. eb \in 1..(Len(mf) + 1)
          BY DEF ToolInv, AtPlace
        <5> QED BY <5>1, <5>2 DEF HintType
      <4>2. g.at =< ei
        BY <2>2, <3>2, <4>1 DEF Past
      <4>3. ei \in Window(g)
        BY <2>2, <4>1, <4>2 DEF Window
      <4>4. Overlap(g, h)
        BY <1>4, <2>2, <4>3 DEF Overlap
      <4> QED BY <1>1, <1>4, <3>1, <4>4 DEF PacketInv, BundlesDisjoint
    <3>4. DeclaredLen(insns'[p.index]) = g.len /\ p.index \in 1..(n + 1)
      BY <2>6, <3>2
    <3>5. ASSUME NEW k \in 1..g.len, Past(g.bb, g.at + k - 1)
          PROVE  /\ p.index + k =< n + 1
                 /\ Encodes(insns'[p.index + k], mf[g.bb][g.at + k - 1])
      <4>1. g.len \in Nat
        BY <1>1, <3>1, HintWindow
      <4>2. p.index + k =< n /\ Encodes(insns[p.index + k], mf[g.bb][g.at + k - 1])
        BY <3>2, <3>5
      <4>3. p.index + k \in 1..n
        BY <3>2, <4>1, <4>2
      <4> QED BY <2>6, <4>2, <4>3
    <3> HIDE DEF g
    <3> QED BY <1>2, <2>6, <2>7, <3>1, <3>2, <3>3, <3>4, <3>5 DEF HintPrinted, Encodes, g
  <2>9. HintPrinted(new)'
    <3>1. new.hint = h /\ new.index = n + 1
      BY <2>5
    <3>2. \A k \in 1..h.len : ~Past(h.bb, h.at + k - 1)
      BY <1>4, <2>2 DEF Past, ToolInv, AtPlace
    <3>3. Len(insns') = (n + 1) + (ei - h.at)
      BY <1>4, <2>2, <2>6
    <3>4. DeclaredLen(insns'[new.index]) = h.len
      BY <2>3, <2>6, <3>1
    <3>5. new.index \in 1..Len(insns')
      BY <2>6, <3>1
    <3>6. \A k \in 1..h.len : ~Past(h.bb, h.at + k - 1)'
      BY <2>7, <3>2
    <3>7. h.bb = eb' /\ h.at = ei' /\ h \in hints'
      BY <1>2, <1>4
    <3>8. Len(insns') = new.index + (ei' - h.at)
      BY <1>2, <3>1, <3>3
    <3> QED BY <3>1, <3>4, <3>5, <3>6, <3>7, <3>8, Zenon DEF HintPrinted
  <2>10. \A i \in 1..(n + 1) : DeclaredLen(insns'[i]) # 0 => \E p \in placed' : p.index = i
    <3> SUFFICES ASSUME NEW i \in 1..(n + 1), DeclaredLen(insns'[i]) # 0
                 PROVE  \E p \in placed' : p.index = i
      OBVIOUS
    <3>1. CASE i \in 1..n
      BY <1>3, <2>1, <2>4, <2>6, <3>1 DEF LaidOut
    <3>2. CASE i = n + 1
      <4>1. new \in placed' /\ new.index = n + 1
        BY <1>3, <2>4, <2>5
      <4> QED BY <3>2, <4>1, Zenon
    <3> QED BY <3>1, <3>2
  <2>11. \A g \in hints : Past(g.bb, g.at) => \E p \in placed' : p.hint = g
    BY <1>3, <2>1 DEF LaidOut
  <2>12. \A p \in placed' : HintPrinted(p)'
    <3>1. placed' = placed \cup {new}
      BY <1>3, <2>4, <2>5
    <3> QED BY <2>8, <2>9, <3>1, Zenon
  <2> QED BY <1>2, <2>6, <2>7, <2>10, <2>11, <2>12 DEF LaidOut
<1> QED BY <1>1, <1>2, <1>5, <1>6, <1>7, SameFunction DEF ToolInv

(***************************************************************************)
(* An instruction is printed as its encoding.  If it lies in the window of *)
(* a hint it is one instruction, so that the window's next member follows. *)
(***************************************************************************)
LEMMA PrintInstrKeeps == ToolInv /\ PrintInstr => ToolInv'
<1> SUFFICES ASSUME ToolInv, PrintInstr PROVE ToolInv'
  OBVIOUS
<1>1. /\ Done /\ eb =< Len(mf) /\ ei =< Len(mf[eb]) /\ Pending = {}
      /\ PacketInv /\ Encodable
      /\ eb \in 1..Len(mf) /\ ei \in 1..Len(mf[eb]) /\ ei \in Nat \ {0} /\ eb \in Nat
      /\ Len(mf) \in Nat /\ Len(mf[eb]) \in Nat
  <2>1. /\ Done /\ eb =< Len(mf) /\ ei =< Len(mf[eb]) /\ Pending = {}
        /\ PacketInv /\ Encodable /\ AtPlace
    BY DEF PrintInstr, Printing, ToolInv
  <2>2. Len(mf) \in Nat /\ eb \in Nat /\ eb \in 1..Len(mf) /\ ei \in Nat \ {0}
    BY <2>1, FunctionType DEF AtPlace
  <2>3. Len(mf[eb]) \in Nat
    BY <2>1, <2>2, FunctionType
  <2> QED BY <2>1, <2>2, <2>3
<1>2. /\ UNCHANGED <<vars, eb, placed, checkVars>> /\ ei' = ei + 1
      /\ UNCHANGED <<config, mf, hints, bb, idx, bundles, covered, exit>>
  BY DEF PrintInstr, vars, checkVars
<1>10. PICK b0 \in Nat, i0 \in Nat \ {0} : eb = b0 /\ ei = i0 /\ eb' = b0 /\ ei' = i0 + 1
  BY <1>1, <1>2, Zenon
<1> DEFINE mi == mf[eb][ei]
           e  == Encode(mi)
           s  == [k \in 1..Len(e) |-> Placed(e, k)]
<1>3. insns' = insns \o s
  BY DEF PrintInstr
<1>4. EncodesFaithfully(mi)
  BY <1>1, FunctionType
<1> HIDE DEF mi
<1>5. /\ e \in Seq(Insn) /\ Len(e) \in Nat /\ \A k \in 1..Len(e) : e[k] \in Insn /\ DeclaredLen(e[k]) = 0
      /\ isPacketizableMI(mi) => Len(e) = 1
  BY <1>4 DEF EncodesFaithfully
<1>6. PICK m \in Nat : m = Len(e)
  BY <1>5
<1>7. PacketInv'
  BY <1>1, <1>2, StepInv
<1>8. AtPlace' /\ Done' /\ ~Printed /\ ~Printed' /\ (WidthsFit' <=> WidthsFit)
  BY <1>1, <1>2 DEF AtPlace, Done, Printed, WidthsFit
<1>9. ASSUME WidthsFit PROVE LaidOut'
  <2>1. LaidOut /\ insns \in Seq(Insn)
    BY <1>9 DEF ToolInv, LaidOut
  <2>2. PICK n \in Nat : n = Len(insns)
    BY <2>1
  <2>3. ASSUME NEW k \in 1..m
        PROVE  Placed(e, k) \in Insn /\ DeclaredLen(Placed(e, k)) = 0 /\ Encodes(Placed(e, 1), mi)
    <3>1. EndAddr \in Nat
      BY <2>1, EndAddrType
    <3>2. ASSUME NEW j \in 1..m
          PROVE  /\ Placed(e, j) \in Insn /\ DeclaredLen(Placed(e, j)) = DeclaredLen(e[j])
                 /\ Placed(e, j).size = e[j].size /\ Placed(e, j).cls = e[j].cls
                 /\ Placed(e, j).reads = e[j].reads /\ Placed(e, j).writes = e[j].writes
                 /\ Placed(e, j).hint = e[j].hint
      <4>1. EndAddr + 4 * (j - 1) \in Nat /\ e[j] \in Insn
        BY <1>5, <1>6, <3>1
      <4> HIDE DEF e
      <4> QED BY <4>1, PlacedInsn, Zenon DEF Placed
    <3>3. 1 \in 1..m
      OBVIOUS
    <3>4. DeclaredLen(e[k]) = 0
      BY <1>5, <1>6
    <3> QED BY <3>2, <3>3, <3>4, Zenon DEF Encodes
  <2>4. s \in Seq(Insn) /\ Len(s) = m /\ \A k \in 1..m : s[k] = Placed(e, k)
    <3> HIDE DEF e
    <3> QED BY <1>6, <2>3
  <2> HIDE DEF s
  <2>5. /\ insns' \in Seq(Insn) /\ Len(insns') = n + m
        /\ \A i \in 1..n : insns'[i] = insns[i]
        /\ \A k \in 1..m : insns'[n + k] = Placed(e, k)
    <3>1. /\ insns \o s \in Seq(Insn) /\ Len(insns \o s) = n + m
          /\ \A i \in 1..(n + m) : (insns \o s)[i] = IF i =< n THEN insns[i] ELSE s[i - n]
      <4>1. insns \in Seq(Insn) /\ s \in Seq(Insn) /\ Len(insns) = n /\ Len(s) = m
        BY <2>1, <2>2, <2>4
      <4>2. /\ insns \o s \in Seq(Insn) /\ Len(insns \o s) = Len(insns) + Len(s)
            /\ \A i \in 1..(Len(insns) + Len(s)) :
                  (insns \o s)[i] = IF i =< Len(insns) THEN insns[i] ELSE s[i - Len(insns)]
        BY <4>1, ConcatProperties, Zenon
      <4> QED BY <4>1, <4>2, Zenon
    <3>2. \A k \in 1..m : n + k \in 1..(n + m) /\ ~(n + k =< n) /\ (n + k) - n = k
      OBVIOUS
    <3>3. \A i \in 1..n : i \in 1..(n + m) /\ i =< n
      OBVIOUS
    <3> QED BY <1>3, <2>4, <3>1, <3>2, <3>3, Zenon
  <2> HIDE DEF e
  <2>6. \A b, i \in Int : Past(b, i) => Past(b, i)'
    BY <1>10 DEF Past
  <2>7. ASSUME NEW p \in placed PROVE HintPrinted(p)'
    <3> DEFINE g == p.hint
    <3>1. HintPrinted(p) /\ g \in hints
      BY <2>1 DEF LaidOut, HintPrinted
    <3>2. /\ p.index \in 1..n /\ DeclaredLen(insns[p.index]) = g.len
          /\ Past(g.bb, g.at) \/ (g.bb = eb /\ g.at = ei)
          /\ \A k \in 1..g.len : Past(g.bb, g.at + k - 1) =>
               /\ p.index + k =< n
               /\ Encodes(insns[p.index + k], mf[g.bb][g.at + k - 1])
          /\ g.bb = eb /\ ei < g.at + g.len => n = p.index + (ei - g.at)
      BY <2>2, <3>1 DEF HintPrinted
    <3>3. /\ g.bb \in 1..Len(mf) /\ g.bb \in Nat /\ g.len \in Nat \ {0}
          /\ g.at \in 1..Len(mf[g.bb]) /\ g.at \in Nat
          /\ \A k \in 1..g.len : isPacketizableMI(mf[g.bb][g.at + k - 1])
      <4>1. /\ g.bb \in 1..Len(mf) /\ g.len \in Nat \ {0} /\ g.at \in 1..Len(mf[g.bb])
            /\ \A k \in 1..g.len : isPacketizableMI(mf[g.bb][g.at + k - 1])
        BY <1>1, <3>1, HintWindow
      <4>2. PICK w \in Nat : g.at \in 1..w
        BY <1>1, <4>1, FunctionType
      <4> QED BY <1>1, <4>1, <4>2
    <3>4. g.bb = eb => g.at =< ei
      <4>1. \A x \in Nat : Past(b0, x) => x < i0
        BY <1>10 DEF Past
      <4> QED BY <1>10, <3>2, <3>3, <4>1
    <3>5. ASSUME g.bb = eb, ei < g.at + g.len
          PROVE  m = 1 /\ ei - g.at + 1 \in 1..g.len /\ n = p.index + (ei - g.at)
      <4>1. ei - g.at + 1 \in 1..g.len /\ g.at + (ei - g.at + 1) - 1 = ei
        <5>1. g.at \in Nat /\ g.len \in Nat \ {0}
          BY <3>3
        <5> HIDE DEF g
        <5> QED BY <1>10, <3>4, <3>5, <5>1
      <4>2. isPacketizableMI(mf[g.bb][g.at + (ei - g.at + 1) - 1])
        BY <3>3, <4>1
      <4>3. isPacketizableMI(mi)
        BY <3>5, <4>1, <4>2 DEF mi
      <4> QED BY <1>5, <1>6, <3>2, <3>5, <4>1, <4>3
    <3> HIDE DEF g
    <3>6. p.index \in 1..Len(insns') /\ DeclaredLen(insns'[p.index]) = g.len
      BY <2>5, <3>2
    <3>7. Past(g.bb, g.at)'
      BY <1>10, <2>6, <3>2, <3>3 DEF Past
    <3>8. ASSUME NEW k \in 1..g.len, Past(g.bb, g.at + k - 1)'
          PROVE  /\ p.index + k =< n + m
                 /\ Encodes(insns'[p.index + k], mf[g.bb][g.at + k - 1])
      <4>1. CASE Past(g.bb, g.at + k - 1)
        <5>1. p.index + k =< n /\ Encodes(insns[p.index + k], mf[g.bb][g.at + k - 1])
          BY <3>2, <4>1
        <5>2. p.index + k \in 1..n /\ p.index + k =< n + m
          <6>1. /\ p.index \in Nat \ {0} /\ k \in Nat \ {0} /\ p.index + k =< n
                /\ n \in Nat /\ m \in Nat
            <7>1. p.index \in 1..n /\ g.len \in Nat /\ n \in Nat /\ m \in Nat
              BY <1>10, <3>2, <3>3, Zenon
            <7> QED BY <5>1, <7>1
          <6> QED BY <6>1
        <5> QED BY <2>5, <5>1, <5>2
      <4>2. CASE ~Past(g.bb, g.at + k - 1)
        <5>1. g.bb = eb /\ g.at + k - 1 = ei
          <6>1. \A b, i \in Int : Past(b, i)' /\ ~Past(b, i) => b = b0 /\ i = i0
            BY <1>10 DEF Past
          <6>2. g.bb \in Int /\ g.at + k - 1 \in Int
            BY <3>3
          <6> QED BY <1>10, <3>8, <4>2, <6>1, <6>2
        <5>2. ei < g.at + g.len
          BY <3>3, <5>1
        <5>3. m = 1 /\ n = p.index + (ei - g.at)
          BY <3>5, <5>1, <5>2
        <5>4. p.index + k = n + 1
          <6>1. /\ p.index \in Int /\ k \in Int /\ g.at \in Int
                /\ n = p.index + (ei - g.at) /\ ei = g.at + k - 1
            BY <3>2, <3>3, <5>1, <5>3
          <6> QED BY <6>1
        <5>5. insns'[n + 1] = Placed(e, 1) /\ Encodes(Placed(e, 1), mi)
          BY <2>3, <2>5, <5>3
        <5>6. mi = mf[g.bb][g.at + k - 1]
          BY <5>1 DEF mi
        <5> QED BY <5>3, <5>4, <5>5, <5>6
      <4> QED BY <4>1, <4>2
    <3>9. ASSUME g.bb = eb, ei + 1 < g.at + g.len
          PROVE  Len(insns') = p.index + (ei + 1 - g.at)
      <4>1. ei < g.at + g.len
        BY <1>10, <3>3, <3>9
      <4>2. m = 1 /\ n = p.index + (ei - g.at)
        BY <3>5, <3>9, <4>1
      <4>3. Len(insns') = n + m
        BY <2>5
      <4>4. n \in Int /\ p.index \in Int /\ ei \in Int /\ g.at \in Int
        BY <1>10, <3>2, <3>3
      <4> QED BY <4>2, <4>3, <4>4
    <3>10. \A k \in 1..g.len : Past(g.bb, g.at + k - 1)' =>
              /\ p.index + k =< Len(insns')
              /\ Encodes(insns'[p.index + k], mf'[g.bb][g.at + k - 1])
      BY <1>2, <2>5, <3>8
    <3>11. g.bb = eb' /\ ei' < g.at + g.len => Len(insns') = p.index + (ei' - g.at)
      <4>1. eb' = eb /\ ei' = ei + 1
        BY <1>2
      <4>2. ASSUME g.bb = eb', ei' < g.at + g.len
            PROVE  Len(insns') = p.index + (ei' - g.at)
        <5>1. g.bb = eb /\ ei + 1 < g.at + g.len
          BY <4>1, <4>2
        <5>2. Len(insns') = p.index + (ei + 1 - g.at)
          BY <3>9, <5>1
        <5>3. p.index \in Int /\ g.at \in Int /\ p.index + (ei + 1 - g.at) = p.index + (ei' - g.at)
          <6>1. p.index \in Int /\ g.at \in Int /\ ei \in Int /\ ei' = ei + 1
            BY <1>1, <3>2, <3>3, <4>1
          <6> QED BY <6>1
        <5> QED BY <5>2, <5>3, Zenon
      <4> QED BY <4>2
    <3>12. g \in hints'
      BY <1>2, <3>1
    <3> QED BY <3>6, <3>7, <3>10, <3>11, <3>12, Zenon DEF HintPrinted, Encodes, g
  <2>8. \A i \in 1..(n + m) : DeclaredLen(insns'[i]) # 0 => \E p \in placed : p.index = i
    <3> SUFFICES ASSUME NEW i \in 1..(n + m), DeclaredLen(insns'[i]) # 0
                 PROVE  \E p \in placed : p.index = i
      OBVIOUS
    <3>1. CASE i \in 1..n
      BY <2>1, <2>2, <2>5, <3>1 DEF LaidOut
    <3>2. CASE i \notin 1..n
      <4>1. i - n \in 1..m /\ n + (i - n) = i
        BY <3>2
      <4>2. insns'[i] = Placed(e, i - n) /\ DeclaredLen(Placed(e, i - n)) = 0
        BY <2>3, <2>5, <4>1
      <4> QED BY <4>2
    <3> QED BY <3>1, <3>2
  <2>9. ASSUME NEW g \in hints, Past(g.bb, g.at)' PROVE \E p \in placed : p.hint = g
    <3>1. CASE Past(g.bb, g.at)
      BY <2>1, <3>1 DEF LaidOut
    <3>2. CASE ~Past(g.bb, g.at)
      <4>1. PICK w \in Nat : g.at \in 1..w
        BY <1>1, HintWindow, FunctionType
      <4>2. g.bb = eb /\ g.at = ei
        BY <1>1, <1>2, <2>9, <3>2, <4>1 DEF Past
      <4> QED BY <1>1, <4>2 DEF Pending
    <3> QED BY <3>1, <3>2
  <2> QED BY <1>2, <2>5, <2>7, <2>8, <2>9 DEF LaidOut
<1> QED BY <1>1, <1>2, <1>7, <1>8, <1>9, SameFunction DEF ToolInv

\* At the end of a block every window of the block has been printed.
LEMMA NextBlockKeeps == ToolInv /\ NextBlock => ToolInv'
<1> SUFFICES ASSUME ToolInv, NextBlock PROVE ToolInv'
  OBVIOUS
<1>1. /\ Done /\ eb =< Len(mf) /\ PacketInv /\ Encodable /\ AtPlace
      /\ UNCHANGED <<vars, placed, insns, checkVars>>
      /\ eb' = eb + 1 /\ ei' = 1 /\ ei = Len(mf[eb]) + 1
  BY DEF NextBlock, Printing, ToolInv
<1>2. PICK b0 \in Nat \ {0}, w \in Nat :
         /\ eb = b0 /\ w = Len(mf[b0]) /\ ei = w + 1 /\ eb' = b0 + 1 /\ b0 =< Len(mf)
  <2>1. Len(mf) \in Nat /\ eb \in Nat \ {0} /\ eb \in 1..Len(mf)
    BY <1>1, FunctionType DEF AtPlace
  <2>2. Len(mf[eb]) \in Nat
    BY <1>1, <2>1, FunctionType
  <2> QED BY <1>1, <2>1, <2>2
<1>3. /\ UNCHANGED <<config, mf, hints, bb, placed, insns, idx, bundles, covered, exit>>
      /\ UNCHANGED checkerVars
  BY <1>1 DEF vars, checkVars, checkerVars
<1>4. PacketInv'
  BY <1>1, StepInv
<1>5. ~Printed /\ Done' /\ (WidthsFit' <=> WidthsFit)
  BY <1>1, <1>2, <1>3, FunctionType DEF Printed, Done, WidthsFit
<1>6. AtPlace'
  <2>1. Len(mf) \in Nat /\ b0 + 1 \in 1..(Len(mf) + 1)
    BY <1>1, <1>2, FunctionType
  <2>2. b0 + 1 =< Len(mf) => 1 =< Len(mf[b0 + 1]) + 1
    <3>1. b0 + 1 =< Len(mf) => Len(mf[b0 + 1]) \in Nat
      BY <1>1, <2>1, FunctionType
    <3> QED BY <3>1
  <2> QED BY <1>1, <1>2, <1>3, <2>1, <2>2 DEF AtPlace
<1>7. ASSUME NEW h \in hints
      PROVE  /\ h.bb \in Nat /\ h.at \in Nat \ {0} /\ h.len \in Nat \ {0}
             /\ h.bb = b0 => h.at + h.len - 1 =< w
  <2>1. /\ h.bb \in 1..Len(mf) /\ h.at \in 1..Len(mf[h.bb]) /\ h.len \in Nat \ {0}
        /\ h.at + h.len - 1 =< Len(mf[h.bb])
    BY <1>1, HintWindow
  <2>2. PICK v \in Nat : v = Len(mf[h.bb])
    BY <1>1, <2>1, FunctionType
  <2>3. h.at \in 1..v /\ h.bb \in Nat
    BY <1>1, <2>1, <2>2, FunctionType
  <2>4. h.bb = b0 => h.at + h.len - 1 =< w
    BY <1>2, <2>1
  <2> QED BY <2>1, <2>3, <2>4
<1>8. \A b, i \in Int : i >= 1 => (Past(b, i)' <=> b =< b0)
  BY <1>1, <1>2 DEF Past
<1>9. \A b, i \in Int : b < b0 \/ (b = b0 /\ i =< w) => Past(b, i)
  BY <1>2 DEF Past
<1>10. ASSUME WidthsFit PROVE LaidOut'
  <2>1. LaidOut
    BY <1>10 DEF ToolInv
  <2>2. ASSUME NEW p \in placed PROVE HintPrinted(p)'
    <3> DEFINE h == p.hint
    <3>1. HintPrinted(p) /\ h \in hints
      BY <2>1 DEF LaidOut, HintPrinted
    <3>2. /\ p.index \in 1..Len(insns) /\ DeclaredLen(insns[p.index]) = h.len
          /\ Past(h.bb, h.at) \/ (h.bb = eb /\ h.at = ei)
          /\ \A k \in 1..h.len : Past(h.bb, h.at + k - 1) =>
               /\ p.index + k =< Len(insns)
               /\ Encodes(insns[p.index + k], mf[h.bb][h.at + k - 1])
      BY <3>1 DEF HintPrinted
    <3>3. /\ h.bb \in Nat /\ h.at \in Nat \ {0} /\ h.len \in Nat \ {0}
          /\ h.bb = b0 => h.at + h.len - 1 =< w
      BY <1>7, <3>1
    <3> HIDE DEF h
    <3>4. h.bb =< b0
      BY <1>2, <3>2, <3>3 DEF Past
    <3>5. Past(h.bb, h.at)'
      BY <1>8, <3>3, <3>4
    <3>6. ASSUME NEW k \in 1..h.len PROVE Past(h.bb, h.at + k - 1)
      <4>1. h.at + k - 1 \in Int /\ (h.bb = b0 => h.at + k - 1 =< w)
        BY <3>3
      <4> QED BY <1>9, <3>3, <3>4, <4>1
    <3>7. ~(h.bb = eb')
      BY <1>2, <3>3, <3>4
    <3> QED BY <1>3, <3>1, <3>2, <3>5, <3>6, <3>7 DEF HintPrinted, Encodes, h
  <2>3. ASSUME NEW h \in hints, Past(h.bb, h.at)' PROVE \E p \in placed : p.hint = h
    <3>1. /\ h.bb \in Nat /\ h.at \in Nat \ {0} /\ h.len \in Nat \ {0}
          /\ h.bb = b0 => h.at + h.len - 1 =< w
      BY <1>7
    <3>2. h.bb =< b0
      BY <1>8, <2>3, <3>1
    <3>3. Past(h.bb, h.at)
      BY <1>9, <3>1, <3>2
    <3> QED BY <2>1, <3>3 DEF LaidOut
  <2> QED BY <1>3, <2>1, <2>2, <2>3 DEF LaidOut
<1>11. ASSUME WidthsFit PROVE CheckInv'
  <2>1. insns \in Seq(Insn)
    BY <1>11 DEF ToolInv, LaidOut
  <2>2. CheckInv
    BY <1>5, <2>1, CheckInit DEF ToolInv
  <2> QED BY <1>3, <2>2, CheckStutter
<1> QED BY <1>1, <1>3, <1>4, <1>5, <1>6, <1>10, <1>11, SameFunction DEF ToolInv

\* The checker reads the binary and leaves it alone.
LEMMA CheckKeeps == ToolInv /\ Check => ToolInv'
<1> SUFFICES ASSUME ToolInv, Check PROVE ToolInv'
  OBVIOUS
<1>1. Printed /\ CheckerNext /\ UNCHANGED <<vars, printVars>> /\ UNCHANGED insns
  BY DEF Check, CheckerNext, StepOver, TakeBundle, Report, Exited, checkerVars
<1>2. UNCHANGED <<config, mf, hints, bb, eb, ei, placed>>
  BY <1>1 DEF vars, printVars
<1>3. PacketInv'
  BY <1>1, StepInv DEF ToolInv
<1>4. AtPlace' /\ Done' /\ Printed' /\ (WidthsFit' <=> WidthsFit)
  BY <1>1, <1>2 DEF ToolInv, AtPlace, Done, Printed, WidthsFit
<1>5. ASSUME WidthsFit PROVE LaidOut' /\ CheckInv'
  <2>1. CheckInv'
    BY <1>1, <1>5, CheckStep DEF ToolInv
  <2>2. \A p : HintPrinted(p)' <=> HintPrinted(p)
    BY <1>1, <1>2 DEF HintPrinted, Past, Encodes
  <2> QED BY <1>1, <1>2, <1>5, <2>1, <2>2 DEF ToolInv, LaidOut, Past
<1> QED BY <1>2, <1>3, <1>4, <1>5, SameFunction DEF ToolInv

LEMMA ToolStutter == ToolInv /\ UNCHANGED toolVars => ToolInv'
<1> SUFFICES ASSUME ToolInv, UNCHANGED toolVars PROVE ToolInv'
  OBVIOUS
<1>1. UNCHANGED vars /\ UNCHANGED printVars /\ UNCHANGED checkerVars
  BY DEF toolVars
<1>2. UNCHANGED <<config, mf, hints, bb, eb, ei, placed, insns, idx, bundles, covered, exit>>
  BY <1>1 DEF vars, printVars, checkerVars
<1>3. PacketInv'
  BY <1>1, StepInv DEF ToolInv
<1>4. AtPlace' /\ (Done' <=> Done) /\ (Printed' <=> Printed) /\ (WidthsFit' <=> WidthsFit)
  BY <1>2 DEF ToolInv, AtPlace, Done, Printed, WidthsFit
<1>5. ASSUME WidthsFit PROVE LaidOut' /\ (Printed => CheckInv')
  <2>1. Printed => CheckInv'
    BY <1>1, <1>5, CheckStutter DEF ToolInv
  <2>2. \A p : HintPrinted(p)' <=> HintPrinted(p)
    BY <1>2 DEF HintPrinted, Past, Encodes
  <2> QED BY <1>2, <1>5, <2>1, <2>2 DEF ToolInv, LaidOut, Past
<1> QED BY <1>2, <1>3, <1>4, <1>5, SameFunction DEF ToolInv

\* Every step of packetizer, printer or checker keeps the invariant.
LEMMA ToolStep == ToolInv /\ [ToolNext]_toolVars => ToolInv'
BY PackKeeps, PrintHintKeeps, PrintInstrKeeps, NextBlockKeeps, CheckKeeps, ToolStutter DEF ToolNext

(***************************************************************************)
(* Packetizer, printer and checker keep their invariants together.         *)
(***************************************************************************)
THEOREM ToolInvariance == ToolSpec => []ToolInv
BY ToolInitInv, ToolStep, PTL DEF ToolSpec
-----------------------------------------------------------------------------
(***************************************************************************)
(* The printed binary: every hint in it is one the packetizer planned, and *)
(* the instructions behind it encode the members of its window, in order.  *)
(***************************************************************************)
LEMMA PrintedBundle ==
    ASSUME ToolInv, Printed, WidthsFit, NEW i \in Hints
    PROVE  \E p \in placed :
             LET h == p.hint IN
             /\ p.index = i /\ h \in hints /\ DeclaredLen(insns[i]) = h.len
             /\ i \in Nat /\ h.len \in Nat \ {0} /\ h.len =< config.numLanes /\ config.numLanes \in Nat
             /\ h.bb \in 1..Len(mf) /\ h.at \in Nat
             /\ Members(insns, i) = (i + 1)..(i + h.len)
             /\ Members(insns, i) \subseteq 1..Len(insns)
             /\ \A k \in 1..h.len : Encodes(insns[i + k], mf[h.bb][h.at + k - 1])
<1>1. LaidOut /\ PacketInv /\ Encodable
  BY DEF ToolInv
<1>2. PICK p \in placed : p.index = i
  BY <1>1 DEF Hints, LaidOut
<1> DEFINE h == p.hint
<1>3. HintPrinted(p)
  BY <1>1 DEF LaidOut
<1>4. /\ h \in hints /\ DeclaredLen(insns[i]) = h.len /\ i \in 1..Len(insns)
      /\ \A k \in 1..h.len : Past(h.bb, h.at + k - 1) =>
           /\ i + k =< Len(insns)
           /\ Encodes(insns[i + k], mf[h.bb][h.at + k - 1])
  BY <1>2, <1>3 DEF HintPrinted
<1>5. /\ h.bb \in 1..Len(mf) /\ h.at \in 1..Len(mf[h.bb]) /\ h.len \in Nat \ {0}
      /\ h.len =< config.numLanes /\ config.numLanes \in Nat
  BY <1>1, <1>4, HintWindow
<1>6. PICK n \in Nat : n = Len(insns)
  BY <1>1 DEF LaidOut
<1>7. i \in Nat /\ h.at \in Nat
  <2>1. PICK w \in Nat : h.at \in 1..w
    BY <1>1, <1>5, FunctionType
  <2> QED BY <1>4, <1>6, <2>1
<1>8. \A j : Past(h.bb, j)
  BY <1>1, <1>5, FunctionType DEF Past, Printed, ToolInv, AtPlace
<1>9. \A k \in 1..h.len : i + k =< n /\ Encodes(insns[i + k], mf[h.bb][h.at + k - 1])
  BY <1>4, <1>6, <1>8
<1>10. Members(insns, i) = (i + 1)..(i + h.len)
  BY <1>4 DEF Members
<1>11. (i + 1)..(i + h.len) \subseteq 1..n
  <2> SUFFICES ASSUME NEW j \in (i + 1)..(i + h.len) PROVE j \in 1..n
    OBVIOUS
  <2> HIDE DEF h
  <2>1. j - i \in 1..h.len /\ i + (j - i) = j
    BY <1>5, <1>7
  <2>2. i + (j - i) =< n
    BY <1>9, <2>1
  <2> QED BY <1>6, <1>7, <2>1, <2>2
<1> QED BY <1>2, <1>4, <1>5, <1>6, <1>7, <1>9, <1>10, <1>11

\* A member of a printed bundle is no hint, and of no kind that the contract forbids.
LEMMA PrintedMember ==
    ASSUME ToolInv, NEW h \in hints, NEW k \in 1..h.len,
           NEW e, Encodes(e, mf[h.bb][h.at + k - 1])
    PROVE  LET mi == mf[h.bb][h.at + k - 1] IN
           /\ DeclaredLen(e) = 0 /\ e.cls \notin Control
           /\ e.reads \subseteq mi.uses /\ e.writes \subseteq mi.defs
           /\ is_lane0_only(e) => classifyOpClass(mi) \notin WorkerClasses
<1> DEFINE mi == mf[h.bb][h.at + k - 1]
<1>1. PacketInv /\ Encodable
  BY DEF ToolInv
<1>2. h.bb \in 1..Len(mf) /\ h.at + k - 1 \in 1..Len(mf[h.bb]) /\ isPacketizableMI(mi)
  BY <1>1, HintWindow
<1>3. EncodesFaithfully(mi)
  BY <1>1, <1>2, FunctionType
<1> DEFINE f == Encode(mi)[1]
<1>4. /\ e.size = f.size /\ e.cls = f.cls /\ e.reads = f.reads /\ e.writes = f.writes /\ e.hint = f.hint
  BY DEF Encodes
<1> HIDE DEF mi
<1>5. /\ Len(Encode(mi)) = 1 /\ DeclaredLen(f) = 0
      /\ f.reads \subseteq mi.uses /\ f.writes \subseteq mi.defs /\ f.cls \notin Control
      /\ is_lane0_only(f) => classifyOpClass(mi) \notin WorkerClasses
  <2>1. /\ Len(Encode(mi)) = 1 /\ f.reads \subseteq mi.uses /\ f.writes \subseteq mi.defs
        /\ f.cls \notin Control
        /\ is_lane0_only(f) => classifyOpClass(mi) \notin WorkerClasses
    BY <1>2, <1>3, Zenon DEF EncodesFaithfully
  <2>2. \A n \in 1..Len(Encode(mi)) : DeclaredLen(Encode(mi)[n]) = 0
    BY <1>3, Zenon DEF EncodesFaithfully
  <2>3. 1 \in 1..Len(Encode(mi))
    BY <2>1
  <2>4. DeclaredLen(f) = 0
    BY <2>2, <2>3
  <2> QED BY <2>1, <2>4, Zenon
<1> QED BY <1>4, <1>5 DEF DeclaredLen, is_lane0_only, mi

\* No hint is printed into another's window.
LEMMA PrintedNotNested == ToolInv /\ Printed /\ WidthsFit => NoNestedHints
<1> SUFFICES ASSUME ToolInv, Printed, WidthsFit, NEW i \in Hints, NEW j \in Members(insns, i)
             PROVE  j \notin Hints
  BY DEF NoNestedHints
<1>1. PICK p \in placed :
         /\ p.hint \in hints /\ i \in Nat /\ p.hint.len \in Nat \ {0}
         /\ Members(insns, i) = (i + 1)..(i + p.hint.len)
         /\ \A k \in 1..p.hint.len : Encodes(insns[i + k], mf[p.hint.bb][p.hint.at + k - 1])
  BY PrintedBundle
<1>2. j - i \in 1..p.hint.len /\ i + (j - i) = j
  BY <1>1
<1>3. Encodes(insns[j], mf[p.hint.bb][p.hint.at + (j - i) - 1])
  BY <1>1, <1>2
<1>4. DeclaredLen(insns[j]) = 0
  BY <1>1, <1>2, <1>3, PrintedMember
<1> QED BY <1>4 DEF Hints

(***************************************************************************)
(* On a real machine every printed bundle is one the fetch unit forms, and *)
(* safe: the window is independent, and a member behind the first has a    *)
(* place whose lane only takes what the workers can execute.               *)
(***************************************************************************)
LEMMA PrintedSafe ==
    ASSUME ToolInv, Printed, HardwareConfig, NEW i \in Hints
    PROVE  /\ Live(insns, i) /\ SafeBundle(insns, i)
           /\ \A j \in Members(insns, i) : insns[j].cls \notin Control
<1>1. config.numLanes =< 4 /\ config.numLanes \in Nat /\ PacketInv
  BY DEF HardwareConfig, MAX_BUNDLE, ToolInv, PacketInv, TypeOK, ConfigType
<1>2. WidthsFit
  BY <1>1 DEF WidthsFit, MAX_HINT
<1>3. PICK p \in placed :
         LET h == p.hint IN
         /\ h \in hints /\ DeclaredLen(insns[i]) = h.len
         /\ i \in Nat /\ h.len \in Nat \ {0} /\ h.len =< config.numLanes
         /\ h.bb \in 1..Len(mf) /\ h.at \in Nat
         /\ Members(insns, i) = (i + 1)..(i + h.len)
         /\ Members(insns, i) \subseteq 1..Len(insns)
         /\ \A k \in 1..h.len : Encodes(insns[i + k], mf[h.bb][h.at + k - 1])
  BY <1>2, PrintedBundle
<1>4. PICK h \in hints : h = p.hint
  BY <1>3
<1> DEFINE mi(j) == mf[h.bb][h.at + (j - i) - 1]
<1>5. h.len \in Nat \ {0} /\ h.at \in Nat /\ i \in Nat /\ h.len =< config.numLanes
  BY <1>3, <1>4
<1>6. ASSUME NEW j \in Members(insns, i)
      PROVE  /\ insns[j].cls \notin Control
             /\ insns[j].reads \subseteq mi(j).uses /\ insns[j].writes \subseteq mi(j).defs
             /\ is_lane0_only(insns[j]) => classifyOpClass(mi(j)) \notin WorkerClasses
             /\ j - i \in 1..h.len /\ j \in Int /\ h.at + (j - i) - 1 \in Window(h)
  <2>1. j - i \in 1..h.len /\ i + (j - i) = j /\ j \in Int
    <3>1. j \in (i + 1)..(i + h.len)
      BY <1>3, <1>4, <1>6, Zenon
    <3> QED BY <1>5, <3>1
  <2>2. Encodes(insns[j], mi(j))
    <3>1. Encodes(insns[i + (j - i)], mf[h.bb][h.at + (j - i) - 1])
      BY <1>3, <1>4, <2>1
    <3> QED BY <2>1, <3>1
  <2>3. h.at + (j - i) - 1 \in Window(h)
    BY <1>1, <2>1, HintWindow
  <2> QED BY <2>1, <2>2, <2>3, PrintedMember
<1>7. Live(insns, i)
  <2>1. DeclaredLen(insns[i]) = h.len
    BY <1>3, <1>4
  <2>2. h.len \in 1..4
    BY <1>1, <1>5
  <2> QED BY <2>1, <2>2 DEF Live, MAX_BUNDLE
<1>8. GoodHint(config, mf, h) /\ UniformWorkers(config)
  BY <1>1 DEF PacketInv, HardwareConfig
<1>9. ASSUME NEW j \in Members(insns, i), is_lane0_only(insns[j]) PROVE j = i + 1
  <2> SUFFICES ASSUME j # i + 1 PROVE FALSE
    OBVIOUS
  <2> DEFINE l == j - i
  <2>1. l \in 2..h.len /\ l \in 2..config.numLanes /\ l \in Nat
    <3>1. j \in Int /\ l \in 1..h.len
      BY <1>6
    <3>2. l >= 2 /\ l \in Nat
      BY <1>5, <3>1
    <3> HIDE DEF l
    <3> QED BY <1>1, <1>5, <3>1, <3>2
  <2>2. isLaneLegal(config, (h.at + l - 1) - h.at, classifyOpClass(mi(j)))
    BY <1>6, <1>8 DEF GoodHint, WindowLaneLegal
  <2> HIDE DEF mi, l
  <2>3. ((h.at + l - 1) - h.at) + 1 = l
    BY <1>5, <2>1
  <2>4. "Any" \in config.lanes[l] \/ classifyOpClass(mi(j)) \in config.lanes[l]
    BY <2>2, <2>3 DEF isLaneLegal
  <2>5. config.lanes[l] \subseteq WorkerClasses
    BY <2>1 DEF HardwareConfig
  <2>6. "Any" \notin WorkerClasses
    BY DEF WorkerClasses, ALUClasses
  <2> QED BY <1>6, <1>9, <2>4, <2>5, <2>6
<1>10. ASSUME NEW j \in Members(insns, i), NEW k \in Members(insns, i), j < k
      PROVE  ~RAW(insns[j], insns[k]) /\ ~WAW(insns[j], insns[k])
  <2>1. Independent(mi(j), mi(k))
    <3>1. h.at \in Int /\ h.at + (j - i) - 1 < h.at + (k - i) - 1
      <4>1. j \in Int /\ k \in Int
        BY <1>6
      <4> QED BY <1>10, <1>5, <4>1
    <3> QED BY <1>6, <1>8, <3>1 DEF GoodHint, WindowIndependent
  <2> HIDE DEF mi
  <2>2. /\ insns[j].writes \subseteq mi(j).defs
        /\ insns[k].reads \subseteq mi(k).uses /\ insns[k].writes \subseteq mi(k).defs
    BY <1>6
  <2>3. mi(j).defs \cap (mi(k).uses \cup mi(k).defs) = {}
    BY <2>1 DEF Independent
  <2> QED BY <2>2, <2>3 DEF RAW, WAW
<1> QED BY <1>3, <1>6, <1>7, <1>9, <1>10 DEF SafeBundle

\* Every bundle of a printed binary is safe.
LEMMA PrintedIsSafe == ToolInv => CompiledIsSafe
<1> SUFFICES ASSUME ToolInv, Printed, HardwareConfig, NEW i \in 1..Len(insns), Live(insns, i)
             PROVE  /\ SafeBundle(insns, i)
                    /\ \A j \in Members(insns, i) : insns[j].cls \notin Control
  BY DEF CompiledIsSafe, ContractSafe
<1>1. i \in Hints
  BY DEF Live, Hints, MAX_BUNDLE
<1> QED BY <1>1, PrintedSafe

(***************************************************************************)
(* CompiledIsSafe: what is compiled for a machine of up to four lanes,     *)
(* whose workers are alike, keeps the contract of the hardware.            *)
(***************************************************************************)
THEOREM CompiledKeepsContract == ToolSpec => []CompiledIsSafe
BY PrintedIsSafe, ToolInvariance, PTL

(***************************************************************************)
(* CompiledIsAccepted: the checker passes every binary compiled for such a *)
(* machine.                                                                *)
(***************************************************************************)
THEOREM CompiledPasses == ToolSpec => []CompiledIsAccepted
<1>1. ToolInv => CompiledIsAccepted
  <2> SUFFICES ASSUME ToolInv, exit # -1, HardwareConfig PROVE exit = 0
    BY DEF CompiledIsAccepted
  <2>1. Printed
    BY DEF ToolInv
  <2>2. WidthsFit
    BY DEF HardwareConfig, WidthsFit, MAX_BUNDLE, MAX_HINT, ToolInv, PacketInv, TypeOK, ConfigType
  <2>3. CheckInv /\ NoNestedHints
    BY <2>1, <2>2, PrintedNotNested DEF ToolInv
  <2>4. \A i \in Hints : Live(insns, i) /\ SafeBundle(insns, i)
    BY <2>1, PrintedSafe
  <2> QED BY <2>3, <2>4, ExactVerdict DEF VerdictExact
<1> QED BY <1>1, ToolInvariance, PTL

(***************************************************************************)
(* CheckerSeesPlan: the bundles of the report are the packets of the       *)
(* packetizer, all of them and no others, each with all its members.       *)
(***************************************************************************)
THEOREM PlanIsSeen == ToolSpec => []CheckerSeesPlan
<1>1. ToolInv => CheckerSeesPlan
  <2> SUFFICES ASSUME ToolInv, exit # -1, WidthsFit PROVE CheckerSeesPlan
    BY DEF CheckerSeesPlan
  <2>1. Printed /\ LaidOut /\ CheckInv /\ NoNestedHints /\ PacketInv /\ Encodable
    BY PrintedNotNested DEF ToolInv
  <2>2. insns \in Seq(Insn) /\ Len(insns) \in Nat /\ idx \in Nat /\ idx > Len(insns)
    BY <2>1 DEF CheckInv, CheckerTypeOK
  <2> DEFINE T(i) == <<bundles[i].hint, bundles[i].declared_len, Cardinality(bundles[i].members)>>
             P(p) == <<p.index, p.hint.len, p.hint.len>>
  <2>3. ASSUME NEW i \in Hints, NEW b, b = check_bundle(i, Taken(i))
        PROVE  \E p \in placed :
                 p.index = i /\ <<b.hint, b.declared_len, Cardinality(b.members)>> = P(p)
    <3>1. PICK p \in placed :
             /\ p.index = i /\ DeclaredLen(insns[i]) = p.hint.len
             /\ Members(insns, i) = (i + 1)..(i + p.hint.len)
             /\ Members(insns, i) \subseteq 1..Len(insns)
             /\ i \in Nat /\ p.hint.len \in Nat \ {0}
      BY <2>1, PrintedBundle
    <3>2. Taken(i) = (i + 1)..(i + p.hint.len)
      BY <2>2, <3>1, TakenMembers
    <3>3. Cardinality(Taken(i)) = p.hint.len
      <4>1. i + 1 \in Int /\ i + p.hint.len \in Int
        BY <3>1
      <4>2. Cardinality((i + 1)..(i + p.hint.len))
              = IF i + 1 > i + p.hint.len THEN 0 ELSE (i + p.hint.len) - (i + 1) + 1
        BY <4>1, FS_Interval
      <4>3. (IF i + 1 > i + p.hint.len THEN 0 ELSE (i + p.hint.len) - (i + 1) + 1) = p.hint.len
        BY <3>1
      <4> QED BY <3>2, <4>2, <4>3
    <3>4. b.hint = i /\ b.declared_len = p.hint.len /\ b.members = Taken(i)
      BY <2>3, <3>1 DEF check_bundle
    <3> QED BY <3>1, <3>3, <3>4
  <2>4. ASSUME NEW i \in 1..Len(bundles) PROVE \E p \in placed : T(i) = P(p)
    <3>1. PICK h \in Hints : bundles[i] = check_bundle(h, Taken(h))
      BY <2>1 DEF CheckInv
    <3> QED BY <2>3, <3>1
  <2>5. ASSUME NEW p \in placed PROVE \E i \in 1..Len(bundles) : T(i) = P(p)
    <3>1. /\ p.index \in 1..Len(insns) /\ DeclaredLen(insns[p.index]) = p.hint.len
          /\ p.hint \in hints
      BY <2>1 DEF LaidOut, HintPrinted
    <3>2. p.index \in Hints /\ p.index < idx
      <4>1. p.hint.len \in Nat \ {0}
        BY <2>1, <3>1, HintWindow
      <4> QED BY <2>2, <3>1, <4>1 DEF Hints
    <3>3. PICK i \in 1..Len(bundles) : bundles[i] = check_bundle(p.index, Taken(p.index))
      BY <2>1, <3>2, EveryHintHasBundle
    <3>4. PICK q \in placed : q.index = p.index /\ T(i) = P(q)
      BY <2>3, <3>2, <3>3
    <3>5. q.hint.len = p.hint.len
      BY <2>1, <3>1, <3>4 DEF LaidOut, HintPrinted
    <3> QED BY <3>4, <3>5
  <2>6. {p.hint : p \in placed} = hints
    <3>1. ASSUME NEW h \in hints PROVE \E p \in placed : p.hint = h
      <4>1. h.bb \in 1..Len(mf)
        BY <2>1, HintWindow
      <4>2. Past(h.bb, h.at)
        BY <2>1, <4>1, FunctionType DEF Past, Printed, ToolInv, AtPlace
      <4> QED BY <2>1, <4>2 DEF LaidOut
    <3>2. \A p \in placed : p.hint \in hints
      BY <2>1 DEF LaidOut, HintPrinted
    <3> QED BY <3>1, <3>2
  <2>7. {T(i) : i \in 1..Len(bundles)} = {P(p) : p \in placed}
    <3> HIDE DEF T, P
    <3> QED BY <2>4, <2>5
  <2> QED BY <2>6, <2>7 DEF CheckerSeesPlan
<1> QED BY <1>1, ToolInvariance, PTL

-----------------------------------------------------------------------------
\* No step of the tool chain or of the core changes the configuration.
LEMMA ConfigStays ==
    ASSUME CompiledNext \/ UNCHANGED <<toolVars, coreVars>>
    PROVE  config' = config /\ HardwareConfig' = HardwareConfig
<1>1. UNCHANGED toolVars => config' = config
  BY DEF toolVars, vars
<1>2. ToolNext => config' = config
  <2>1. Pack => config' = config
    BY DEF Pack, Next, SkipFunction, Barrier, Join, FlushAndJoin, PutInto, Unplaceable, EndBlock, Returned, vars
  <2>2. PrintHint \/ PrintInstr \/ NextBlock \/ Check => config' = config
    BY DEF PrintHint, PrintInstr, NextBlock, Check, vars
  <2> QED BY <2>1, <2>2 DEF ToolNext
<1>3. config' = config
  BY <1>1, <1>2 DEF CompiledNext, Compile, Load, Execute
<1> QED BY <1>3 DEF HardwareConfig, UniformWorkers

\* The empty program keeps the contract.
LEMMA CompiledStarts == CompiledInit => CompiledInv
<1> SUFFICES ASSUME CompiledInit PROVE CompiledInv
  OBVIOUS
<1>1. ContractSafe(prog)
  BY DEF CompiledInit, ContractSafe
<1> QED BY <1>1, ToolInitInv, InitCore DEF CompiledInit, CompiledInv

\* Every step on the way from function to execution keeps the invariant.
LEMMA CompiledStep == CompiledInv /\ [CompiledNext]_<<toolVars, coreVars>> => CompiledInv'
<1> SUFFICES ASSUME CompiledInv, [CompiledNext]_<<toolVars, coreVars>> PROVE CompiledInv'
  OBVIOUS
<1>1. HardwareConfig' = HardwareConfig
  BY ConfigStays
<1>2. ToolInv'
  <2>1. [ToolNext]_toolVars
    BY DEF CompiledNext, Compile, Load, Execute
  <2> QED BY <2>1, ToolStep DEF CompiledInv
<1>3. ASSUME HardwareConfig PROVE ContractSafe(prog)' /\ CoreInv'
  <2>1. CASE Load
    <3>1. ContractSafe(insns)
      BY <1>3, <2>1, PrintedIsSafe DEF CompiledInv, CompiledIsSafe, Load
    <3>2. ContractSafe(prog)'
      BY <2>1, <3>1 DEF Load
    <3>3. CoreInit'
      BY <2>1 DEF Load, CoreInit
    <3> QED BY <3>2, <3>3, InitCore, PTL
  <2>2. CASE Execute \/ UNCHANGED coreVars
    <3>1. [CoreNext]_coreVars /\ prog' = prog
      BY <2>2 DEF Execute, CoreNext, coreVars, ScalarStep, IssueBundle, CatchUp
    <3> QED BY <1>3, <3>1, CoreStep DEF CompiledInv
  <2> QED BY <2>1, <2>2 DEF CompiledNext, Compile
<1> QED BY <1>1, <1>2, <1>3 DEF CompiledInv

(***************************************************************************)
(* From function to execution the tool chain's invariant holds and what    *)
(* the core has been given keeps the contract.                             *)
(***************************************************************************)
THEOREM CompiledInvariance == CompiledSpec => []CompiledInv
BY CompiledStarts, CompiledStep, PTL DEF CompiledSpec

(***************************************************************************)
(* What the packetizer makes of a function runs on the STARBUG core as on  *)
(* a stock core.                                                           *)
(***************************************************************************)
THEOREM CompiledIsScalar == CompiledSpec => []CompiledRunsAsScalar
<1>1. CompiledInv => CompiledRunsAsScalar
  BY DEF CompiledInv, CoreInv, CompiledRunsAsScalar
<1> QED BY <1>1, CompiledInvariance, PTL
=============================================================================
