------------------------- MODULE ConfigLoaderProofs -------------------------
(***************************************************************************)
(* The lane table fromCommandLine leaves behind, for every command line.   *)
(***************************************************************************)
EXTENDS ConfigLoader, WellFoundedInduction, TLAPS

\* A spec that is not for lane l does not change what the specs say of l.
LEMMA MeaningKept ==
    ASSUME NEW specs, NEW l, NEW n \in Nat \ {0},
           ~(specs[n].kind = "lane" /\ specs[n].lane = l)
    PROVE  /\ SpecsOf(specs, l, n) = SpecsOf(specs, l, n - 1)
           /\ Meaning(specs, l, n) = Meaning(specs, l, n - 1)
  <1>1. SpecsOf(specs, l, n) = SpecsOf(specs, l, n - 1)
    BY DEF SpecsOf
  <1> QED
    BY <1>1 DEF Meaning, LastOf

\* The last spec for lane l decides alone.
LEMMA MeaningReplaced ==
    ASSUME NEW specs, NEW l, NEW n \in Nat \ {0},
           specs[n].kind = "lane", specs[n].lane = l
    PROVE  /\ n \in SpecsOf(specs, l, n)
           /\ Meaning(specs, l, n) = AllTokens(specs[n])
  <1>1. n \in SpecsOf(specs, l, n) /\ \A k \in SpecsOf(specs, l, n) : k \in 1..n
    BY DEF SpecsOf
  <1>2. LastOf(specs, l, n) \in SpecsOf(specs, l, n) /\ n =< LastOf(specs, l, n)
    BY <1>1 DEF LastOf
  <1>3. LastOf(specs, l, n) = n
    BY <1>1, <1>2
  <1> QED
    BY <1>1, <1>3 DEF Meaning

\* Reading one more spec loses no mention of a lane.
LEMMA MentionsKept ==
    ASSUME NEW specs, NEW l, NEW n \in Nat \ {0}
    PROVE  SpecsOf(specs, l, n - 1) \subseteq SpecsOf(specs, l, n)
  BY DEF SpecsOf

\* A valid token list sets the classes of all its tokens.
LEMMA ValidList ==
    ASSUME NEW s \in LaneSpec, ListValid(s)
    PROVE  parseLaneClassList(s) = AllTokens(s)
  <1>1. Len(s.tokens) \in Nat
    BY DEF LaneSpec
  <1>2. GoodTokens(s) = 1..Len(s.tokens)
    BY <1>1 DEF GoodTokens, ListValid
  <1> QED
    BY <1>2 DEF parseLaneClassList, AllTokens

\* An invalid list sets the classes in front of its first bad token.
LEMMA InvalidList ==
    ASSUME NEW s \in LaneSpec, ~ListValid(s)
    PROVE  CutShort(s, parseLaneClassList(s))
  <1> DEFINE len == Len(s.tokens)
             Bad == {t \in 1..len : s.tokens[t] = BadToken}
  <1>1. len \in Nat
    BY DEF LaneSpec
  <1>2. Bad # {} /\ Bad \subseteq Nat
    BY <1>1 DEF ListValid
  <1>3. PICK b \in Bad : \A t \in Bad : ~(t < b)
    <2>1. PICK b \in Bad : \A t \in Bad : ~(<<t, b>> \in OpToRel(<, Nat))
      BY <1>2, NatLessThanWellFounded, WFMin
    <2> QED
      BY <1>2, <2>1 DEF OpToRel
  <1>4. \A t \in 1..len : t < b => s.tokens[t] # BadToken
    BY <1>3
  <1>5. b \in 1..len /\ s.tokens[b] = BadToken
    BY <1>3
  <1> HIDE DEF len, Bad
  <1>6. b - 1 \in 0..(len - 1) /\ (b - 1) + 1 = b
    BY <1>1, <1>5
  <1>7. \A t \in 1..(b - 1) : s.tokens[t] # BadToken
    BY <1>1, <1>4, <1>5
  <1>8. GoodTokens(s) = 1..(b - 1)
    <2>1. ASSUME NEW t \in 1..len PROVE (\A u \in 1..t : s.tokens[u] # BadToken) <=> t < b
      <3>1. CASE t < b
        BY <1>1, <1>4, <1>5, <3>1
      <3>2. CASE b =< t
        BY <1>1, <1>5, <3>2
      <3> QED
        BY <1>1, <1>5, <3>1, <3>2
    <2>2. GoodTokens(s) = {t \in 1..len : t < b}
      BY <2>1 DEF GoodTokens, len
    <2> QED
      BY <1>1, <1>5, <2>2
  <1> QED
    BY <1>5, <1>6, <1>7, <1>8 DEF CutShort, parseLaneClassList, len

\* Whatever the list, only known classes are set.
LEMMA ListClasses ==
    ASSUME NEW s \in LaneSpec
    PROVE  parseLaneClassList(s) \in SUBSET OpClass
  <1>1. s.tokens \in Seq(Token) /\ Len(s.tokens) \in Nat
    BY DEF LaneSpec
  <1>2. \A t \in GoodTokens(s) : s.tokens[t] \in Token /\ s.tokens[t] # BadToken
    BY <1>1 DEF GoodTokens
  <1>3. \A t \in GoodTokens(s) : s.tokens[t] \in SUBSET OpClass
    BY <1>2 DEF Token
  <1> QED
    BY <1>3, Zenon DEF parseLaneClassList

\* The standard table: lane 0 takes everything, the others ALU operations.
LEMMA StandardTable ==
    ASSUME NEW n \in Nat
    PROVE  /\ StandardLanes(n) \in Seq(SUBSET OpClass)
           /\ Len(StandardLanes(n)) = n
           /\ \A l \in 0..(n - 1) : StandardLanes(n)[l + 1] = NewLane(l)
  <1>1. makeLane0 \in SUBSET OpClass /\ makeALULane \in SUBSET OpClass
    BY DEF makeLane0, makeALULane, ALUClasses, OpClass
  <1>2. StandardLanes(n) \in [1..n -> SUBSET OpClass]
    BY <1>1 DEF StandardLanes
  <1>3. StandardLanes(n) \in Seq(SUBSET OpClass) /\ Len(StandardLanes(n)) = n
    BY <1>2
  <1>4. ASSUME NEW l \in 0..(n - 1) PROVE StandardLanes(n)[l + 1] = NewLane(l)
    <2>1. l + 1 \in 1..n /\ (l + 1 = 1 <=> l = 0)
      OBVIOUS
    <2>2. StandardLanes(n)[l + 1] = IF l + 1 = 1 THEN makeLane0 ELSE makeALULane
      BY <2>1 DEF StandardLanes
    <2> QED
      BY <2>1, <2>2 DEF NewLane
  <1> QED
    BY <1>3, <1>4

\* The spec being applied.
LEMMA ThisSpecType ==
    ASSUME TypeOK, AtSpec
    PROVE  /\ next \in Nat \ {0} /\ next \in 1..Len(cl.specs)
           /\ Len(cl.specs) \in Nat
           /\ ThisSpec \in LaneSpec /\ ThisSpec = cl.specs[next]
           /\ ThisSpec.lane \in 0..UIntMax
  <1>1. cl.specs \in Seq(LaneSpec)
    BY DEF TypeOK, CommandLine
  <1>2. next \in 1..Len(cl.specs)
    BY <1>1 DEF TypeOK, AtSpec
  <1>3. ThisSpec \in LaneSpec
    BY <1>1, <1>2 DEF ThisSpec
  <1> QED
    BY <1>1, <1>2, <1>3 DEF ThisSpec, LaneSpec

\* The configuration's fields.
LEMMA ConfigFields ==
    ASSUME NEW c \in ConfigType
    PROVE  /\ c.numLanes \in Nat \ {0} /\ c.lanes \in Seq(SUBSET OpClass)
           /\ Len(c.lanes) \in Nat
           /\ \A lanes \in Seq(SUBSET OpClass) : [c EXCEPT !.lanes = lanes] \in ConfigType
           /\ \A n \in Nat \ {0} : [c EXCEPT !.numLanes = n] \in ConfigType
  BY DEF ConfigType

\* The standard table is what no spec at all means.
LEMMA InitLoad == Init => LoadInv
  <1> SUFFICES ASSUME Init PROVE LoadInv
    OBVIOUS
  <1> DEFINE n == Widest(1, cl.lanes)
  <1>1. cl \in CommandLine /\ cl.specs \in Seq(LaneSpec) /\ cl.lanes \in 0..UIntMax
        /\ cl.emitSingle \in BOOLEAN /\ Len(cl.specs) \in Nat
    BY CommandLinesAssumption DEF Init, CommandLine
  <1>2. n \in Nat \ {0} /\ n =< UIntMax
    BY <1>1, UIntMaxAssumption DEF Widest
  <1>3. /\ config.lanes = StandardLanes(n) /\ config.numLanes = n
        /\ config.allowShort = TRUE /\ config.emitSingle = cl.emitSingle
        /\ next = 1 /\ grow = -1 /\ status = "applying"
    BY DEF Init, Standard
  <1>4. config = [numLanes |-> n, lanes |-> StandardLanes(n),
                  allowShort |-> TRUE, emitSingle |-> cl.emitSingle]
    BY DEF Init, Standard
  <1>5. config \in ConfigType
    BY <1>1, <1>2, <1>4, StandardTable DEF ConfigType
  <1>6. TypeOK
    BY <1>1, <1>3, <1>5, UIntMaxAssumption DEF TypeOK
  <1>7. Len(config.lanes) = n
    BY <1>2, <1>3, StandardTable
  <1>8. \A l : SpecsOf(cl.specs, l, 0) = {}
    BY DEF SpecsOf
  <1>9. TableMeans(cl.specs, config.lanes, 0)
    <2>1. \A l \in 0..(n - 1) : StandardLanes(n)[l + 1] = NewLane(l)
      BY <1>2, StandardTable
    <2>2. \A l : Meaning(cl.specs, l, 0) = NewLane(l)
      BY <1>8 DEF Meaning
    <2> HIDE DEF n
    <2>3. \A l \in 0..(n - 1) : config.lanes[l + 1] = Meaning(cl.specs, l, 0)
      BY <1>3, <2>1, <2>2
    <2> QED
      BY <1>2, <1>7, <2>3 DEF TableMeans
  <1>10. EndsAtNamed(cl, config.lanes, 0)
    BY <1>7 DEF EndsAtNamed
  <1>11. next - 1 = 0
    BY <1>3
  <1> QED
    BY <1>2, <1>3, <1>6, <1>7, <1>9, <1>10, <1>11
       DEF LoadInv, LanesCoverWidth, maxBundleWidth, AcceptedMeaning, RejectedIsContained, Growing

\* A blank spec and the end of the list say nothing new.
LEMMA SkipBlankInv == LoadInv /\ SkipBlank => LoadInv'
  <1> SUFFICES ASSUME LoadInv, SkipBlank PROVE LoadInv'
    OBVIOUS
  <1>1. /\ AtSpec /\ ThisSpec.kind = "blank" /\ next' = next + 1
        /\ cl' = cl /\ config' = config /\ grow' = grow /\ status' = status
        /\ status = "applying"
    BY DEF SkipBlank, AtSpec
  <1>2. TypeOK
    BY DEF LoadInv
  <1>3. next \in Nat \ {0} /\ next \in 1..Len(cl.specs) /\ Len(cl.specs) \in Nat
        /\ cl.specs[next].kind = "blank"
    BY <1>1, <1>2, ThisSpecType
  <1>4. TypeOK'
    BY <1>1, <1>2, <1>3 DEF TypeOK
  <1>5. ~Growing
    BY <1>1 DEF LoadInv
  <1>6. TableMeans(cl.specs, config.lanes, next - 1) /\ EndsAtNamed(cl, config.lanes, next - 1)
    BY <1>1, <1>5 DEF LoadInv
  <1>7. \A l : /\ SpecsOf(cl.specs, l, next) = SpecsOf(cl.specs, l, next - 1)
              /\ Meaning(cl.specs, l, next) = Meaning(cl.specs, l, next - 1)
    BY <1>3, MeaningKept
  <1>8. TableMeans(cl.specs, config.lanes, next)
    BY <1>3, <1>6, <1>7 DEF TableMeans
  <1>9. EndsAtNamed(cl, config.lanes, next)
    BY <1>6, <1>7 DEF EndsAtNamed
  <1>10. next' - 1 = next
    BY <1>1, <1>3
  <1> QED
    BY <1>1, <1>4, <1>5, <1>8, <1>9, <1>10
       DEF LoadInv, LanesCoverWidth, AcceptedMeaning, RejectedIsContained, Growing

\* An invalid spec only ends the scan.
LEMMA MalformedInv == LoadInv /\ Malformed => LoadInv'
  <1> SUFFICES ASSUME LoadInv, Malformed PROVE LoadInv'
    OBVIOUS
  <1>1. /\ AtSpec /\ status = "applying" /\ ThisSpec.kind = "malformed" /\ status' = "rejected"
        /\ cl' = cl /\ config' = config /\ next' = next /\ grow' = grow /\ ThisSpec' = ThisSpec
    BY DEF Malformed, AtSpec, ThisSpec
  <1>2. ~Growing
    BY <1>1 DEF LoadInv
  <1>3. config.numLanes = Widest(1, cl.lanes) /\ TableMeans(cl.specs, config.lanes, next - 1)
    BY <1>1, <1>2 DEF LoadInv
  <1>4. RejectedIsContained'
    BY <1>1, <1>3 DEF RejectedIsContained, TableMeans
  <1> QED
    BY <1>1, <1>2, <1>4 DEF LoadInv, TypeOK, LanesCoverWidth, AcceptedMeaning, Growing

\* Entering ensureLaneExists changes its counter only.
LEMMA EnterLaneInv == LoadInv /\ EnterLane => LoadInv'
  <1> SUFFICES ASSUME LoadInv, EnterLane PROVE LoadInv'
    OBVIOUS
  <1>1. /\ AtSpec /\ status = "applying" /\ ThisSpec.kind = "lane" /\ grow' = Len(config.lanes)
        /\ cl' = cl /\ config' = config /\ next' = next /\ status' = status
        /\ ~Growing
    BY DEF EnterLane, AtSpec, Growing
  <1>2. AtSpec' /\ ThisSpec' = ThisSpec
    BY <1>1 DEF AtSpec, ThisSpec
  <1>3. Len(config.lanes) \in 0..UIntMax
    BY <1>1, ConfigFields DEF LoadInv, TypeOK
  <1>4. TypeOK'
    BY <1>1, <1>3 DEF LoadInv, TypeOK
  <1>5. TableMeans(cl.specs, config.lanes, next - 1) /\ EndsAtNamed(cl, config.lanes, next - 1)
    BY <1>1 DEF LoadInv
  <1> QED
    BY <1>1, <1>2, <1>3, <1>4, <1>5 DEF LoadInv, LanesCoverWidth, AcceptedMeaning, RejectedIsContained, Growing

\* One lane more: nobody has named it, so it means the standard lane.
LEMMA GrowTableInv == LoadInv /\ GrowTable => LoadInv'
  <1> SUFFICES ASSUME LoadInv, GrowTable PROVE LoadInv'
    OBVIOUS
  <1> DEFINE table == Append(config.lanes, NewLane(grow))
  <1>1. /\ AtSpec /\ status = "applying" /\ Growing /\ grow =< ThisSpec.lane
        /\ config' = [config EXCEPT !.lanes = table]
        /\ grow' = (grow + 1) % (UIntMax + 1)
        /\ cl' = cl /\ next' = next /\ status' = status
        /\ ThisSpec.kind = "lane"
    BY DEF GrowTable, AtSpec, Growing, LoadInv
  <1>2. TypeOK
    BY DEF LoadInv
  <1>3. /\ config.lanes \in Seq(SUBSET OpClass) /\ Len(config.lanes) \in Nat
        /\ NewLane(grow) \in SUBSET OpClass
    BY <1>2, ConfigFields DEF TypeOK, NewLane, makeLane0, makeALULane, ALUClasses, OpClass
  <1>4. /\ table \in Seq(SUBSET OpClass) /\ Len(table) = Len(config.lanes) + 1
        /\ table[Len(config.lanes) + 1] = NewLane(grow)
        /\ \A l \in 1..Len(config.lanes) : table[l] = config.lanes[l]
    BY <1>3
  <1> HIDE DEF table
  <1>5. config' \in ConfigType /\ config'.lanes = table /\ config'.numLanes = config.numLanes
    BY <1>1, <1>2, <1>4, ConfigFields DEF TypeOK, ConfigType
  <1>6. UIntMax \in Nat \ {0} /\ grow \in 0..UIntMax
    BY <1>1, <1>2, UIntMaxAssumption DEF TypeOK, Growing
  <1>7. grow' \in 0..UIntMax
    BY <1>1, <1>6
  <1>8. TypeOK'
    BY <1>1, <1>2, <1>5, <1>7 DEF TypeOK
  <1>9. ThisSpec' = ThisSpec /\ AtSpec' /\ Growing'
    BY <1>1, <1>6, <1>7 DEF ThisSpec, AtSpec, Growing
  <1>10. LanesCoverWidth'
    BY <1>3, <1>4, <1>5, <1>2, ConfigFields DEF LoadInv, LanesCoverWidth, maxBundleWidth, TypeOK
  <1>11. ASSUME ThisSpec.lane < UIntMax
         PROVE  /\ grow' = Len(table)
                /\ TableMeans(cl.specs, table, next - 1)
                /\ Len(table) =< ThisSpec.lane + 1
    <2>1. /\ grow = Len(config.lanes)
          /\ TableMeans(cl.specs, config.lanes, next - 1)
      BY <1>1, <1>11 DEF LoadInv
    <2>2. ThisSpec.lane \in 0..UIntMax /\ next \in Nat \ {0}
      BY <1>1, <1>2, ThisSpecType
    <2>3. grow' = grow + 1
      BY <1>1, <1>6, <1>11, <2>2
    <2>4. SpecsOf(cl.specs, grow, next - 1) = {}
      BY <1>3, <2>1, <2>2 DEF TableMeans, SpecsOf
    <2>5. \A l \in 0..(Len(table) - 1) : table[l + 1] = Meaning(cl.specs, l, next - 1)
      <3>1. SUFFICES ASSUME NEW l \in 0..(Len(table) - 1)
                     PROVE  table[l + 1] = Meaning(cl.specs, l, next - 1)
        OBVIOUS
      <3>2. CASE l = grow
        BY <1>4, <2>1, <2>4, <3>2 DEF Meaning
      <3>3. CASE l # grow
        <4>1. l \in 0..(Len(config.lanes) - 1) /\ l + 1 \in 1..Len(config.lanes)
          BY <1>3, <1>4, <2>1, <3>3
        <4> QED
          BY <1>4, <2>1, <4>1 DEF TableMeans
      <3> QED
        BY <3>2, <3>3
    <2>6. \A k \in 1..(next - 1) : cl.specs[k].kind = "lane" => cl.specs[k].lane < Len(table)
      <3>1. SUFFICES ASSUME NEW k \in 1..(next - 1), cl.specs[k].kind = "lane"
                     PROVE  cl.specs[k].lane < Len(table)
        OBVIOUS
      <3>2. cl.specs[k].lane < Len(config.lanes)
        BY <2>1, <3>1 DEF TableMeans
      <3>3. cl.specs \in Seq(LaneSpec) /\ k \in 1..Len(cl.specs)
        BY <1>1, <1>2, <2>2, ThisSpecType DEF TypeOK, CommandLine
      <3>4. cl.specs[k] \in LaneSpec
        BY <3>3
      <3>5. cl.specs[k].lane \in Nat
        BY <3>4 DEF LaneSpec
      <3> QED
        BY <1>3, <1>4, <3>2, <3>5
    <2> QED
      BY <1>1, <1>3, <1>4, <2>1, <2>2, <2>3, <2>5, <2>6 DEF TableMeans
  <1> QED
    BY <1>1, <1>5, <1>8, <1>9, <1>10, <1>11 DEF LoadInv, AcceptedMeaning, RejectedIsContained

\* The lane's classes are replaced; a valid list makes them what the spec says.
LEMMA SetClassesInv == LoadInv /\ SetClasses => LoadInv'
  <1> SUFFICES ASSUME LoadInv, SetClasses PROVE LoadInv'
    OBVIOUS
  <1> DEFINE lane == ThisSpec.lane
             table == [config.lanes EXCEPT ![lane + 1] = parseLaneClassList(ThisSpec)]
  <1>1. /\ AtSpec /\ status = "applying" /\ grow > lane /\ grow' = -1
        /\ config' = [config EXCEPT !.lanes = table]
        /\ cl' = cl
    BY DEF SetClasses, AtSpec
  <1>2. TypeOK
    BY DEF LoadInv
  <1>3. /\ next \in Nat \ {0} /\ next \in 1..Len(cl.specs) /\ Len(cl.specs) \in Nat
        /\ ThisSpec \in LaneSpec /\ ThisSpec = cl.specs[next] /\ lane \in 0..UIntMax
    BY <1>1, <1>2, ThisSpecType
  <1>4. grow \in 0..UIntMax /\ Growing /\ lane < UIntMax /\ UIntMax \in Nat
    BY <1>1, <1>2, <1>3, UIntMaxAssumption DEF TypeOK, Growing
  <1>5. /\ ThisSpec.kind = "lane" /\ grow = Len(config.lanes)
        /\ TableMeans(cl.specs, config.lanes, next - 1)
        /\ EndsAtNamed(cl, config.lanes, next - 1) \/ Len(config.lanes) =< lane + 1
    BY <1>4 DEF LoadInv
  <1>6. config.lanes \in Seq(SUBSET OpClass) /\ lane + 1 \in 1..Len(config.lanes)
    <2>1. config.lanes \in Seq(SUBSET OpClass) /\ Len(config.lanes) \in Nat
      BY <1>2, ConfigFields DEF TypeOK
    <2>2. Len(config.lanes) > lane /\ lane \in Nat
      BY <1>1, <1>3, <1>5
    <2> HIDE DEF lane
    <2> QED
      BY <2>1, <2>2
  <1>7. /\ table \in Seq(SUBSET OpClass) /\ Len(table) = Len(config.lanes)
        /\ table[lane + 1] = parseLaneClassList(ThisSpec)
        /\ \A l \in 1..Len(table) : l # lane + 1 => table[l] = config.lanes[l]
    BY <1>3, <1>6, ListClasses
  <1> HIDE DEF lane, table
  <1>8. config' \in ConfigType /\ config'.lanes = table /\ config'.numLanes = config.numLanes
    BY <1>1, <1>2, <1>7, ConfigFields DEF TypeOK, ConfigType
  <1>9. LanesCoverWidth' /\ config'.numLanes = Widest(1, cl.lanes)
    BY <1>1, <1>7, <1>8 DEF LoadInv, LanesCoverWidth, maxBundleWidth
  <1>10. ~Growing'
    BY <1>1 DEF Growing
  <1>11. CASE ~ListValid(ThisSpec)
    <2>1. next' = next /\ status' = "rejected"
      BY <1>11 DEF SetClasses
    <2>2. TypeOK'
      BY <1>1, <1>2, <1>8, <2>1, <1>4 DEF TypeOK
    <2>3. ThisSpec' = ThisSpec
      BY <1>1, <2>1 DEF ThisSpec
    <2>4. CutShort(ThisSpec, table[lane + 1])
      BY <1>3, <1>7, <1>11, InvalidList
    <2>5. ASSUME NEW l \in 0..(Len(table) - 1), l # lane
          PROVE  table[l + 1] = Meaning(cl.specs, l, next - 1)
      <3>1. l + 1 \in 1..Len(table) /\ l + 1 # lane + 1
        BY <1>3, <1>6, <1>7, <2>5 DEF lane
      <3> QED
        BY <1>5, <1>7, <3>1 DEF TableMeans
    <2>6. RejectedIsContained'
      BY <1>1, <1>5, <1>8, <1>9, <2>1, <2>3, <2>4, <2>5 DEF RejectedIsContained, lane
    <2> QED
      BY <1>1, <1>9, <1>10, <2>1, <2>2, <2>6 DEF LoadInv, AcceptedMeaning
  <1>12. CASE ListValid(ThisSpec)
    <2>1. next' = next + 1 /\ status' = "applying"
      BY <1>1, <1>12 DEF SetClasses
    <2>2. TypeOK'
      BY <1>1, <1>2, <1>3, <1>4, <1>8, <2>1 DEF TypeOK
    <2>3. next' - 1 = next
      BY <1>3, <2>1
    <2>4. cl.specs[next].kind = "lane" /\ cl.specs[next].lane = lane
      BY <1>3, <1>5 DEF lane
    <2>5. Meaning(cl.specs, lane, next) = parseLaneClassList(ThisSpec)
      BY <1>3, <1>12, <2>4, MeaningReplaced, ValidList
    <2>6. \A l \in 0..(Len(table) - 1) : table[l + 1] = Meaning(cl.specs, l, next)
      <3>1. SUFFICES ASSUME NEW l \in 0..(Len(table) - 1)
                     PROVE  table[l + 1] = Meaning(cl.specs, l, next)
        OBVIOUS
      <3>2. CASE l = lane
        BY <1>7, <2>5, <3>2
      <3>3. CASE l # lane
        <4>1. l + 1 \in 1..Len(table) /\ l + 1 # lane + 1
          BY <1>3, <1>6, <1>7, <3>3 DEF lane
        <4>2. table[l + 1] = config.lanes[l + 1]
          BY <1>7, <4>1
        <4>3. config.lanes[l + 1] = Meaning(cl.specs, l, next - 1)
          BY <1>5, <1>7 DEF TableMeans
        <4>4. Meaning(cl.specs, l, next) = Meaning(cl.specs, l, next - 1)
          BY <1>3, <2>4, <3>3, MeaningKept
        <4> QED
          BY <4>2, <4>3, <4>4
      <3> QED
        BY <3>2, <3>3
    <2>7. \A k \in 1..next : cl.specs[k].kind = "lane" => cl.specs[k].lane < Len(table)
      <3>1. SUFFICES ASSUME NEW k \in 1..next, cl.specs[k].kind = "lane"
                     PROVE  cl.specs[k].lane < Len(table)
        OBVIOUS
      <3>2. CASE k = next
        BY <1>1, <1>3, <1>5, <1>7, <2>4, <3>2
      <3>3. CASE k # next
        <4>1. k \in 1..(next - 1)
          BY <1>3, <3>3
        <4> QED
          BY <1>5, <1>7, <3>1, <4>1 DEF TableMeans
      <3> QED
        BY <3>2, <3>3
    <2>8. EndsAtNamed(cl, table, next)
      <3>1. CASE EndsAtNamed(cl, config.lanes, next - 1)
        BY <1>3, <1>7, <3>1, MentionsKept DEF EndsAtNamed
      <3>2. CASE Len(config.lanes) =< lane + 1
        <4>1. Len(table) - 1 = lane
          <5>1. lane \in Nat /\ Len(config.lanes) \in Nat
            BY <1>3, <1>6 DEF lane
          <5> QED
            BY <1>6, <1>7, <3>2, <5>1
        <4>2. next \in SpecsOf(cl.specs, lane, next)
          BY <1>3, <2>4, MeaningReplaced
        <4> QED
          BY <4>1, <4>2 DEF EndsAtNamed
      <3> QED
        BY <1>5, <3>1, <3>2
    <2>9. Len(table) =< UIntMax
      BY <1>4, <1>5, <1>7
    <2> QED
      BY <1>1, <1>8, <1>9, <1>10, <2>1, <2>2, <2>3, <2>6, <2>7, <2>8, <2>9
         DEF LoadInv, AcceptedMeaning, RejectedIsContained, TableMeans
  <1> QED
    BY <1>11, <1>12

\* The end of the list: the width becomes that of the table.
LEMMA AcceptInv == LoadInv /\ Accept => LoadInv'
  <1> SUFFICES ASSUME LoadInv, Accept PROVE LoadInv'
    OBVIOUS
  <1> DEFINE width == Widest(config.numLanes, Len(config.lanes))
  <1>1. /\ status = "applying" /\ next > Len(cl.specs) /\ status' = "accepted"
        /\ config' = [config EXCEPT !.numLanes = width]
        /\ cl' = cl /\ next' = next /\ grow' = grow
    BY DEF Accept
  <1>2. TypeOK /\ LanesCoverWidth
    BY DEF LoadInv
  <1>3. Len(cl.specs) \in Nat /\ next = Len(cl.specs) + 1
    BY <1>1, <1>2 DEF TypeOK, CommandLine
  <1>4. ~AtSpec /\ ~Growing
    BY <1>1, <1>3 DEF AtSpec, LoadInv
  <1>5. width = Len(config.lanes) /\ width \in Nat \ {0}
    BY <1>2, ConfigFields DEF TypeOK, LanesCoverWidth, maxBundleWidth, Widest
  <1> HIDE DEF width
  <1>6. config' \in ConfigType /\ config'.numLanes = width /\ config'.lanes = config.lanes
    BY <1>1, <1>2, <1>5, ConfigFields DEF TypeOK, ConfigType
  <1>7. TypeOK'
    BY <1>1, <1>2, <1>6 DEF TypeOK
  <1>8. /\ TableMeans(cl.specs, config.lanes, Len(cl.specs))
        /\ EndsAtNamed(cl, config.lanes, Len(cl.specs))
    <2>1. next - 1 = Len(cl.specs)
      BY <1>3
    <2> QED
      BY <1>1, <1>4, <2>1 DEF LoadInv
  <1> QED
    BY <1>1, <1>4, <1>5, <1>6, <1>7, <1>8
       DEF LoadInv, LanesCoverWidth, maxBundleWidth, AcceptedMeaning, RejectedIsContained, Growing

\* The loader's inductive invariant holds.
THEOREM LoadInvariance == Spec => []LoadInv
  <1>1. LoadInv /\ [Next]_vars => LoadInv'
    <2> SUFFICES ASSUME LoadInv, [Next]_vars PROVE LoadInv'
      OBVIOUS
    <2>1. CASE UNCHANGED vars
      BY <2>1 DEF vars, LoadInv, TypeOK, LanesCoverWidth, AcceptedMeaning, RejectedIsContained, Growing, AtSpec, ThisSpec
    <2> QED
      BY <2>1, SkipBlankInv, MalformedInv, EnterLaneInv, GrowTableInv, SetClassesInv, AcceptInv
         DEF Next, Returned
  <1> QED
    BY <1>1, InitLoad, PTL DEF Spec

\* Whatever the command line, the configuration is one the packetizer can be built with.
THEOREM ConfigIsTyped == Spec => []TypeOK
  <1>1. LoadInv => TypeOK
    BY DEF LoadInv
  <1> QED
    BY <1>1, LoadInvariance, PTL

\* The table has an entry for every lane up to the width, also after an error.
THEOREM TableCoversWidth == Spec => []LanesCoverWidth
  <1>1. LoadInv => LanesCoverWidth
    BY DEF LoadInv
  <1> QED
    BY <1>1, LoadInvariance, PTL

\* Applying the lane specs one by one gives what they mean read together.
THEOREM OverridesMeanWhatTheySay == Spec => []AcceptedMeaning
  <1>1. LoadInv => AcceptedMeaning
    BY DEF LoadInv
  <1> QED
    BY <1>1, LoadInvariance, PTL

\* After an error the width is the one asked for, and the bad spec has touched its own lane only.
THEOREM RejectionIsContained == Spec => []RejectedIsContained
  <1>1. LoadInv => RejectedIsContained
    BY DEF LoadInv
  <1> QED
    BY <1>1, LoadInvariance, PTL
=============================================================================
