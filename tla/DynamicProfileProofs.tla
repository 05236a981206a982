------------------------- MODULE DynamicProfileProofs -------------------------
(***************************************************************************)
(* Proofs about the profiler and the straddle counter, for every listing,  *)
(* line size and branch behaviour: the core's figures are sums over        *)
(* Spike's histogram, and the figures the tools derive from it are the     *)
(* core's.                                                                 *)
(***************************************************************************)
EXTENDS DynamicProfile, BundleCheckerProofs

\* A sum may be taken over other indices, one for one.
LEMMA SumReindexed ==
    ASSUME NEW S, IsFiniteSet(S), NEW r, NEW f, NEW g,
           \A x \in S : f[x] = g[r[x]] /\ f[x] \in Nat,
           \A x, y \in S : r[x] = r[y] => x = y
    PROVE  SumFunctionOnSet(f, S) = SumFunctionOnSet(g, {r[x] : x \in S})
<1> DEFINE Image(T) == {r[x] : x \in T}
           G == {T \in SUBSET S : /\ IsFiniteSet(Image(T))
                                  /\ SumFunctionOnSet(f, T) = SumFunctionOnSet(g, Image(T))}
<1>1. {} \in G
  <2>1. Image({}) = {}
    OBVIOUS
  <2> QED BY <2>1, SumOfNothing, FS_EmptySet
<1>2. ASSUME NEW T \in SUBSET S, NEW a \in S \ T, T \in G PROVE T \cup {a} \in G
  <2> DEFINE U == T \cup {a}
             R == Image(T)
  <2>1. IsFiniteSet(T) /\ a \notin T /\ \A x \in T \cup {a} : f[x] \in Nat
    BY FS_Subset
  <2>2. SumFunctionOnSet(f, U) = f[a] + SumFunctionOnSet(f, T)
    BY <2>1, SumWith
  <2>3. Image(U) = R \cup {r[a]} /\ r[a] \notin R
    OBVIOUS
  <2>4. IsFiniteSet(R) /\ SumFunctionOnSet(f, T) = SumFunctionOnSet(g, R)
    BY <1>2
  <2>5. \A y \in R \cup {r[a]} : g[y] \in Nat
    OBVIOUS
  <2>6. U \in SUBSET S /\ f[a] = g[r[a]]
    OBVIOUS
  <2> HIDE DEF R, Image
  <2>7. SumFunctionOnSet(g, R \cup {r[a]}) = g[r[a]] + SumFunctionOnSet(g, R)
    BY <2>3, <2>4, <2>5, SumWith
  <2>8. IsFiniteSet(R \cup {r[a]})
    BY <2>4, FS_AddElement
  <2> HIDE DEF U
  <2>9. U \in G
    BY <2>2, <2>3, <2>4, <2>6, <2>7, <2>8
  <2> QED BY <2>9 DEF U
<1>3. S \in G
  <2> HIDE DEF G
  <2> QED BY <1>1, <1>2, SubsetsInduced
<1> QED BY <1>3
\* A sum of zeros.
LEMMA SumOfZeros ==
    ASSUME NEW S, IsFiniteSet(S), NEW f, \A x \in S : f[x] = 0
    PROVE  SumFunctionOnSet(f, S) = 0
<1> DEFINE G == {T \in SUBSET S : SumFunctionOnSet(f, T) = 0}
<1>1. {} \in G
  BY SumOfNothing
<1>2. ASSUME NEW T \in SUBSET S, NEW a \in S \ T, T \in G PROVE T \cup {a} \in G
  <2>1. IsFiniteSet(T) /\ a \notin T /\ \A x \in T \cup {a} : f[x] \in Nat
    BY FS_Subset
  <2>2. SumFunctionOnSet(f, T \cup {a}) = f[a] + SumFunctionOnSet(f, T)
    BY <2>1, SumWith
  <2>3. f[a] = 0 /\ SumFunctionOnSet(f, T) = 0
    BY <1>2
  <2> QED BY <2>2, <2>3
<1>3. S \in G
  <2> HIDE DEF G
  <2> QED BY <1>1, <1>2, SubsetsInduced
<1> QED BY <1>3
-----------------------------------------------------------------------------
\* The hints the fetch unit honours are hints, with one to four members in the listing.
LEMMA FormingHints ==
    ASSUME insns \in Seq(Insn)
    PROVE  /\ Len(insns) \in Nat /\ Hints \subseteq 1..Len(insns)
           /\ Forming \subseteq Hints /\ Fitting \subseteq Forming
           /\ \A h : h \in Hints => DeclaredLen(insns[h]) \in 1..MAX_HINT
           /\ \A h \in Forming : /\ DeclaredLen(insns[h]) \in 1..4
                                 /\ Members(insns, h) = (h + 1)..(h + DeclaredLen(insns[h]))
                                 /\ Members(insns, h) \subseteq 1..Len(insns)
<1>1. Len(insns) \in Nat /\ Hints \subseteq 1..Len(insns)
  BY DEF Hints
<1>2. \A h \in Forming : /\ DeclaredLen(insns[h]) \in 1..4
                         /\ Members(insns, h) = (h + 1)..(h + DeclaredLen(insns[h]))
                         /\ Members(insns, h) \subseteq 1..Len(insns)
  BY DEF Forming, FormsBundle, Live, Members, MAX_BUNDLE
<1>3. Forming \subseteq Hints
  <2> SUFFICES ASSUME NEW h \in Forming PROVE h \in Hints
    OBVIOUS
  <2>1. h \in 1..Len(insns) /\ DeclaredLen(insns[h]) \in 1..4
    BY <1>2 DEF Forming
  <2>2. DeclaredLen(insns[h]) # 0
    BY <2>1
  <2> QED BY <2>1, <2>2 DEF Hints
<1>4. \A h : h \in Hints => DeclaredLen(insns[h]) \in 1..MAX_HINT
  BY TakenMembers
<1>5. Fitting \subseteq Forming
  BY DEF Fitting
<1> QED BY <1>1, <1>2, <1>3, <1>4, <1>5

\* What the listing alone decides stays as it is while the program runs.
LEMMA SameListing ==
    ASSUME UNCHANGED insns
    PROVE  /\ Hints' = Hints /\ Forming' = Forming /\ Fitting' = Fitting
           /\ {i \in 1..Len(insns) : MemberOfOther(i)}' = {i \in 1..Len(insns) : MemberOfOther(i)}
           /\ \A h : FormsBundle(h)' = FormsBundle(h) /\ Fits(h)' = Fits(h)
           /\ WellFormed' = WellFormed /\ TargetsWithin(insns)' = TargetsWithin(insns)
           /\ Ascending(insns)' = Ascending(insns) /\ Profiled(insns)' = Profiled(insns)
<1>1. \A h : FormsBundle(h)' = FormsBundle(h)
  BY DEF FormsBundle
<1>2. \A h : Fits(h)' = Fits(h)
  BY DEF Fits
<1>3. Hints' = Hints /\ NoNestedHints' = NoNestedHints
  BY DEF Hints, NoNestedHints
<1>4. Forming' = Forming
  BY <1>1 DEF Forming
<1>5. Fitting' = Fitting
  BY <1>2, <1>4 DEF Fitting
<1>6. {i \in 1..Len(insns) : MemberOfOther(i)}' = {i \in 1..Len(insns) : MemberOfOther(i)}
  BY <1>1 DEF MemberOfOther
<1>7. WellFormed' = WellFormed
  BY <1>3 DEF WellFormed
<1> QED BY <1>1, <1>2, <1>3, <1>4, <1>5, <1>6, <1>7

-----------------------------------------------------------------------------
\* Types the steps of the program need.
LEMMA ProfileTypes ==
    ASSUME ProfileInv
    PROVE  /\ insns \in Seq(Insn) /\ Len(insns) \in Nat /\ hist \in [1..Len(insns) -> Nat]
           /\ IsFiniteSet(1..Len(insns)) /\ core \in CoreType
           /\ Fitting \subseteq 1..Len(insns) /\ Forming \subseteq 1..Len(insns)
           /\ {i \in 1..Len(insns) : MemberOfOther(i)} \subseteq 1..Len(insns)
<1>1. insns \in Seq(Insn) /\ hist \in [1..Len(insns) -> Nat] /\ core \in CoreType
  BY DEF ProfileInv, ProfileTypeOK, CheckerTypeOK
<1>2. Len(insns) \in Nat /\ IsFiniteSet(1..Len(insns))
  BY <1>1, UptoFinite
<1>3. Fitting \subseteq 1..Len(insns) /\ Forming \subseteq 1..Len(insns)
  BY DEF Forming, Fitting
<1> QED BY <1>1, <1>2, <1>3

\* Spike's histogram with one more execution of the instruction at pc.
OneMore(h) == /\ h \in [1..Len(insns) -> Nat]
              /\ \A i \in 1..Len(insns) : h[i] = IF i = pc THEN hist[i] + 1 ELSE hist[i]

\* An execution counts in the sums over the sets its index is in.
LEMMA ExecutionCounts ==
    ASSUME ProfileInv, pc \in 1..Len(insns), OneMore(hist'),
           NEW I \in SUBSET 1..Len(insns)
    PROVE  SumFunctionOnSet(hist', I) = Executions(I) + (IF pc \in I THEN 1 ELSE 0)
<1> DEFINE J == I \ {pc}
           h == hist'
<1>1. IsFiniteSet(I) /\ \A x \in I : hist[x] \in Nat
  BY ProfileTypes, FS_Subset
<1>2. SumFunctionOnSet(hist, I) \in Nat
  BY <1>1, SumIsNat
<1>3. /\ IsFiniteSet(J) /\ pc \notin J
      /\ \A x \in J : hist[x] = h[x] /\ hist[x] \in Nat
  BY <1>1, ProfileTypes, FS_Subset DEF OneMore
<1>4. hist[pc] \in Nat /\ h[pc] = hist[pc] + 1
  BY ProfileTypes DEF OneMore
<1>5. (pc \in I => I = J \cup {pc}) /\ (pc \notin I => I = J)
  OBVIOUS
<1> HIDE DEF h, J
<1>6. SumFunctionOnSet(hist, J) = SumFunctionOnSet(h, J)
  BY <1>3, SumAgrees
<1>7. CASE pc \in I
  <2>1. /\ \A x \in J \cup {pc} : hist[x] \in Nat
        /\ \A x \in J \cup {pc} : h[x] \in Nat
    BY <1>3, <1>4
  <2>2. SumFunctionOnSet(hist, J \cup {pc}) = hist[pc] + SumFunctionOnSet(hist, J)
    BY <1>3, <2>1, SumWith
  <2>3. SumFunctionOnSet(h, J \cup {pc}) = h[pc] + SumFunctionOnSet(h, J)
    BY <1>3, <2>1, SumWith
  <2>4. SumFunctionOnSet(hist, J) \in Nat
    BY <1>3, SumIsNat
  <2>5. SumFunctionOnSet(h, J \cup {pc}) = SumFunctionOnSet(hist, J \cup {pc}) + 1
    BY <1>4, <1>6, <2>2, <2>3, <2>4
  <2> QED BY <1>5, <1>7, <2>5 DEF Executions, h
<1>8. CASE pc \notin I
  BY <1>2, <1>5, <1>6, <1>8 DEF Executions, h
<1> QED BY <1>7, <1>8

\* An execution of a hint puts its members behind it.
LEMMA ExecutionPutsBehind ==
    ASSUME ProfileInv, pc \in 1..Len(insns), OneMore(hist'),
           NEW H \in SUBSET Forming
    PROVE  /\ SumFunction([h \in H |-> hist'[h] * DeclaredLen(insns[h])])
                = SlotsBehind(H) + (IF pc \in H THEN DeclaredLen(insns[pc]) ELSE 0)
           /\ SlotsBehind(H) \in Nat
<1> DEFINE f == [h \in H |-> hist[h] * DeclaredLen(insns[h])]
           g == [h \in H |-> hist'[h] * DeclaredLen(insns[h])]
           d == DeclaredLen(insns[pc])
           J == H \ {pc}
<1>1. IsFiniteSet(H) /\ H \subseteq 1..Len(insns) /\ IsFiniteSet(J) /\ pc \notin J
  BY ProfileTypes, FS_Subset
<1>2. \A h \in H : hist[h] \in Nat /\ DeclaredLen(insns[h]) \in Nat
  BY <1>1, ProfileTypes, FormingHints
<1>3. f \in [H -> Nat]
  BY <1>2
<1>4. SlotsBehind(H) = SumFunctionOnSet(f, H)
  BY DEF SlotsBehind, SumFunction
<1>5. SumFunction(g) = SumFunctionOnSet(g, H)
  BY DEF SumFunction
<1>6. \A h \in J : hist'[h] = hist[h]
  BY <1>1 DEF OneMore
<1>7. \A h \in J : f[h] = g[h] /\ f[h] \in Nat
  BY <1>3, <1>6
<1>8. (pc \in H => H = J \cup {pc}) /\ (pc \notin H => H = J)
  OBVIOUS
<1>9. ASSUME pc \in H PROVE d \in Nat /\ f[pc] \in Nat /\ g[pc] = f[pc] + d
  <2>1. d \in Nat /\ hist[pc] \in Nat /\ hist'[pc] = hist[pc] + 1 /\ f[pc] \in Nat
    BY <1>1, <1>2, <1>3, <1>9 DEF OneMore
  <2>2. (hist[pc] + 1) * d = hist[pc] * d + d
    <3> HIDE DEF d
    <3> QED BY <2>1
  <2>3. g[pc] = (hist[pc] + 1) * d /\ f[pc] = hist[pc] * d
    BY <1>9, <2>1
  <2> HIDE DEF f, g, d
  <2> QED BY <2>1, <2>2, <2>3
<1> HIDE DEF f, g, d, J
<1>10. SumFunctionOnSet(f, J) = SumFunctionOnSet(g, J) /\ SumFunctionOnSet(f, J) \in Nat
  BY <1>1, <1>7, SumAgrees, SumIsNat
<1>11. SumFunctionOnSet(f, H) \in Nat
  BY <1>1, <1>3, SumIsNat
<1>12. CASE pc \in H
  <2>1. /\ \A x \in J \cup {pc} : f[x] \in Nat
        /\ \A x \in J \cup {pc} : g[x] \in Nat
    BY <1>7, <1>9, <1>12
  <2>2. SumFunctionOnSet(f, J \cup {pc}) = f[pc] + SumFunctionOnSet(f, J)
    BY <1>1, <2>1, SumWith
  <2>3. SumFunctionOnSet(g, J \cup {pc}) = g[pc] + SumFunctionOnSet(g, J)
    BY <1>1, <2>1, SumWith
  <2>4. SumFunctionOnSet(g, J \cup {pc}) = SumFunctionOnSet(f, J \cup {pc}) + d
    BY <1>9, <1>10, <1>12, <2>2, <2>3
  <2> QED BY <1>4, <1>5, <1>8, <1>11, <1>12, <2>4 DEF d, g
<1>13. CASE pc \notin H
  BY <1>4, <1>5, <1>8, <1>10, <1>11, <1>13 DEF g
<1> QED BY <1>12, <1>13

\* Which counters of the core the instruction at pc advances.
LEMMA CountersOfStep ==
    ASSUME ProfileInv, Spike, pc \in 1..Len(insns), core' = AfterInsn(core, pc)
    PROVE  /\ core' \in CoreType
           /\ core'.cycles = core.cycles + (IF Behind /\ Fits(window) THEN 0 ELSE 1)
           /\ core'.slots = core.slots + (IF Behind /\ Fits(window) THEN 1 ELSE 0)
           /\ core'.lost = core.lost + (IF Behind /\ ~Fits(window) THEN 1 ELSE 0)
           /\ core'.stray = core.stray + (IF ~Behind /\ MemberOfOther(pc) THEN 1 ELSE 0)
           /\ core'.retired = core.retired + (IF pc \in 1..Len(insns) \ Hints THEN 1 ELSE 0)
           /\ core'.ignored = core.ignored + (IF pc \in Hints \ Forming THEN 1 ELSE 0)
           /\ core'.formed = core.formed + (IF pc \in Fitting THEN 1 ELSE 0)
           /\ core'.declined = core.declined + (IF pc \in Forming \ Fitting THEN 1 ELSE 0)
<1>1. core \in CoreType
  BY ProfileTypes
<1>2. pc \in Hints <=> DeclaredLen(insns[pc]) # 0
  BY DEF Hints
<1>3. pc \in Forming <=> FormsBundle(pc)
  BY DEF Forming
<1>4. pc \in Fitting <=> FormsBundle(pc) /\ Fits(pc)
  BY <1>3 DEF Fitting
<1>5. Behind <=> window # 0 /\ pc \in Members(insns, window)
  BY DEF Behind
<1> DEFINE hint == DeclaredLen(insns[pc]) # 0
           free == Behind /\ Fits(window)
<1>6. core' = [cycles   |-> core.cycles + One(~free),
               retired  |-> core.retired + One(~hint),
               formed   |-> core.formed + One(FormsBundle(pc) /\ Fits(pc)),
               declined |-> core.declined + One(FormsBundle(pc) /\ ~Fits(pc)),
               slots    |-> core.slots + One(free),
               lost     |-> core.lost + One(Behind /\ ~free),
               stray    |-> core.stray + One(~Behind /\ MemberOfOther(pc)),
               ignored  |-> core.ignored + One(hint /\ ~FormsBundle(pc))]
  BY DEF AfterInsn, Behind
<1>8. core' \in CoreType
  <2>1. \A x \in Nat : /\ x + One(~free) \in Nat /\ x + One(~hint) \in Nat
                        /\ x + One(FormsBundle(pc) /\ Fits(pc)) \in Nat
                        /\ x + One(FormsBundle(pc) /\ ~Fits(pc)) \in Nat
                        /\ x + One(free) \in Nat /\ x + One(Behind /\ ~free) \in Nat
                        /\ x + One(~Behind /\ MemberOfOther(pc)) \in Nat
                        /\ x + One(hint /\ ~FormsBundle(pc)) \in Nat
    BY DEF One
  <2>2. /\ core.cycles \in Nat /\ core.retired \in Nat /\ core.formed \in Nat /\ core.declined \in Nat
        /\ core.slots \in Nat /\ core.lost \in Nat /\ core.stray \in Nat /\ core.ignored \in Nat
    BY <1>1 DEF CoreType
  <2> HIDE DEF free, hint
  <2>3. /\ core.cycles + One(~free) \in Nat /\ core.retired + One(~hint) \in Nat
        /\ core.formed + One(FormsBundle(pc) /\ Fits(pc)) \in Nat
        /\ core.declined + One(FormsBundle(pc) /\ ~Fits(pc)) \in Nat
        /\ core.slots + One(free) \in Nat /\ core.lost + One(Behind /\ ~free) \in Nat
        /\ core.stray + One(~Behind /\ MemberOfOther(pc)) \in Nat
        /\ core.ignored + One(hint /\ ~FormsBundle(pc)) \in Nat
    BY <2>1, <2>2
  <2> QED BY <1>6, <2>3 DEF CoreType
<1>9. /\ core'.cycles = core.cycles + One(~free)
      /\ core'.slots = core.slots + One(free)
      /\ core'.lost = core.lost + One(Behind /\ ~free)
      /\ core'.stray = core.stray + One(~Behind /\ MemberOfOther(pc))
      /\ core'.retired = core.retired + One(~hint)
      /\ core'.ignored = core.ignored + One(hint /\ ~FormsBundle(pc))
      /\ core'.formed = core.formed + One(FormsBundle(pc) /\ Fits(pc))
      /\ core'.declined = core.declined + One(FormsBundle(pc) /\ ~Fits(pc))
  BY <1>6
<1>10. /\ One(~free) = IF Behind /\ Fits(window) THEN 0 ELSE 1
       /\ One(free) = IF Behind /\ Fits(window) THEN 1 ELSE 0
       /\ One(Behind /\ ~free) = IF Behind /\ ~Fits(window) THEN 1 ELSE 0
       /\ One(~Behind /\ MemberOfOther(pc)) = IF ~Behind /\ MemberOfOther(pc) THEN 1 ELSE 0
  BY DEF One
<1>11. /\ One(~hint) = IF pc \in 1..Len(insns) \ Hints THEN 1 ELSE 0
       /\ One(hint /\ ~FormsBundle(pc)) = IF pc \in Hints \ Forming THEN 1 ELSE 0
       /\ One(FormsBundle(pc) /\ Fits(pc)) = IF pc \in Fitting THEN 1 ELSE 0
       /\ One(FormsBundle(pc) /\ ~Fits(pc)) = IF pc \in Forming \ Fitting THEN 1 ELSE 0
  BY <1>2, <1>3, <1>4 DEF One
<1> HIDE DEF hint, free
<1> QED BY <1>8, <1>9, <1>10, <1>11

\* Three counters advance together by what their sum does.
LEMMA Shared ==
    ASSUME NEW s \in Nat, NEW l \in Nat, NEW t \in Nat,
           NEW u \in Nat, NEW v \in Nat, NEW w \in Nat
    PROVE  (s + u) + (l + v) + (t + w) = (s + l + t) + (u + v + w)
OBVIOUS

(***************************************************************************)
(* One instruction of the program, whatever control does behind it: all    *)
(* the figures that do not depend on where the core stands in a window.    *)
(***************************************************************************)
LEMMA RetireCounts ==
    ASSUME ProfileInv, Spike, pc \in 1..Len(insns), UNCHANGED <<checkerVars, status>>,
           OneMore(hist'), core' = AfterInsn(core, pc)
    PROVE  /\ core.retired' = Executions(1..Len(insns) \ Hints)'
           /\ core.ignored' = Executions(Hints \ Forming)'
           /\ core.formed' = Executions(Fitting)' /\ core.declined' = Executions(Forming \ Fitting)'
           /\ core.cycles' + core.slots' = Executions(1..Len(insns))'
           /\ core.slots' + core.lost' + core.stray'
                = Executions({i \in 1..Len(insns) : MemberOfOther(i)})'
           /\ core' \in CoreType /\ hist' \in [1..Len(insns) -> Nat]
<1> DEFINE MO == {i \in 1..Len(insns) : MemberOfOther(i)}
<1>1. UNCHANGED insns
  BY DEF checkerVars
<1>2. /\ Hints' = Hints /\ Forming' = Forming /\ Fitting' = Fitting /\ MO' = MO
      /\ (1..Len(insns))' = 1..Len(insns)
  BY <1>1, SameListing
<1>3. /\ Hints \subseteq 1..Len(insns) /\ Fitting \subseteq 1..Len(insns)
      /\ Forming \subseteq 1..Len(insns) /\ MO \subseteq 1..Len(insns)
  BY ProfileTypes, FormingHints
<1>4. core \in CoreType /\ hist' \in [1..Len(insns) -> Nat]
  BY ProfileTypes DEF OneMore
<1>5. pc \in MO <=> MemberOfOther(pc)
  OBVIOUS
<1>6. Behind => MemberOfOther(pc)
  <2> SUFFICES ASSUME Behind PROVE MemberOfOther(pc)
    OBVIOUS
  <2>1. window # 0 /\ pc \in Members(insns, window) /\ FormsBundle(window)
    BY DEF Behind, ProfileInv
  <2>2. window \in 1..Len(insns)
    BY <2>1 DEF ProfileInv, ProfileTypeOK, Hints
  <2> QED BY <2>1, <2>2 DEF MemberOfOther
<1> HIDE DEF MO
<1>7. /\ Executions(1..Len(insns) \ Hints)' = Executions(1..Len(insns) \ Hints)
                                                + (IF pc \in 1..Len(insns) \ Hints THEN 1 ELSE 0)
      /\ Executions(Hints \ Forming)' = Executions(Hints \ Forming)
                                          + (IF pc \in Hints \ Forming THEN 1 ELSE 0)
      /\ Executions(Fitting)' = Executions(Fitting) + (IF pc \in Fitting THEN 1 ELSE 0)
      /\ Executions(Forming \ Fitting)' = Executions(Forming \ Fitting)
                                            + (IF pc \in Forming \ Fitting THEN 1 ELSE 0)
      /\ Executions(1..Len(insns))' = Executions(1..Len(insns)) + 1
      /\ Executions(MO)' = Executions(MO) + (IF pc \in MO THEN 1 ELSE 0)
  <2>1. \A I \in SUBSET 1..Len(insns) :
           SumFunctionOnSet(hist', I) = Executions(I) + (IF pc \in I THEN 1 ELSE 0)
    BY ExecutionCounts
  <2>2. /\ 1..Len(insns) \ Hints \in SUBSET 1..Len(insns)
        /\ Hints \ Forming \in SUBSET 1..Len(insns)
        /\ Forming \ Fitting \in SUBSET 1..Len(insns)
    BY <1>3
  <2>3. /\ Executions(1..Len(insns) \ Hints)' = SumFunctionOnSet(hist', 1..Len(insns) \ Hints)
        /\ Executions(Hints \ Forming)' = SumFunctionOnSet(hist', Hints \ Forming)
        /\ Executions(Fitting)' = SumFunctionOnSet(hist', Fitting)
        /\ Executions(Forming \ Fitting)' = SumFunctionOnSet(hist', Forming \ Fitting)
        /\ Executions(1..Len(insns))' = SumFunctionOnSet(hist', 1..Len(insns))
        /\ Executions(MO)' = SumFunctionOnSet(hist', MO)
    BY <1>2 DEF Executions
  <2> QED BY <1>3, <2>1, <2>2, <2>3
<1>8. /\ core.retired = Executions(1..Len(insns) \ Hints)
      /\ core.ignored = Executions(Hints \ Forming)
      /\ core.formed = Executions(Fitting) /\ core.declined = Executions(Forming \ Fitting)
      /\ core.cycles + core.slots = Executions(1..Len(insns))
      /\ core.slots + core.lost + core.stray = Executions(MO)
  BY DEF ProfileInv, MO
<1>9. /\ core.cycles \in Nat /\ core.slots \in Nat /\ core.lost \in Nat /\ core.stray \in Nat
  BY <1>4 DEF CoreType
<1>10. core.cycles' + core.slots' = Executions(1..Len(insns))'
  BY <1>7, <1>8, <1>9, CountersOfStep
<1>11. core.slots' + core.lost' + core.stray' = Executions(MO)'
  <2> DEFINE u == IF Behind /\ Fits(window) THEN 1 ELSE 0
             v == IF Behind /\ ~Fits(window) THEN 1 ELSE 0
             w == IF ~Behind /\ MemberOfOther(pc) THEN 1 ELSE 0
             m == IF MemberOfOther(pc) THEN 1 ELSE 0
  <2>1. u \in Nat /\ v \in Nat /\ w \in Nat /\ u + v + w = m
    BY <1>6
  <2>2. core.slots' = core.slots + u /\ core.lost' = core.lost + v /\ core.stray' = core.stray + w
    BY CountersOfStep
  <2>3. Executions(MO)' = (core.slots + core.lost + core.stray) + m
    BY <1>5, <1>7, <1>8
  <2> HIDE DEF u, v, w, m
  <2>4. (core.slots + u) + (core.lost + v) + (core.stray + w)
          = (core.slots + core.lost + core.stray) + (u + v + w)
    <3> DEFINE s == core.slots
               l == core.lost
               t == core.stray
    <3>1. s \in Nat /\ l \in Nat /\ t \in Nat /\ u \in Nat /\ v \in Nat /\ w \in Nat
      BY <1>9, <2>1
    <3> HIDE DEF s, l, t
    <3>2. (s + u) + (l + v) + (t + w) = (s + l + t) + (u + v + w)
      BY <3>1, Shared
    <3> QED BY <3>2 DEF s, l, t
  <2>5. (core.slots + u) + (core.lost + v) + (core.stray + w) = Executions(MO)'
    BY <2>1, <2>3, <2>4, Zenon
  <2> QED BY <2>2, <2>5, Zenon
<1>12. /\ core.retired' = Executions(1..Len(insns) \ Hints)'
       /\ core.ignored' = Executions(Hints \ Forming)'
       /\ core.formed' = Executions(Fitting)' /\ core.declined' = Executions(Forming \ Fitting)'
  BY <1>7, <1>8, CountersOfStep
<1>13. core' \in CoreType
  BY CountersOfStep
<1> QED BY <1>4, <1>10, <1>11, <1>12, <1>13 DEF MO

(***************************************************************************)
(* Members behind an open window are neither hints nor branches, so the    *)
(* window is left only when its last member has been retired.              *)
(***************************************************************************)
LEMMA OpenWindow ==
    ASSUME ProfileInv, WellFormed, pc \in 1..Len(insns)
    PROVE  /\ Behind => /\ window \in Forming /\ pc \notin Forming
                        /\ insns[pc].cls \notin Control
                        /\ pc \in (window + 1)..(window + DeclaredLen(insns[window]))
           /\ pc \in Forming => insns[pc].cls \notin Control
<1>1. insns \in Seq(Insn) /\ Forming \subseteq Hints /\ Hints \subseteq 1..Len(insns)
  BY ProfileTypes, FormingHints
<1>2. ASSUME Behind
      PROVE  /\ window \in Forming /\ pc \notin Forming /\ insns[pc].cls \notin Control
             /\ pc \in (window + 1)..(window + DeclaredLen(insns[window]))
  <2>1. window \in Hints /\ FormsBundle(window) /\ pc \in Members(insns, window)
    BY <1>2 DEF Behind, ProfileInv, ProfileTypeOK
  <2>2. window \in Forming
    BY <1>1, <2>1 DEF Forming
  <2>3. pc \notin Hints
    BY <2>1 DEF WellFormed, NoNestedHints
  <2>4. insns[pc].cls \notin Control
    BY <1>1, <2>1 DEF WellFormed, ContractSafe, FormsBundle
  <2> QED BY <1>1, <2>1, <2>2, <2>3, <2>4 DEF Members
<1>3. ASSUME pc \in Forming PROVE insns[pc].cls \notin Control
  <2>1. DeclaredLen(insns[pc]) # 0 /\ insns[pc] \in Insn
    BY <1>1, <1>3 DEF Hints
  <2>2. insns[pc].cls = "alu"
    BY <2>1 DEF DeclaredLen, Insn, IsHintInsn
  <2> QED BY <2>2 DEF Control
<1> QED BY <1>2, <1>3

\* What is still to come behind the hints in H, after a step: the executed hint's members are,
\* the retired one is not any more.
LEMMA WindowMoves ==
    ASSUME ProfileInv, WellFormed, pc \in 1..Len(insns), UNCHANGED insns,
           \/ pc' = pc + 1 /\ window' = IF FormsBundle(pc) THEN pc ELSE window
           \/ insns[pc].cls \in Control /\ window' = 0,
           NEW H \in SUBSET Forming
    PROVE  (IF Behind' /\ window' \in H THEN ToCome' ELSE 0)
             + (IF Behind /\ window \in H THEN 1 ELSE 0)
           = (IF Behind /\ window \in H THEN ToCome ELSE 0)
               + (IF pc \in H THEN DeclaredLen(insns[pc]) ELSE 0)
<1>1. /\ pc \in Nat
      /\ \A h \in Forming : /\ h \in Nat /\ DeclaredLen(insns[h]) \in 1..4
                            /\ Members(insns, h) = (h + 1)..(h + DeclaredLen(insns[h]))
  BY ProfileTypes, FormingHints
<1>2. Behind' <=> window' # 0 /\ pc' \in Members(insns, window')
  BY DEF Behind
<1>3. ToCome' = window' + DeclaredLen(insns[window']) + 1 - pc'
  BY DEF ToCome
<1>4. FormsBundle(pc) <=> pc \in Forming
  BY DEF Forming
<1>5. CASE Behind
  <2>1. /\ window \in Forming /\ pc \notin Forming
        /\ pc \in (window + 1)..(window + DeclaredLen(insns[window]))
        /\ insns[pc].cls \notin Control
    BY <1>5, OpenWindow
  <2>2. pc' = pc + 1 /\ window' = window
    BY <1>4, <2>1
  <2> DEFINE d == DeclaredLen(insns[window])
  <2>3. window \in Nat /\ d \in 1..4 /\ Members(insns, window) = (window + 1)..(window + d)
    BY <1>1, <2>1
  <2>4. ToCome = window + d + 1 - pc /\ ToCome' = window + d + 1 - (pc + 1)
    BY <1>3, <2>2 DEF ToCome
  <2>5. Behind' <=> pc + 1 \in (window + 1)..(window + d)
    BY <1>2, <1>5, <2>2, <2>3 DEF Behind
  <2>6. pc \in (window + 1)..(window + d)
    BY <2>1
  <2> HIDE DEF d
  <2>7. (IF Behind' THEN ToCome' ELSE 0) + 1 = ToCome
    BY <1>1, <2>3, <2>4, <2>5, <2>6
  <2>8. pc \notin H
    BY <2>1
  <2> QED BY <1>1, <1>5, <2>2, <2>3, <2>4, <2>7, <2>8
<1>6. CASE ~Behind /\ pc \in Forming
  <2>1. pc' = pc + 1 /\ window' = pc
    BY <1>4, <1>6, OpenWindow
  <2> DEFINE d == DeclaredLen(insns[pc])
  <2>2. d \in 1..4 /\ Members(insns, pc) = (pc + 1)..(pc + d) /\ pc # 0
    BY <1>1, <1>6
  <2>3. ToCome' = pc + d + 1 - (pc + 1) /\ (Behind' <=> pc + 1 \in (pc + 1)..(pc + d))
    BY <1>2, <1>3, <2>1, <2>2
  <2> HIDE DEF d
  <2>4. Behind' /\ ToCome' = d
    BY <1>1, <2>2, <2>3
  <2> QED BY <1>6, <2>1, <2>2, <2>4 DEF d
<1>7. CASE ~Behind /\ pc \notin Forming
  <2>1. ~Behind'
    <3>1. CASE window' = 0
      BY <1>2, <3>1
    <3>2. CASE window' = window /\ pc' = pc + 1 /\ window # 0
      <4>1. FormsBundle(window) /\ window < pc /\ window \in Forming
        BY <3>2 DEF ProfileInv, ProfileTypeOK, Forming, Hints
      <4> DEFINE d == DeclaredLen(insns[window])
      <4>2. window \in Nat /\ d \in 1..4 /\ Members(insns, window) = (window + 1)..(window + d)
        BY <1>1, <4>1
      <4>3. pc \notin (window + 1)..(window + d)
        BY <1>7, <3>2, <4>2 DEF Behind
      <4>4. Behind' => pc + 1 \in (window + 1)..(window + d)
        BY <1>2, <3>2, <4>2
      <4> HIDE DEF d
      <4> QED BY <1>1, <4>1, <4>2, <4>3, <4>4
    <3> QED BY <1>4, <1>7, <3>1, <3>2
  <2>2. pc \notin H
    BY <1>7
  <2> QED BY <1>7, <2>1, <2>2
<1> QED BY <1>5, <1>6, <1>7

\* What has been issued and what is to come behind the hints in H, c before the step.
LEMMA SideMoves ==
    ASSUME ProfileInv, WellFormed, pc \in 1..Len(insns), UNCHANGED insns, OneMore(hist'),
           \/ pc' = pc + 1 /\ window' = IF FormsBundle(pc) THEN pc ELSE window
           \/ insns[pc].cls \in Control /\ window' = 0,
           NEW H \in SUBSET Forming, NEW c \in Nat,
           c + (IF Behind /\ window \in H THEN ToCome ELSE 0) = SlotsBehind(H)
    PROVE  (c + (IF Behind /\ window \in H THEN 1 ELSE 0))
              + (IF Behind' /\ window' \in H THEN ToCome' ELSE 0)
           = SumFunction([h \in H |-> hist'[h] * DeclaredLen(insns[h])])
<1> DEFINE p == IF Behind /\ window \in H THEN ToCome ELSE 0
           q == IF Behind' /\ window' \in H THEN ToCome' ELSE 0
           r == IF Behind /\ window \in H THEN 1 ELSE 0
           d == IF pc \in H THEN DeclaredLen(insns[pc]) ELSE 0
           b == SlotsBehind(H)
           t == SumFunction([h \in H |-> hist'[h] * DeclaredLen(insns[h])])
<1>1. q + r = p + d
  BY WindowMoves
<1>2. t = b + d
  BY ExecutionPutsBehind
<1>3. \A h \in Forming : h \in Nat /\ DeclaredLen(insns[h]) \in Nat
  BY ProfileTypes, FormingHints
<1>4. r \in Nat /\ d \in Nat /\ c \in Nat
  BY <1>3
<1>5. p \in Int
  BY <1>3, ProfileTypes DEF ToCome
<1>6. q \in Int
  <2>1. Behind' /\ window' \in H => window' \in Forming /\ pc' \in Int
    BY DEF Behind
  <2>2. ToCome' = window' + DeclaredLen(insns[window']) + 1 - pc'
    BY DEF ToCome
  <2> QED BY <1>3, <2>1, <2>2
<1>7. c + p = b
  OBVIOUS
<1> HIDE DEF p, q, r, d, b, t
<1>8. (c + r) + q = t
  BY <1>1, <1>2, <1>4, <1>5, <1>6, <1>7
<1> QED BY <1>8 DEF r, q, t

\* The slots issued and lost, and those still to come, are those the executed hints declare.
LEMMA SlotsMove ==
    ASSUME ProfileInv, WellFormed, Spike, pc \in 1..Len(insns), UNCHANGED insns,
           OneMore(hist'), core' = AfterInsn(core, pc),
           \/ pc' = pc + 1 /\ window' = IF FormsBundle(pc) THEN pc ELSE window
           \/ insns[pc].cls \in Control /\ window' = 0
    PROVE  /\ core'.slots + (IF Behind' /\ Fits(window)' THEN ToCome' ELSE 0)
                = SlotsBehind(Fitting)'
           /\ core'.lost + (IF Behind' /\ ~Fits(window)' THEN ToCome' ELSE 0)
                = SlotsBehind(Forming \ Fitting)'
<1>1. Fitting' = Fitting /\ Forming' = Forming /\ Fitting \subseteq Forming
  BY SameListing DEF Fitting
<1>2. SlotsBehind(Fitting)' = SumFunction([h \in Fitting |-> hist'[h] * DeclaredLen(insns[h])])
  BY <1>1 DEF SlotsBehind
<1>3. SlotsBehind(Forming \ Fitting)'
        = SumFunction([h \in Forming \ Fitting |-> hist'[h] * DeclaredLen(insns[h])])
  BY <1>1 DEF SlotsBehind
<1>4. /\ Behind => window \in Forming /\ (window \in Fitting <=> Fits(window))
      /\ Behind' => window' \in Forming
  <2>1. Behind => window \in Forming
    BY OpenWindow
  <2>2. Behind' => window' # 0
    BY DEF Behind
  <2>3. ASSUME Behind' PROVE window' \in Forming
    <3>1. CASE window' = pc /\ FormsBundle(pc)
      BY <3>1 DEF Forming
    <3>2. CASE window' = window /\ window # 0
      BY <3>2 DEF ProfileInv, ProfileTypeOK, Forming, Hints
    <3> QED BY <2>2, <2>3, <3>1, <3>2
  <2> QED BY <2>1, <2>3 DEF Fitting
<1>5. window' \in Forming => (window' \in Fitting <=> Fits(window)')
  <2>1. \A h : h \in Fitting <=> h \in Forming /\ Fits(h)
    BY DEF Fitting
  <2>2. Fits(window)' <=> Fits(window')
    BY DEF Fits, Members
  <2> QED BY <2>1, <2>2
<1>6. /\ core.slots \in Nat /\ core.lost \in Nat
      /\ core.slots + (IF Behind /\ window \in Fitting THEN ToCome ELSE 0) = SlotsBehind(Fitting)
      /\ core.lost + (IF Behind /\ window \in Forming \ Fitting THEN ToCome ELSE 0)
           = SlotsBehind(Forming \ Fitting)
  BY <1>4, ProfileTypes DEF ProfileInv, CoreType
<1>7. /\ core'.slots = core.slots + (IF Behind /\ window \in Fitting THEN 1 ELSE 0)
      /\ core'.lost = core.lost + (IF Behind /\ window \in Forming \ Fitting THEN 1 ELSE 0)
  BY <1>4, CountersOfStep
<1>8. core'.slots + (IF Behind' /\ window' \in Fitting THEN ToCome' ELSE 0) = SlotsBehind(Fitting)'
  <2>1. Fitting \in SUBSET Forming
    BY <1>1
  <2>2. (core.slots + (IF Behind /\ window \in Fitting THEN 1 ELSE 0))
          + (IF Behind' /\ window' \in Fitting THEN ToCome' ELSE 0)
        = SumFunction([h \in Fitting |-> hist'[h] * DeclaredLen(insns[h])])
    BY <1>6, <2>1, SideMoves
  <2> QED BY <1>1, <1>2, <1>7, <2>2, Zenon
<1>9. core'.lost + (IF Behind' /\ window' \in Forming \ Fitting THEN ToCome' ELSE 0)
        = SlotsBehind(Forming \ Fitting)'
  <2>1. Forming \ Fitting \in SUBSET Forming
    OBVIOUS
  <2>2. (core.lost + (IF Behind /\ window \in Forming \ Fitting THEN 1 ELSE 0))
          + (IF Behind' /\ window' \in Forming \ Fitting THEN ToCome' ELSE 0)
        = SumFunction([h \in Forming \ Fitting |-> hist'[h] * DeclaredLen(insns[h])])
    BY <1>6, <2>1, SideMoves
  <2> QED BY <1>1, <1>3, <1>7, <2>2, Zenon
<1> QED BY <1>4, <1>5, <1>8, <1>9

(***************************************************************************)
(* One instruction of the program keeps the invariant.                     *)
(***************************************************************************)
LEMMA RetireInv ==
    ASSUME ProfileInv, Spike, pc \in 1..Len(insns), UNCHANGED <<checkerVars, status>>,
           OneMore(hist'), core' = AfterInsn(core, pc),
           pc' \in 1..(Len(insns) + 1), taken' \in 0..MaxTaken,
           \/ pc' = pc + 1 /\ window' = IF FormsBundle(pc) THEN pc ELSE window
           \/ insns[pc].cls \in Control /\ window' = 0
    PROVE  ProfileInv'
<1>2. UNCHANGED checkerVars /\ UNCHANGED insns /\ UNCHANGED <<idx, status>>
  BY DEF checkerVars
<1>3. CheckInv' /\ CheckerTypeOK'
  BY <1>2, CheckStutter DEF ProfileInv, CheckInv
<1>4. /\ core.retired' = Executions(1..Len(insns) \ Hints)'
      /\ core.ignored' = Executions(Hints \ Forming)'
      /\ core.formed' = Executions(Fitting)' /\ core.declined' = Executions(Forming \ Fitting)'
      /\ core.cycles' + core.slots' = Executions(1..Len(insns))'
      /\ core.slots' + core.lost' + core.stray'
           = Executions({i \in 1..Len(insns) : MemberOfOther(i)})'
      /\ core' \in CoreType /\ hist' \in [1..Len(insns) -> Nat]
  BY RetireCounts
<1>5. /\ Hints' = Hints /\ (WellFormed' <=> WellFormed)
      /\ TargetsWithin(insns)' /\ (Profiled(insns)' => Ascending(insns)')
      /\ status # "analysing" => idx > Len(insns) /\ Profiled(insns)'
      /\ \A h : FormsBundle(h)' = FormsBundle(h)
  BY <1>2, SameListing DEF ProfileInv
<1>6. /\ window' \in {0} \cup Hints
      /\ window' # 0 => FormsBundle(window)' /\ window' < pc'
  <2>1. CASE window' = 0
    BY <2>1
  <2>2. CASE pc' = pc + 1 /\ window' = pc /\ FormsBundle(pc)
    <3>1. pc \in Hints
      BY <2>2, ProfileTypes, FormingHints DEF Forming
    <3>2. FormsBundle(window)'
      BY <1>2, <2>2 DEF FormsBundle
    <3> QED BY <2>2, <3>1, <3>2
  <2>3. CASE pc' = pc + 1 /\ window' = window
    <3>1. window' # 0 => FormsBundle(window) /\ window < pc /\ window \in Hints
      BY <2>3 DEF ProfileInv, ProfileTypeOK
    <3>2. FormsBundle(window)' <=> FormsBundle(window)
      BY <1>2, <2>3 DEF FormsBundle
    <3>3. pc \in Nat /\ Hints \subseteq Nat
      BY ProfileTypes, FormingHints
    <3>4. window' # 0 => window' < pc'
      <4>1. \A a, b \in Nat : a < b => a < b + 1
        OBVIOUS
      <4> QED BY <2>3, <3>1, <3>3, <4>1, Zenon
    <3>5. window' \in {0} \cup Hints
      BY <2>3, <3>1
    <3> QED BY <2>3, <3>1, <3>2, <3>4, <3>5
  <2>4. \/ window' = 0
        \/ pc' = pc + 1 /\ window' = pc /\ FormsBundle(pc)
        \/ pc' = pc + 1 /\ window' = window
    OBVIOUS
  <2> QED BY <2>1, <2>2, <2>3, <2>4
<1>7. WellFormed' =>
        /\ core'.slots + (IF Behind' /\ Fits(window)' THEN ToCome' ELSE 0)
             = SlotsBehind(Fitting)'
        /\ core'.lost + (IF Behind' /\ ~Fits(window)' THEN ToCome' ELSE 0)
             = SlotsBehind(Forming \ Fitting)'
  BY <1>2, <1>5, SlotsMove
<1>8. ProfileTypeOK'
  <2>1. status' \in {"analysing", "spike", "retry", "done", "failed"}
    BY <1>2 DEF ProfileInv, ProfileTypeOK
  <2> QED BY <1>2, <1>3, <1>4, <1>5, <1>6, <2>1 DEF ProfileTypeOK
<1>9. status # "done"
  BY DEF Spike
<1> QED BY <1>2, <1>3, <1>4, <1>5, <1>6, <1>7, <1>8, <1>9 DEF ProfileInv

-----------------------------------------------------------------------------
\* Before the run every figure is zero.
LEMMA ProfileStarts == ProfileInit => ProfileInv
<1> SUFFICES ASSUME ProfileInit PROVE ProfileInv
  OBVIOUS
<1>1. CheckInv /\ CheckerTypeOK /\ insns \in Listings
  BY CheckInit, ListingsAssumption DEF ProfileInit, CheckerInit, CheckInv
<1>2. insns \in Seq(Insn) /\ Len(insns) \in Nat /\ IsFiniteSet(1..Len(insns))
  BY <1>1, UptoFinite DEF CheckerTypeOK
<1>3. /\ hist \in [1..Len(insns) -> Nat] /\ \A i \in 1..Len(insns) : hist[i] = 0
      /\ status = "analysing" /\ pc = 1 /\ taken = 0 /\ window = 0
  BY DEF ProfileInit
<1>4. core = [cycles |-> 0, retired |-> 0, formed |-> 0, declined |-> 0,
              slots |-> 0, lost |-> 0, stray |-> 0, ignored |-> 0]
  BY DEF ProfileInit
<1>5. ProfileTypeOK
  <2>1. core \in CoreType
    BY <1>4 DEF CoreType
  <2>2. 1 \in 1..(Len(insns) + 1) /\ 0 \in 0..MaxTaken
    BY <1>2, MaxTakenAssumption
  <2> QED BY <1>1, <1>3, <2>1, <2>2 DEF ProfileTypeOK
<1>6. \A I \in SUBSET 1..Len(insns) : Executions(I) = 0
  <2> SUFFICES ASSUME NEW I \in SUBSET 1..Len(insns) PROVE Executions(I) = 0
    OBVIOUS
  <2>1. IsFiniteSet(I) /\ \A x \in I : hist[x] = 0
    BY <1>2, <1>3, FS_Subset
  <2> QED BY <2>1, SumOfZeros DEF Executions
<1>7. /\ Hints \subseteq 1..Len(insns) /\ Forming \subseteq Hints /\ Fitting \subseteq Forming
      /\ {i \in 1..Len(insns) : MemberOfOther(i)} \subseteq 1..Len(insns)
  BY <1>2, FormingHints
<1>8. \A H \in SUBSET Forming : SlotsBehind(H) = 0
  <2> SUFFICES ASSUME NEW H \in SUBSET Forming PROVE SlotsBehind(H) = 0
    OBVIOUS
  <2> DEFINE f == [h \in H |-> hist[h] * DeclaredLen(insns[h])]
  <2>1. IsFiniteSet(H)
    BY <1>2, <1>7, FS_Subset
  <2>2. \A h \in H : hist[h] = 0 /\ DeclaredLen(insns[h]) \in Nat
    BY <1>2, <1>3, <1>7, FormingHints
  <2>3. \A h \in H : f[h] = 0
    BY <2>2
  <2>4. SlotsBehind(H) = SumFunctionOnSet(f, H)
    BY DEF SlotsBehind, SumFunction
  <2> HIDE DEF f
  <2> QED BY <2>1, <2>3, <2>4, SumOfZeros
<1>9. /\ core.retired = Executions(1..Len(insns) \ Hints)
      /\ core.ignored = Executions(Hints \ Forming)
      /\ core.formed = Executions(Fitting) /\ core.declined = Executions(Forming \ Fitting)
      /\ core.cycles + core.slots = Executions(1..Len(insns))
      /\ core.slots + core.lost + core.stray = Executions({i \in 1..Len(insns) : MemberOfOther(i)})
  <2>1. /\ Hints \ Forming \in SUBSET 1..Len(insns) /\ Forming \ Fitting \in SUBSET 1..Len(insns)
        /\ 1..Len(insns) \ Hints \in SUBSET 1..Len(insns) /\ Fitting \in SUBSET 1..Len(insns)
    BY <1>7
  <2> QED BY <1>4, <1>6, <1>7, <2>1
<1>10. /\ core.slots = SlotsBehind(Fitting) /\ core.lost = SlotsBehind(Forming \ Fitting)
       /\ ~Behind /\ core.slots + 0 = core.slots /\ core.lost + 0 = core.lost
  BY <1>3, <1>4, <1>7, <1>8 DEF Behind
<1>11. TargetsWithin(insns) /\ (Profiled(insns) => Ascending(insns))
  BY <1>1, TargetsAssumption, AscendingAssumption
<1> QED BY <1>1, <1>3, <1>5, <1>9, <1>10, <1>11 DEF ProfileInv

\* What a step that leaves the program and the core alone has to keep.
LEMMA ProfileRests ==
    ASSUME ProfileInv, UNCHANGED <<insns, pc, taken, hist, window, core>>, CheckInv',
           status' \in {"analysing", "spike", "retry", "done", "failed"},
           status' # "analysing" => idx' > Len(insns) /\ Profiled(insns),
           status' = "done" => pc > Len(insns)
    PROVE  ProfileInv'
<1>1. UNCHANGED insns /\ UNCHANGED <<pc, taken, hist, window, core>>
  OBVIOUS
<1>2. /\ Hints' = Hints /\ Forming' = Forming /\ Fitting' = Fitting
      /\ {i \in 1..Len(insns) : MemberOfOther(i)}' = {i \in 1..Len(insns) : MemberOfOther(i)}
      /\ \A h : FormsBundle(h)' = FormsBundle(h) /\ Fits(h)' = Fits(h)
      /\ WellFormed' = WellFormed /\ TargetsWithin(insns)' = TargetsWithin(insns)
      /\ Ascending(insns)' = Ascending(insns) /\ Profiled(insns)' = Profiled(insns)
  BY <1>1, SameListing
<1>3. /\ CheckerTypeOK' /\ ProfileTypeOK'
  <2>1. CheckerTypeOK'
    BY DEF CheckInv
  <2> QED BY <1>1, <1>2, <2>1 DEF ProfileInv, ProfileTypeOK
<1>4. /\ Executions(1..Len(insns) \ Hints)' = Executions(1..Len(insns) \ Hints)
      /\ Executions(Hints \ Forming)' = Executions(Hints \ Forming)
      /\ Executions(Fitting)' = Executions(Fitting)
      /\ Executions(Forming \ Fitting)' = Executions(Forming \ Fitting)
      /\ Executions(1..Len(insns))' = Executions(1..Len(insns))
      /\ Executions({i \in 1..Len(insns) : MemberOfOther(i)})'
           = Executions({i \in 1..Len(insns) : MemberOfOther(i)})
  BY <1>1, <1>2 DEF Executions
<1>5. /\ SlotsBehind(Fitting)' = SlotsBehind(Fitting)
      /\ SlotsBehind(Forming \ Fitting)' = SlotsBehind(Forming \ Fitting)
  BY <1>1, <1>2 DEF SlotsBehind
<1>6. Behind' = Behind /\ ToCome' = ToCome /\ Fits(window)' = Fits(window)
      /\ FormsBundle(window)' = FormsBundle(window)
  BY <1>1 DEF Behind, ToCome, Fits, FormsBundle
<1>7. /\ window' # 0 => FormsBundle(window)' /\ window' < pc'
      /\ TargetsWithin(insns)' /\ (Profiled(insns)' => Ascending(insns)')
      /\ status' # "analysing" => idx' > Len(insns)' /\ Profiled(insns)'
      /\ status' = "done" => pc' > Len(insns)'
  BY <1>1, <1>2, <1>6 DEF ProfileInv
<1>8. /\ core'.retired = Executions(1..Len(insns) \ Hints)'
      /\ core'.ignored = Executions(Hints \ Forming)'
      /\ core'.formed = Executions(Fitting)' /\ core'.declined = Executions(Forming \ Fitting)'
      /\ core'.cycles + core'.slots = Executions(1..Len(insns))'
      /\ core'.slots + core'.lost + core'.stray
           = Executions({i \in 1..Len(insns) : MemberOfOther(i)})'
  BY <1>1, <1>4 DEF ProfileInv
<1>9. WellFormed' =>
        /\ core'.slots + (IF Behind' /\ Fits(window)' THEN ToCome' ELSE 0) = SlotsBehind(Fitting)'
        /\ core'.lost + (IF Behind' /\ ~Fits(window)' THEN ToCome' ELSE 0)
             = SlotsBehind(Forming \ Fitting)'
  BY <1>1, <1>2, <1>5, <1>6 DEF ProfileInv
<1> QED BY <1>3, <1>7, <1>8, <1>9 DEF ProfileInv

\* A histogram with one entry incremented.
LEMMA Incremented ==
    ASSUME NEW D, NEW f \in [D -> Nat], NEW x \in D
    PROVE  /\ [f EXCEPT ![x] = @ + 1] \in [D -> Nat]
           /\ \A i \in D : [f EXCEPT ![x] = @ + 1][i] = IF i = x THEN f[i] + 1 ELSE f[i]
OBVIOUS

\* Every step keeps the invariant.
LEMMA ProfileStep == ProfileInv /\ [ProfileNext]_<<checkerVars, profileVars>> => ProfileInv'
<1> SUFFICES ASSUME ProfileInv, [ProfileNext]_<<checkerVars, profileVars>> PROVE ProfileInv'
  OBVIOUS
<1>1. /\ CheckInv /\ insns \in Seq(Insn) /\ Len(insns) \in Nat /\ idx \in Nat /\ pc \in Nat
      /\ status \in {"analysing", "spike", "retry", "done", "failed"}
      /\ status # "analysing" => idx > Len(insns) /\ Profiled(insns)
      /\ status = "done" => pc > Len(insns)
  BY ProfileTypes DEF ProfileInv, ProfileTypeOK, CheckerTypeOK
<1>2. CASE Analyse
  <2>1. CheckInv'
    BY <1>1, <1>2, StepOverInv, TakeBundleInv DEF Analyse
  <2>2. status = "analysing"
    BY <1>1, <1>2 DEF Analyse, StepOver, TakeBundle, Analysing
  <2>3. UNCHANGED <<insns, status, pc, taken, hist, window, core>>
    BY <1>2 DEF Analyse, StepOver, TakeBundle, profileVars
  <2> QED BY <2>1, <2>2, <2>3, ProfileRests
<1>3. CASE CheckerMain
  <2>1. CheckInv'
    BY <1>1, <1>3, ReportInv DEF CheckerMain
  <2>2. UNCHANGED <<insns, status, pc, taken, hist, window, core>> /\ status = "analysing"
    BY <1>3 DEF CheckerMain, Report, profileVars
  <2> QED BY <2>1, <2>2, ProfileRests
<1>4. CASE \/ StartSpike \/ BadIsa \/ NoHistogram \/ ProgramEnds
  <2>1. UNCHANGED checkerVars /\ UNCHANGED <<pc, taken, hist, window, core>>
    BY <1>4 DEF StartSpike, BadIsa, NoHistogram, ProgramEnds, checkerVars
  <2>2. CheckInv' /\ UNCHANGED <<insns, idx>>
    BY <1>1, <2>1, CheckStutter DEF checkerVars
  <2>3. /\ status' \in {"analysing", "spike", "retry", "done", "failed"}
        /\ status' # "analysing" => idx > Len(insns) /\ Profiled(insns)
        /\ status' = "done" => pc > Len(insns)
    BY <1>1, <1>4 DEF StartSpike, BadIsa, NoHistogram, ProgramEnds, Spike
  <2> QED BY <2>1, <2>2, <2>3, ProfileRests
<1>5. CASE Fall
  <2>1. /\ Spike /\ pc \in 1..Len(insns) /\ UNCHANGED <<checkerVars, status>>
        /\ core' = AfterInsn(core, pc) /\ pc' = pc + 1 /\ taken' = taken
        /\ window' = IF FormsBundle(pc) THEN pc ELSE window
    BY <1>1, <1>5 DEF Fall, Retire, ProfileInv, ProfileTypeOK
  <2>2. OneMore(hist')
    <3>1. hist' = [hist EXCEPT ![pc] = @ + 1]
      BY <1>5 DEF Fall, Retire
    <3> QED BY <2>1, <3>1, Incremented, ProfileTypes DEF OneMore
  <2>3. pc' \in 1..(Len(insns) + 1) /\ taken' \in 0..MaxTaken
    BY <1>1, <2>1 DEF ProfileInv, ProfileTypeOK
  <2> QED BY <2>1, <2>2, <2>3, RetireInv
<1>6. CASE Jump
  <2>1. PICK t \in Targets(insns, pc) : Retire(t)
    BY <1>6 DEF Jump
  <2>2. /\ Spike /\ pc \in 1..Len(insns) /\ UNCHANGED <<checkerVars, status>>
        /\ core' = AfterInsn(core, pc) /\ pc' = t
    BY <1>1, <2>1 DEF Retire, ProfileInv, ProfileTypeOK
  <2>3. OneMore(hist')
    <3>1. hist' = [hist EXCEPT ![pc] = @ + 1]
      BY <2>1 DEF Retire
    <3> QED BY <2>2, <3>1, Incremented, ProfileTypes DEF OneMore
  <2>4. pc' \in 1..(Len(insns) + 1)
    BY <2>1, <2>2 DEF ProfileInv, TargetsWithin
  <2>5. taken' \in 0..MaxTaken
    BY <1>6, MaxTakenAssumption DEF Jump, ProfileInv, ProfileTypeOK
  <2>6. insns[pc].cls \in Control /\ window' = 0
    BY <1>6 DEF Jump
  <2> QED BY <2>2, <2>3, <2>4, <2>5, <2>6, RetireInv
<1>7. CASE Ended \/ UNCHANGED <<checkerVars, profileVars>>
  <2>1. UNCHANGED checkerVars /\ UNCHANGED <<status, pc, taken, hist, window, core>>
    BY <1>7 DEF Ended, profileVars
  <2>2. CheckInv' /\ UNCHANGED <<insns, idx>>
    BY <1>1, <2>1, CheckStutter DEF checkerVars
  <2> QED BY <1>1, <2>1, <2>2, ProfileRests
<1> QED BY <1>2, <1>3, <1>4, <1>5, <1>6, <1>7 DEF ProfileNext

(***************************************************************************)
(* The core's figures are sums over Spike's histogram in every state of    *)
(* every run, however control has gone through the bundles.                *)
(***************************************************************************)
THEOREM ProfileInvariance == ProfileSpec => []ProfileInv
BY ProfileStarts, ProfileStep, PTL DEF ProfileSpec

\* The checker's and the profiler's variables keep their types.
THEOREM ProfileIsTyped == ProfileSpec => []ProfileTypeOK
<1>1. ProfileInv => ProfileTypeOK
  BY DEF ProfileInv
<1> QED BY <1>1, ProfileInvariance, PTL

-----------------------------------------------------------------------------
\* A line behind another does not come before it.
LEMMA LinesAscend ==
    ASSUME NEW x \in Nat, NEW y \in Nat, x =< y
    PROVE  x \div LineBytes =< y \div LineBytes /\ x \div LineBytes \in Nat
BY LineBytesAssumption

\* What climbs at every step is least at the start and greatest at the end.
LEMMA Climbing ==
    ASSUME NEW h \in Nat, NEW n \in Nat, NEW f \in [h..(h + n) -> Nat],
           \A j \in h..(h + n - 1) : f[j] =< f[j + 1]
    PROVE  \A j \in h..(h + n) : f[h] =< f[j] /\ f[j] =< f[h + n]
<1> DEFINE G == {m \in Nat : m =< n => f[h] =< f[h + m] /\ f[h + (n - m)] =< f[h + n]}
<1>1. 0 \in G
  <2>1. h + 0 = h /\ h + (n - 0) = h + n /\ h \in h..(h + n) /\ h + n \in h..(h + n)
    OBVIOUS
  <2>2. f[h] \in Nat /\ f[h + n] \in Nat
    BY <2>1
  <2> QED BY <2>1, <2>2
<1>2. ASSUME NEW m \in Nat, m \in G PROVE m + 1 \in G
  <2> SUFFICES ASSUME m + 1 =< n
               PROVE  f[h] =< f[h + (m + 1)] /\ f[h + (n - (m + 1))] =< f[h + n]
    OBVIOUS
  <2>1. f[h] =< f[h + m] /\ f[h + (n - m)] =< f[h + n]
    BY <1>2
  <2> DEFINE u == h + m
             v == h + (n - (m + 1))
  <2>2. /\ u \in h..(h + n - 1) /\ v \in h..(h + n - 1)
        /\ h + (m + 1) = u + 1 /\ h + (n - m) = v + 1
    OBVIOUS
  <2>3. f[u] =< f[u + 1] /\ f[v] =< f[v + 1]
    BY <2>2
  <2>4. /\ f[h] \in Nat /\ f[h + n] \in Nat /\ f[u] \in Nat /\ f[u + 1] \in Nat
        /\ f[v] \in Nat /\ f[v + 1] \in Nat
    BY <2>2
  <2> QED BY <2>1, <2>2, <2>3, <2>4
<1>3. Nat \subseteq G
  <2> HIDE DEF G
  <2> QED BY <1>1, <1>2, NaturalsInduced
<1>4. ASSUME NEW j \in h..(h + n) PROVE f[h] =< f[j] /\ f[j] =< f[h + n]
  <2>1. /\ j - h \in Nat /\ j - h =< n /\ h + (j - h) = j
        /\ n - (j - h) \in Nat /\ n - (j - h) =< n /\ h + (n - (n - (j - h))) = j
    OBVIOUS
  <2>2. j - h \in G /\ n - (j - h) \in G
    BY <1>3, <2>1
  <2> QED BY <2>1, <2>2
<1> QED BY <1>4

\* The instructions of a bundle lie between the first byte of its hint and the last byte of
\* its last member.
LEMMA Extent ==
    ASSUME NEW h \in Nat, NEW d \in Nat,
           NEW a \in [h..(h + d) -> Nat], NEW z \in [h..(h + d) -> Nat],
           \A j \in h..(h + d - 1) : a[j] + z[j] =< a[j + 1]
    PROVE  \A j \in h..(h + d) : a[h] =< a[j] /\ a[j] + z[j] =< a[h + d] + z[h + d]
<1> DEFINE f == [j \in h..(h + d) |-> a[j] + z[j]]
<1>1. \A j \in h..(h + d) : a[j] \in Nat /\ z[j] \in Nat /\ f[j] = a[j] + z[j]
  OBVIOUS
<1>2. f \in [h..(h + d) -> Nat]
  BY <1>1
<1> HIDE DEF f
<1>3. \A j \in h..(h + d - 1) : a[j] =< a[j + 1] /\ f[j] =< f[j + 1]
  <2> SUFFICES ASSUME NEW j \in h..(h + d - 1) PROVE a[j] =< a[j + 1] /\ f[j] =< f[j + 1]
    OBVIOUS
  <2>1. j \in h..(h + d) /\ j + 1 \in h..(h + d)
    OBVIOUS
  <2>2. a[j] + z[j] =< a[j + 1]
    OBVIOUS
  <2>3. /\ a[j] \in Nat /\ z[j] \in Nat /\ f[j] = a[j] + z[j]
        /\ a[j + 1] \in Nat /\ z[j + 1] \in Nat /\ f[j + 1] = a[j + 1] + z[j + 1]
    BY <1>1, <2>1
  <2> QED BY <2>2, <2>3
<1>4. \A j \in h..(h + d) : a[h] =< a[j]
  BY <1>3, Climbing
<1>5. \A j \in h..(h + d) : f[j] =< f[h + d]
  BY <1>2, <1>3, Climbing
<1>6. h + d \in h..(h + d)
  OBVIOUS
<1> QED BY <1>1, <1>4, <1>5, <1>6

\* A bundle straddles a line, by its first and last byte, just when some byte of it lies in another.
LEMMA StraddlesOrFits ==
    ASSUME insns \in Seq(Insn), Ascending(insns), NEW h \in Forming,
           NEW b, b.hint = h, b.members = Members(insns, h)
    PROVE  straddles(b) <=> ~Fits(h)
<1> DEFINE d == DeclaredLen(insns[h])
<1>1. /\ Len(insns) \in Nat /\ h \in Nat /\ h >= 1 /\ d \in 1..4
      /\ Members(insns, h) = (h + 1)..(h + d) /\ (h + 1)..(h + d) \subseteq 1..Len(insns)
  BY FormingHints
<1> HIDE DEF d
<1>2. h + d =< Len(insns) /\ h..(h + d) \subseteq 1..Len(insns)
  <2>1. h + d \in (h + 1)..(h + d)
    BY <1>1
  <2> QED BY <1>1, <2>1
<1> DEFINE a == [j \in h..(h + d) |-> insns[j].addr]
           z == [j \in h..(h + d) |-> insns[j].size]
<1>3. /\ a \in [h..(h + d) -> Nat] /\ z \in [h..(h + d) -> Nat]
      /\ \A j \in h..(h + d) : z[j] \in {2, 4}
  <2>1. \A j \in h..(h + d) : insns[j] \in Insn
    BY <1>2
  <2>2. \A j \in h..(h + d) : insns[j].addr \in Nat /\ insns[j].size \in {2, 4}
    BY <2>1 DEF Insn, InsnFields
  <2> QED BY <2>2
<1>4. \A j \in h..(h + d - 1) : a[j] + z[j] =< a[j + 1]
  <2> SUFFICES ASSUME NEW j \in h..(h + d - 1) PROVE a[j] + z[j] =< a[j + 1]
    OBVIOUS
  <2>1. j \in 1..(Len(insns) - 1) /\ j \in h..(h + d) /\ j + 1 \in h..(h + d)
    BY <1>1, <1>2
  <2>2. insns[j].addr + insns[j].size =< insns[j + 1].addr
    BY <2>1 DEF Ascending
  <2> QED BY <2>1, <2>2
<1> DEFINE last == CHOOSE j \in Members(insns, h) : \A k \in Members(insns, h) : k =< j
<1>5. last = h + d
  <2>1. h + d \in Members(insns, h) /\ \A k \in Members(insns, h) : k =< h + d
    BY <1>1
  <2>2. last \in Members(insns, h) /\ \A k \in Members(insns, h) : k =< last
    BY <2>1
  <2> HIDE DEF last
  <2> QED BY <1>1, <2>1, <2>2
<1>6. straddles(b) <=> insns[h].addr \div LineBytes
                         # (insns[h + d].addr + insns[h + d].size - 1) \div LineBytes
  BY <1>5 DEF straddles
<1>7. /\ h \in h..(h + d) /\ h + d \in h..(h + d)
      /\ a[h] = insns[h].addr /\ a[h + d] = insns[h + d].addr /\ z[h + d] = insns[h + d].size
  BY <1>1
<1>8. Fits(h) <=> \A j \in h..(h + d) : \A x \in 0..(z[j] - 1) :
                     (a[j] + x) \div LineBytes = a[h] \div LineBytes
  <2>1. {h} \cup Members(insns, h) = h..(h + d)
    BY <1>1
  <2>2. \A j \in h..(h + d) : a[j] = insns[j].addr /\ z[j] = insns[j].size
    OBVIOUS
  <2> HIDE DEF a, z
  <2>3. Fits(h) <=> \A j \in h..(h + d) : \A x \in 0..(insns[j].size - 1) :
                       (insns[j].addr + x) \div LineBytes = insns[h].addr \div LineBytes
    BY <2>1, Zenon DEF Fits
  <2>4. ASSUME NEW j \in h..(h + d)
        PROVE  (\A x \in 0..(insns[j].size - 1) :
                  (insns[j].addr + x) \div LineBytes = insns[h].addr \div LineBytes)
               <=> \A x \in 0..(z[j] - 1) : (a[j] + x) \div LineBytes = a[h] \div LineBytes
    BY <1>7, <2>2, Zenon
  <2> QED BY <2>3, <2>4, Zenon
<1> HIDE DEF a, z
<1>9. \A j \in h..(h + d) : a[h] =< a[j] /\ a[j] + z[j] =< a[h + d] + z[h + d]
  <2>1. h \in Nat /\ d \in Nat
    BY <1>1
  <2> QED BY <1>3, <1>4, <2>1, Extent
<1> DEFINE e == a[h + d] + z[h + d] - 1
<1>10. straddles(b) <=> a[h] \div LineBytes # e \div LineBytes
  BY <1>6, <1>7
<1>11. e \in Nat /\ a[h] \in Nat
  <2>1. a[h + d] \in Nat /\ (z[h + d] = 2 \/ z[h + d] = 4) /\ a[h] \in Nat
    BY <1>3, <1>7
  <2> QED BY <2>1
<1>12. ASSUME Fits(h) PROVE a[h] \div LineBytes = e \div LineBytes
  <2>1. z[h + d] - 1 \in 0..(z[h + d] - 1) /\ e = a[h + d] + (z[h + d] - 1)
    <3>1. a[h + d] \in Nat /\ z[h + d] \in Nat \ {0}
      <4>1. \A j \in h..(h + d) : z[j] \in Nat \ {0}
        BY <1>3
      <4> QED BY <1>3, <1>7, <4>1, Zenon
    <3>2. \A u \in Nat \ {0}, s \in Nat : u - 1 \in 0..(u - 1) /\ s + u - 1 = s + (u - 1)
      OBVIOUS
    <3> QED BY <3>1, <3>2, Zenon
  <2>2. (a[h + d] + (z[h + d] - 1)) \div LineBytes = a[h] \div LineBytes
    BY <1>7, <1>8, <1>12, <2>1
  <2> QED BY <2>1, <2>2
<1>13. ASSUME a[h] \div LineBytes = e \div LineBytes PROVE Fits(h)
  <2> SUFFICES ASSUME NEW j \in h..(h + d), NEW x \in 0..(z[j] - 1)
               PROVE  (a[j] + x) \div LineBytes = a[h] \div LineBytes
    BY <1>8
  <2> DEFINE y == a[j] + x
  <2>1. y \in Nat /\ a[h] =< y /\ y =< e
    <3>1. a[j] \in Nat /\ z[j] \in Nat /\ a[h] =< a[j] /\ a[j] + z[j] =< a[h + d] + z[h + d]
      BY <1>3, <1>9
    <3>2. a[h + d] \in Nat /\ z[h + d] \in Nat
      BY <1>3, <1>7
    <3>3. x \in Nat /\ x =< z[j] - 1
      BY <3>1
    <3>4. a[j] + x \in Nat /\ a[h] =< a[j] + x
      <4>1. \A u, v, s \in Nat : u =< v => v + s \in Nat /\ u =< v + s
        OBVIOUS
      <4> QED BY <1>11, <3>1, <3>3, <4>1, Zenon
    <3>5. a[j] + x =< a[j] + z[j] - 1
      BY <3>1, <3>3
    <3>6. a[j] + z[j] - 1 =< e
      <4>1. \A u, v, s, t \in Nat : u + v =< s + t => u + v - 1 =< s + t - 1
        OBVIOUS
      <4> QED BY <3>1, <3>2, <4>1, Zenon
    <3> HIDE DEF e
    <3> QED BY <1>11, <3>1, <3>4, <3>5, <3>6
  <2> HIDE DEF y, e
  <2>2. /\ a[h] \div LineBytes =< y \div LineBytes /\ y \div LineBytes =< e \div LineBytes
        /\ a[h] \div LineBytes \in Nat /\ y \div LineBytes \in Nat
    BY <1>11, <2>1, LinesAscend
  <2>3. y \div LineBytes = a[h] \div LineBytes
    BY <1>13, <2>2
  <2> QED BY <2>3 DEF y
<1> HIDE DEF e
<1> QED BY <1>10, <1>12, <1>13

-----------------------------------------------------------------------------
\* In a listing that keeps to the contract the bundles the checker finds safe are those the
\* fetch unit honours, each found once.
LEMMA SafeIsForming ==
    ASSUME CheckInv, idx > Len(insns), WellFormed
    PROVE  /\ SafeAt = Forming
           /\ SafeBundles \subseteq Found /\ IsFiniteSet(SafeBundles)
           /\ \A k \in SafeBundles :
                /\ bundles[k].hint \in Forming /\ bundles[k].members = Members(insns, bundles[k].hint)
                /\ Cardinality(bundles[k].members) = DeclaredLen(insns[bundles[k].hint])
           /\ \A j, k \in SafeBundles : bundles[j].hint = bundles[k].hint => j = k
<1>1. insns \in Seq(Insn) /\ Len(insns) \in Nat /\ Len(bundles) \in Nat
  BY DEF CheckInv, CheckerTypeOK
<1>2. Hints \subseteq 1..Len(insns) /\ Forming \subseteq Hints
  BY <1>1, FormingHints
<1>3. SafeBundles \subseteq Found /\ IsFiniteSet(SafeBundles)
  <2>1. SafeBundles \subseteq Found
    BY DEF SafeBundles, Found
  <2>2. IsFiniteSet(Found)
    BY <1>1, UptoFinite DEF Found
  <2> QED BY <2>1, <2>2, FS_Subset
<1>4. ASSUME NEW k \in SafeBundles
      PROVE  /\ bundles[k].hint \in Forming /\ bundles[k].members = Members(insns, bundles[k].hint)
             /\ Cardinality(bundles[k].members) = DeclaredLen(insns[bundles[k].hint])
  <2>1. k \in 1..Len(bundles) /\ safe(bundles[k])
    BY DEF SafeBundles
  <2>2. /\ bundles[k].hint \in Hints /\ Live(insns, bundles[k].hint)
        /\ SafeBundle(insns, bundles[k].hint)
        /\ bundles[k].members = Members(insns, bundles[k].hint)
        /\ Cardinality(bundles[k].members) = DeclaredLen(insns[bundles[k].hint])
    BY <2>1, BundleShape
  <2> QED BY <1>2, <2>2 DEF Forming, FormsBundle, SafeBundle
<1>5. ASSUME NEW h \in Forming PROVE h \in SafeAt
  <2>1. h \in Hints /\ h \in 1..Len(insns) /\ idx \in Nat
    BY <1>2 DEF CheckInv, CheckerTypeOK
  <2>2. h < idx
    BY <1>1, <2>1
  <2>3. PICK k \in 1..Len(bundles) : bundles[k] = check_bundle(h, Taken(h))
    BY <2>1, <2>2, EveryHintHasBundle DEF WellFormed
  <2>4. Live(insns, h) /\ SafeBundle(insns, h)
    BY <2>1 DEF Forming, FormsBundle, WellFormed, ContractSafe
  <2>5. safe(bundles[k])
    BY <1>1, <2>1, <2>3, <2>4, VerdictOfBundle
  <2>6. bundles[k].hint = h
    BY <2>3 DEF check_bundle
  <2> QED BY <2>5, <2>6 DEF SafeAt, SafeBundles
<1>6. SafeAt = Forming
  BY <1>4, <1>5 DEF SafeAt
<1>7. ASSUME NEW j \in SafeBundles, NEW k \in SafeBundles, bundles[j].hint = bundles[k].hint
      PROVE  j = k
  BY <1>7, Partitioned DEF BundlesPartition, Part, SafeBundles
<1> QED BY <1>3, <1>4, <1>6, <1>7

\* The tools' sum over bundles is a sum over their hints.
LEMMA SlotsOfBundles ==
    ASSUME ProfileInv, idx > Len(insns), WellFormed, NEW K \in SUBSET SafeBundles
    PROVE  SlotsOf(K) = SlotsBehind({bundles[k].hint : k \in K})
<1> DEFINE H == {bundles[k].hint : k \in K}
           f == [k \in K |-> hist[bundles[k].hint] * Cardinality(bundles[k].members)]
           g == [h \in H |-> hist[h] * DeclaredLen(insns[h])]
           r == [k \in K |-> bundles[k].hint]
<1>1. /\ IsFiniteSet(K)
      /\ \A k \in K : /\ bundles[k].hint \in Forming
                      /\ Cardinality(bundles[k].members) = DeclaredLen(insns[bundles[k].hint])
      /\ \A j, k \in K : bundles[j].hint = bundles[k].hint => j = k
  BY SafeIsForming, FS_Subset DEF ProfileInv
<1>2. \A h \in Forming : hist[h] \in Nat /\ DeclaredLen(insns[h]) \in Nat
  BY ProfileTypes, FormingHints
<1>3. \A h \in Forming : hist[h] * DeclaredLen(insns[h]) \in Nat
  <2>1. \A x, y \in Nat : x * y \in Nat
    OBVIOUS
  <2> QED BY <1>2, <2>1
<1>4. \A k \in K : f[k] = g[r[k]] /\ f[k] \in Nat
  BY <1>1, <1>3
<1>5. \A j, k \in K : r[j] = r[k] => j = k
  BY <1>1
<1>6. {r[k] : k \in K} = H
  OBVIOUS
<1>7. SlotsOf(K) = SumFunctionOnSet(f, K)
  BY DEF SlotsOf, SumFunction
<1>8. SlotsBehind(H) = SumFunctionOnSet(g, H)
  BY DEF SlotsBehind, SumFunction
<1> HIDE DEF f, g, r, H
<1>9. SumFunctionOnSet(f, K) = SumFunctionOnSet(g, {r[k] : k \in K})
  BY <1>1, <1>4, <1>5, SumReindexed
<1>10. SlotsOf(K) = SlotsBehind(H)
  BY <1>6, <1>7, <1>8, <1>9
<1> QED BY <1>10 DEF H

\* Executions of disjoint sets of instructions add up.
LEMMA ExecutionsAddUp ==
    ASSUME ProfileInv, NEW I \in SUBSET 1..Len(insns), NEW J \in SUBSET I
    PROVE  /\ Executions(I) = Executions(J) + Executions(I \ J)
           /\ Executions(I) \in Nat /\ Executions(J) \in Nat /\ Executions(I \ J) \in Nat
<1> DEFINE O == I \ J
<1>1. /\ IsFiniteSet(I) /\ IsFiniteSet(J) /\ IsFiniteSet(O)
      /\ J \cap O = {} /\ J \cup O = I
  BY ProfileTypes, FS_Subset
<1>2. /\ \A x \in I : hist[x] \in Nat
      /\ \A x \in J : hist[x] \in Nat
      /\ \A x \in O : hist[x] \in Nat
      /\ \A x \in J \cup O : hist[x] \in Nat
  BY ProfileTypes
<1> HIDE DEF O
<1>3. SumFunctionOnSet(hist, J \cup O) = SumFunctionOnSet(hist, J) + SumFunctionOnSet(hist, O)
  BY <1>1, <1>2, SumOfTwo
<1>4. /\ SumFunctionOnSet(hist, I) \in Nat /\ SumFunctionOnSet(hist, J) \in Nat
      /\ SumFunctionOnSet(hist, O) \in Nat
  BY <1>1, <1>2, SumIsNat
<1>5. SumFunctionOnSet(hist, I) = SumFunctionOnSet(hist, J) + SumFunctionOnSet(hist, O)
  BY <1>1, <1>3
<1> QED BY <1>4, <1>5 DEF Executions, O

\* The members behind all hints are those behind the ones that fit and behind the others.
LEMMA SlotsAddUp ==
    ASSUME ProfileInv
    PROVE  SlotsBehind(Forming) = SlotsBehind(Fitting) + SlotsBehind(Forming \ Fitting)
<1> DEFINE O == Forming \ Fitting
           f == [h \in Forming |-> hist[h] * DeclaredLen(insns[h])]
           g == [h \in Fitting |-> hist[h] * DeclaredLen(insns[h])]
           o == [h \in O |-> hist[h] * DeclaredLen(insns[h])]
<1>1. /\ IsFiniteSet(Fitting) /\ IsFiniteSet(O)
      /\ Fitting \cap O = {} /\ Fitting \cup O = Forming
  BY ProfileTypes, FormingHints, FS_Subset
<1>2. \A h \in Forming : hist[h] \in Nat /\ DeclaredLen(insns[h]) \in Nat
  BY ProfileTypes, FormingHints
<1>3. \A h \in Forming : hist[h] * DeclaredLen(insns[h]) \in Nat
  <2>1. \A x, y \in Nat : x * y \in Nat
    OBVIOUS
  <2> QED BY <1>2, <2>1
<1>4. /\ \A h \in Fitting \cup O : f[h] \in Nat
      /\ \A h \in Fitting : f[h] = g[h] /\ f[h] \in Nat
      /\ \A h \in O : f[h] = o[h] /\ f[h] \in Nat
  BY <1>1, <1>3
<1>5. /\ SlotsBehind(Forming) = SumFunctionOnSet(f, Forming)
      /\ SlotsBehind(Fitting) = SumFunctionOnSet(g, Fitting)
      /\ SlotsBehind(O) = SumFunctionOnSet(o, O)
  BY DEF SlotsBehind, SumFunction
<1> HIDE DEF f, g, o, O
<1>6. SumFunctionOnSet(f, Fitting \cup O) = SumFunctionOnSet(f, Fitting) + SumFunctionOnSet(f, O)
  BY <1>1, <1>4, SumOfTwo
<1>7. SumFunctionOnSet(f, Fitting) = SumFunctionOnSet(g, Fitting)
  BY <1>1, <1>4, SumAgrees
<1>8. SumFunctionOnSet(f, O) = SumFunctionOnSet(o, O)
  BY <1>1, <1>4, SumAgrees
<1>9. SlotsBehind(Forming) = SlotsBehind(Fitting) + SlotsBehind(O)
  BY <1>1, <1>5, <1>6, <1>7, <1>8
<1> QED BY <1>9 DEF O

\* The bundles the counter calls dead are those of the hints the fetch unit declines.
LEMMA DeadIsDeclined ==
    ASSUME ProfileInv, status = "done", WellFormed
    PROVE  /\ {bundles[k].hint : k \in Straddling} = Forming \ Fitting
           /\ {bundles[k].hint : k \in SafeBundles \ Straddling} = Fitting
<1>1. CheckInv /\ idx > Len(insns) /\ Ascending(insns) /\ insns \in Seq(Insn)
  BY ProfileTypes DEF ProfileInv
<1>2. \A k \in SafeBundles : bundles[k].hint \in Forming
                            /\ (straddles(bundles[k]) <=> ~Fits(bundles[k].hint))
  <2> SUFFICES ASSUME NEW k \in SafeBundles
               PROVE  /\ bundles[k].hint \in Forming
                      /\ straddles(bundles[k]) <=> ~Fits(bundles[k].hint)
    OBVIOUS
  <2>1. /\ bundles[k].hint \in Forming
        /\ bundles[k].members = Members(insns, bundles[k].hint)
    BY <1>1, SafeIsForming
  <2> QED BY <1>1, <2>1, StraddlesOrFits
<1>3. \A h \in Forming : \E k \in SafeBundles : h = bundles[k].hint
  BY <1>1, SafeIsForming DEF SafeAt
<1> QED BY <1>2, <1>3 DEF Straddling, Fitting

\* When the program has ended, no window is open.
LEMMA NothingToCome ==
    ASSUME ProfileInv, status = "done", WellFormed
    PROVE  core.slots = SlotsBehind(Fitting) /\ core.lost = SlotsBehind(Forming \ Fitting)
<1>1. ~Behind
  <2> SUFFICES ASSUME Behind PROVE FALSE
    OBVIOUS
  <2>1. pc > Len(insns) /\ pc \in Members(insns, window) /\ FormsBundle(window)
    BY DEF ProfileInv, Behind
  <2>2. pc \in 1..Len(insns)
    BY <2>1 DEF FormsBundle
  <2> QED BY <2>1, <2>2, ProfileTypes
<1>2. core.slots \in Nat /\ core.lost \in Nat
  BY ProfileTypes DEF CoreType
<1>3. core.slots + 0 = SlotsBehind(Fitting) /\ core.lost + 0 = SlotsBehind(Forming \ Fitting)
  BY <1>1 DEF ProfileInv
<1> QED BY <1>2, <1>3

LEMMA ExactStraddle == ProfileInv => StraddleExact
<1> SUFFICES ASSUME ProfileInv, status = "done", WellFormed
             PROVE  /\ live = core.formed /\ dead = core.declined
                    /\ live_slots = core.slots /\ dead_slots = core.lost
  BY DEF StraddleExact
<1>1. /\ {bundles[k].hint : k \in Straddling} = Forming \ Fitting
      /\ {bundles[k].hint : k \in SafeBundles \ Straddling} = Fitting
  BY DeadIsDeclined
<1>2. core.formed = Executions(Fitting) /\ core.declined = Executions(Forming \ Fitting)
  BY DEF ProfileInv
<1>3. live = core.formed /\ dead = core.declined
  BY <1>1, <1>2 DEF live, dead
<1>4. /\ SlotsOf(Straddling) = SlotsBehind(Forming \ Fitting)
      /\ SlotsOf(SafeBundles \ Straddling) = SlotsBehind(Fitting)
  <2>1. idx > Len(insns) /\ Straddling \subseteq SafeBundles
    BY DEF ProfileInv, Straddling
  <2> QED BY <1>1, <2>1, SlotsOfBundles
<1> QED BY <1>3, <1>4, NothingToCome DEF live_slots, dead_slots

LEMMA ExactProfile == ProfileInv => ProfileExact
<1> SUFFICES ASSUME ProfileInv, status = "done", WellFormed
             PROVE  /\ dyn_payload + core.stray = core.retired
                    /\ issue_cycles_ideal + dead_slots + core.ignored + core.stray = core.cycles
  BY DEF ProfileExact
<1> DEFINE All   == 1..Len(insns)
           Plain == All \ Hints
           MO    == {i \in All : MemberOfOther(i)}
<1>1. insns \in Seq(Insn) /\ CheckInv /\ idx > Len(insns)
  BY ProfileTypes DEF ProfileInv
<1>2. Hints \subseteq All /\ Forming \subseteq Hints /\ Plain \subseteq All
  BY <1>1, FormingHints
<1>3. SafeAt = Forming /\ member_addrs = MO
  <2>1. /\ SafeAt = Forming
        /\ \A k \in SafeBundles : bundles[k].members = Members(insns, bundles[k].hint)
    BY <1>1, SafeIsForming
  <2>2. member_addrs = UNION {Members(insns, h) : h \in Forming}
    BY <2>1 DEF member_addrs, SafeAt
  <2>3. \A h \in Forming : Members(insns, h) \subseteq All
    BY <1>1, FormingHints
  <2>4. \A i : MemberOfOther(i) <=> \E h \in Forming : i \in Members(insns, h)
    BY DEF MemberOfOther, Forming
  <2> HIDE DEF All
  <2> QED BY <2>1, <2>2, <2>3, <2>4
<1>4. MO \subseteq Plain
  <2>1. \A h \in Forming : Hints \cap Members(insns, h) = {}
    BY <1>2 DEF WellFormed, NoNestedHints
  <2>2. \A i \in MO : \E h \in Forming : i \in Members(insns, h)
    BY DEF MemberOfOther, Forming
  <2> QED BY <2>1, <2>2
<1>5. Scalar = Plain \ MO
  BY <1>2, <1>3 DEF Scalar, Hints
<1> HIDE DEF All, Plain, MO
<1>6. /\ Executions(All) = Executions(Hints) + Executions(Plain)
      /\ Executions(Hints) \in Nat /\ Executions(Plain) \in Nat
  BY <1>2, ExecutionsAddUp DEF All, Plain
<1>7. /\ Executions(Plain) = Executions(MO) + Executions(Plain \ MO)
      /\ Executions(MO) \in Nat /\ Executions(Plain \ MO) \in Nat
  BY <1>2, <1>4, ExecutionsAddUp DEF All
<1>8. /\ Executions(Hints) = Executions(Forming) + Executions(Hints \ Forming)
      /\ Executions(Forming) \in Nat /\ Executions(Hints \ Forming) \in Nat
  BY <1>2, ExecutionsAddUp DEF All
<1>9. /\ core.retired = Executions(Plain) /\ core.ignored = Executions(Hints \ Forming)
      /\ core.cycles + core.slots = Executions(All)
      /\ core.slots + core.lost + core.stray = Executions(MO)
  BY DEF ProfileInv, All, Plain, MO
<1>10. /\ core.cycles \in Nat /\ core.slots \in Nat /\ core.lost \in Nat /\ core.stray \in Nat
  BY ProfileTypes DEF CoreType
<1>11. dyn_total = Executions(Plain \ MO) /\ dyn_bundle_execs = Executions(Forming)
  BY <1>3, <1>5 DEF dyn_total, dyn_bundle_execs
<1>12. dyn_in_bundles = core.slots + core.lost
  <2>1. SlotsOf(SafeBundles) = SlotsBehind(Forming)
    BY <1>1, <1>3, SlotsOfBundles DEF SafeAt
  <2> QED BY <2>1, SlotsAddUp, NothingToCome DEF dyn_in_bundles
<1>13. dead_slots = core.lost
  BY ExactStraddle DEF StraddleExact
<1>14. dyn_payload + core.stray = core.retired
  BY <1>7, <1>9, <1>10, <1>11, <1>12 DEF dyn_payload
<1>15. issue_cycles_ideal + dead_slots + core.ignored + core.stray = core.cycles
  <2> DEFINE c == core.cycles
             s == core.slots
             l == core.lost
             t == core.stray
             g == core.ignored
             p == Executions(Plain \ MO)
             f == Executions(Forming)
  <2>1. /\ c \in Nat /\ s \in Nat /\ l \in Nat /\ t \in Nat /\ g \in Nat /\ p \in Nat /\ f \in Nat
    BY <1>7, <1>8, <1>9, <1>10
  <2>2. Executions(Plain) = s + l + t + p /\ Executions(Hints) = f + g
    BY <1>7, <1>8, <1>9
  <2>3. c + s = Executions(Hints) + Executions(Plain)
    BY <1>6, <1>9
  <2>4. c + s = (f + g) + (s + l + t + p)
    BY <2>2, <2>3
  <2>5. issue_cycles_ideal = p + f /\ dead_slots = l
    BY <1>11, <1>13 DEF issue_cycles_ideal
  <2> HIDE DEF c, s, l, t, g, p, f
  <2>6. p + f + l + g + t = c
    BY <2>1, <2>4
  <2>7. issue_cycles_ideal + dead_slots + g + t = c
    BY <2>5, <2>6
  <2> QED BY <2>7 DEF c, g, t
<1> QED BY <1>14, <1>15

(***************************************************************************)
(* The profiler's payload and ideal issue cycles are the core's, up to     *)
(* what ProfileExact names, for every listing in the order of its          *)
(* addresses and every path through it.                                    *)
(***************************************************************************)
THEOREM ProfileIsExact == ProfileSpec => []ProfileExact
BY ExactProfile, ProfileInvariance, PTL

\* The straddle counter's split into live and dead bundles is the fetch unit's.
THEOREM StraddleIsExact == ProfileSpec => []StraddleExact
BY ExactStraddle, ProfileInvariance, PTL

(***************************************************************************)
(* What is proved of the walk from hint to hint holds in the two tools     *)
(* that use it, too.                                                       *)
(***************************************************************************)
THEOREM WalkInTools == ProfileSpec => [](VerdictExact /\ BundlesPartition /\ FiguresAgree)
<1>1. ProfileInv => VerdictExact /\ BundlesPartition /\ FiguresAgree
  BY ExactVerdict, Partitioned, FiguresOfReport DEF ProfileInv
<1> QED BY <1>1, ProfileInvariance, PTL
=============================================================================
