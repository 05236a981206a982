-------------------------- MODULE BundleCheckerProofs -------------------------
(***************************************************************************)
(* Proofs about the bundle checker, for every listing and line size: its   *)
(* inductive invariant, the exactness of its verdict and the attribution   *)
(* of instructions to bundles.  The lemmas about one step are stated of    *)
(* the actions, so that compositions with the checker can cite them.       *)
(***************************************************************************)
EXTENDS BundleChecker, FiniteSetTheorems, SequenceTheorems, TLAPS

-----------------------------------------------------------------------------
\* Induction over the natural numbers, of a set of them.
LEMMA NaturalsInduced ==
    ASSUME NEW G, 0 \in G, \A n \in Nat : n \in G => n + 1 \in G
    PROVE  Nat \subseteq G
<1> SUFFICES ASSUME Nat \ G # {} PROVE FALSE
  OBVIOUS
<1>1. \E m \in Nat \ G : \A n \in Nat \ G : <<n, m>> \notin OpToRel(<, Nat)
  <2>1. Nat \ G \subseteq Nat
    OBVIOUS
  <2> QED BY <2>1, NatLessThanWellFounded, WFMin
<1>2. PICK m \in Nat \ G : \A n \in Nat \ G : <<n, m>> \notin OpToRel(<, Nat)
  BY <1>1
<1>3. m # 0 /\ m - 1 \in Nat /\ (m - 1) + 1 = m
  OBVIOUS
<1>4. m - 1 \in G
  <2>1. <<m - 1, m>> \in OpToRel(<, Nat)
    BY <1>3 DEF OpToRel
  <2> QED BY <1>2, <1>3, <2>1
<1> QED BY <1>3, <1>4

\* Induction over the subsets of a finite set, of a set of them.
LEMMA SubsetsInduced ==
    ASSUME NEW S, IsFiniteSet(S), NEW G, {} \in G,
           \A T \in SUBSET S : \A x \in S \ T : T \in G => T \cup {x} \in G
    PROVE  S \in G
<1> SUFFICES ASSUME S \notin G PROVE FALSE
  OBVIOUS
<1> DEFINE Bad == {T \in SUBSET S : T \notin G}
<1>1. \E T \in Bad : \A U \in Bad : <<U, T>> \notin StrictSubsetOrdering(S)
  <2>1. Bad \subseteq FiniteSubsetsOf(S) /\ Bad # {}
    BY FS_FiniteSubsetsOfFinite
  <2> HIDE DEF Bad
  <2> QED BY <2>1, FS_StrictSubsetOrderingWellFounded, WFMin
<1>2. PICK T \in Bad : \A U \in Bad : <<U, T>> \notin StrictSubsetOrdering(S)
  BY <1>1
<1>3. PICK x \in T : TRUE
  BY <1>2
<1>4. <<T \ {x}, T>> \in StrictSubsetOrdering(S) /\ T \ {x} \in SUBSET S
  <2>1. T \ {x} \subseteq T /\ T \ {x} # T
    BY <1>3
  <2> QED BY <1>2, <2>1 DEF StrictSubsetOrdering
<1>5. T \ {x} \in G
  BY <1>2, <1>4
<1>6. (T \ {x}) \cup {x} = T /\ x \in S \ (T \ {x})
  BY <1>3
<1> QED BY <1>2, <1>4, <1>5, <1>6

-----------------------------------------------------------------------------
(***************************************************************************)
(* Sums of a function over a finite set.  The operator of the library is   *)
(* the value at the whole set of a function on its subsets that takes out  *)
(* one element after the other; such a function exists and its values are  *)
(* the same whatever set it has been defined for.                          *)
(***************************************************************************)
IsSumming(f, D, it) ==
    it = [s \in D |-> IF s = {} THEN 0
                      ELSE f[CHOOSE x \in s : TRUE] + it[s \ {CHOOSE x \in s : TRUE}]]

\* On the subsets of a finite set there is such a function.
LEMMA SummingExists ==
    ASSUME NEW f, NEW S, IsFiniteSet(S)
    PROVE  \E it : IsSumming(f, SUBSET S, it)
<1> DEFINE D(n) == {s \in SUBSET S : Cardinality(s) =< n}
           pick(s) == CHOOSE x \in s : TRUE
           G == {n \in Nat : \E it : IsSumming(f, D(n), it)}
<1>1. \A s \in SUBSET S : IsFiniteSet(s) /\ Cardinality(s) \in Nat
  BY FS_Subset, FS_CardinalityType
<1>2. \A s \in SUBSET S : s # {} => /\ s \ {pick(s)} \in SUBSET S
                                    /\ Cardinality(s \ {pick(s)}) = Cardinality(s) - 1
  BY <1>1, FS_RemoveElement
<1>3. 0 \in G
  <2> DEFINE it == [s \in D(0) |-> 0]
  <2>1. \A s \in D(0) : s = {}
    BY <1>1, FS_EmptySet
  <2>2. IsSumming(f, D(0), it)
    BY <2>1 DEF IsSumming
  <2> QED BY <2>2
<1>4. ASSUME NEW n \in Nat, n \in G PROVE n + 1 \in G
  <2>1. PICK it : IsSumming(f, D(n), it)
    BY <1>4
  <2> DEFINE next == [s \in D(n + 1) |-> IF s = {} THEN 0 ELSE f[pick(s)] + it[s \ {pick(s)}]]
  <2>2. \A s \in D(n) : s \in D(n + 1) /\ next[s] = it[s]
    <3> SUFFICES ASSUME NEW s \in D(n) PROVE s \in D(n + 1) /\ next[s] = it[s]
      OBVIOUS
    <3>1. s \in D(n + 1)
      BY <1>1
    <3>2. it[s] = IF s = {} THEN 0 ELSE f[pick(s)] + it[s \ {pick(s)}]
      <4> HIDE DEF D
      <4> QED BY <2>1 DEF IsSumming
    <3> HIDE DEF D
    <3> QED BY <3>1, <3>2
  <2>3. \A s \in D(n + 1) : s # {} => s \ {pick(s)} \in D(n)
    BY <1>1, <1>2
  <2>4. \A s \in D(n + 1) : s # {} => next[s \ {pick(s)}] = it[s \ {pick(s)}]
    BY <2>2, <2>3
  <2>5. next = [s \in D(n + 1) |-> IF s = {} THEN 0 ELSE f[pick(s)] + next[s \ {pick(s)}]]
    <3> HIDE DEF D, pick
    <3> QED BY <2>4
  <2>6. IsSumming(f, D(n + 1), next)
    <3> HIDE DEF next, D
    <3> QED BY <2>5 DEF IsSumming
  <2> HIDE DEF next, D
  <2> QED BY <2>6
<1>5. Cardinality(S) \in G
  <2>1. Nat \subseteq G
    <3> HIDE DEF G
    <3> QED BY <1>3, <1>4, NaturalsInduced
  <2> QED BY <1>1, <2>1
<1>6. D(Cardinality(S)) = SUBSET S
  BY <1>1, FS_Subset
<1> QED BY <1>5, <1>6

\* The operator's value is that of such a function.
LEMMA SumIsSumming ==
    ASSUME NEW f, NEW S, IsFiniteSet(S)
    PROVE  \E it : IsSumming(f, SUBSET S, it) /\ SumFunctionOnSet(f, S) = it[S]
<1> DEFINE it == CHOOSE i : IsSumming(f, SUBSET S, i)
<1>1. IsSumming(f, SUBSET S, it)
  BY SummingExists
<1>2. SumFunctionOnSet(f, S) = it[S]
  BY DEF SumFunctionOnSet, FoldFunctionOnSet, MapThenFoldSet, IsSumming
<1> QED BY <1>1, <1>2

\* Two such functions agree where both are defined.
LEMMA SummingUnique ==
    ASSUME NEW f, NEW S, IsFiniteSet(S), NEW T \in SUBSET S
    PROVE  \A it, jt : IsSumming(f, SUBSET S, it) /\ IsSumming(f, SUBSET T, jt)
                          => it[T] = jt[T]
<1> SUFFICES ASSUME NEW it, IsSumming(f, SUBSET S, it), NEW jt, IsSumming(f, SUBSET T, jt)
             PROVE  it[T] = jt[T]
  OBVIOUS
<1> DEFINE pick(s) == CHOOSE x \in s : TRUE
           Bad == {s \in SUBSET T : it[s] # jt[s]}
<1> SUFFICES ASSUME Bad # {} PROVE FALSE
  OBVIOUS
<1>1. \E s \in Bad : \A u \in Bad : <<u, s>> \notin StrictSubsetOrdering(T)
  <2>1. Bad \subseteq FiniteSubsetsOf(T)
    BY FS_FiniteSubsetsOfFinite, FS_Subset
  <2> HIDE DEF Bad
  <2> QED BY <2>1, FS_StrictSubsetOrderingWellFounded, WFMin
<1>2. PICK s \in Bad : \A u \in Bad : <<u, s>> \notin StrictSubsetOrdering(T)
  BY <1>1
<1>3. s \in SUBSET T /\ s \in SUBSET S
  BY <1>2
<1>4. s # {}
  <2>1. {} \in SUBSET S /\ {} \in SUBSET T
    OBVIOUS
  <2>2. it[{}] = 0 /\ jt[{}] = 0
    BY <2>1 DEF IsSumming
  <2> QED BY <1>2, <2>2
<1>5. pick(s) \in s
  BY <1>4
<1>6. <<s \ {pick(s)}, s>> \in StrictSubsetOrdering(T) /\ s \ {pick(s)} \in SUBSET T
  <2>1. s \ {pick(s)} \subseteq s /\ s \ {pick(s)} # s
    BY <1>5
  <2> QED BY <1>3, <2>1 DEF StrictSubsetOrdering
<1>7. it[s \ {pick(s)}] = jt[s \ {pick(s)}]
  BY <1>2, <1>6
<1>8. it[s] = f[pick(s)] + it[s \ {pick(s)}] /\ jt[s] = f[pick(s)] + jt[s \ {pick(s)}]
  BY <1>3, <1>4 DEF IsSumming
<1> QED BY <1>2, <1>7, <1>8

\* The empty sum, and a sum with one element taken out, the one that is chosen.
LEMMA SumOfNothing ==
    ASSUME NEW f
    PROVE  SumFunctionOnSet(f, {}) = 0
<1>1. IsFiniteSet({}) /\ {} \in SUBSET {}
  BY FS_EmptySet
<1>2. PICK it : IsSumming(f, SUBSET {}, it) /\ SumFunctionOnSet(f, {}) = it[{}]
  BY <1>1, SumIsSumming
<1> QED BY <1>1, <1>2 DEF IsSumming

LEMMA SumOfSubset ==
    ASSUME NEW f, NEW S, IsFiniteSet(S), NEW it, IsSumming(f, SUBSET S, it), NEW T \in SUBSET S
    PROVE  SumFunctionOnSet(f, T) = it[T]
<1>1. IsFiniteSet(T)
  BY FS_Subset
<1>2. PICK jt : IsSumming(f, SUBSET T, jt) /\ SumFunctionOnSet(f, T) = jt[T]
  BY <1>1, SumIsSumming
<1>3. it[T] = jt[T]
  BY <1>2, SummingUnique
<1> QED BY <1>2, <1>3

LEMMA SumOfChosen ==
    ASSUME NEW f, NEW S, IsFiniteSet(S), S # {}
    PROVE  \E x \in S : SumFunctionOnSet(f, S) = f[x] + SumFunctionOnSet(f, S \ {x})
<1> DEFINE x == CHOOSE y \in S : TRUE
<1>1. PICK it : IsSumming(f, SUBSET S, it)
  BY SummingExists
<1>2. it[S] = f[x] + it[S \ {x}]
  BY <1>1 DEF IsSumming
<1>3. x \in S
  OBVIOUS
<1> HIDE DEF x
<1>4. S \in SUBSET S /\ S \ {x} \in SUBSET S
  OBVIOUS
<1>5. SumFunctionOnSet(f, S) = it[S]
  BY <1>1, <1>4, SumOfSubset
<1>6. SumFunctionOnSet(f, S \ {x}) = it[S \ {x}]
  BY <1>1, <1>4, SumOfSubset
<1> QED BY <1>2, <1>3, <1>5, <1>6

\* A sum of natural numbers is one.
LEMMA SumIsNat ==
    ASSUME NEW f, NEW S, IsFiniteSet(S), \A x \in S : f[x] \in Nat
    PROVE  SumFunctionOnSet(f, S) \in Nat
<1> DEFINE Bad == {T \in SUBSET S : SumFunctionOnSet(f, T) \notin Nat}
<1> SUFFICES ASSUME Bad # {} PROVE FALSE
  OBVIOUS
<1>1. \E T \in Bad : \A U \in Bad : <<U, T>> \notin StrictSubsetOrdering(S)
  <2>1. Bad \subseteq FiniteSubsetsOf(S)
    BY FS_FiniteSubsetsOfFinite
  <2> HIDE DEF Bad
  <2> QED BY <2>1, FS_StrictSubsetOrderingWellFounded, WFMin
<1>2. PICK T \in Bad : \A U \in Bad : <<U, T>> \notin StrictSubsetOrdering(S)
  BY <1>1
<1>3. T # {} /\ IsFiniteSet(T) /\ T \in SUBSET S
  <2>1. SumFunctionOnSet(f, {}) \in Nat
    BY SumOfNothing
  <2> QED BY <1>2, <2>1, FS_Subset
<1>4. PICK x \in T : SumFunctionOnSet(f, T) = f[x] + SumFunctionOnSet(f, T \ {x})
  BY <1>3, SumOfChosen
<1>5. <<T \ {x}, T>> \in StrictSubsetOrdering(S) /\ T \ {x} \in SUBSET S
  <2>1. T \ {x} \subseteq T /\ T \ {x} # T
    OBVIOUS
  <2> QED BY <1>3, <2>1 DEF StrictSubsetOrdering
<1>6. SumFunctionOnSet(f, T \ {x}) \in Nat
  BY <1>2, <1>5
<1> QED BY <1>2, <1>3, <1>4, <1>6

(***************************************************************************)
(* Any element may be taken out of a sum of natural numbers: their order   *)
(* does not matter.                                                        *)
(***************************************************************************)
LEMMA SumWithout ==
    ASSUME NEW f, NEW S, IsFiniteSet(S), \A x \in S : f[x] \in Nat
    PROVE  \A a \in S : SumFunctionOnSet(f, S) = f[a] + SumFunctionOnSet(f, S \ {a})
<1> DEFINE Good(T) == \A b \in T :
               SumFunctionOnSet(f, T) = f[b] + SumFunctionOnSet(f, T \ {b})
           Bad == {T \in SUBSET S : ~Good(T)}
<1> SUFFICES ASSUME Bad # {} PROVE FALSE
  BY Zenon
<1>1. \E T \in Bad : \A U \in Bad : <<U, T>> \notin StrictSubsetOrdering(S)
  <2>1. Bad \subseteq FiniteSubsetsOf(S)
    BY FS_FiniteSubsetsOfFinite
  <2> HIDE DEF Bad
  <2> QED BY <2>1, FS_StrictSubsetOrderingWellFounded, WFMin
<1>2. PICK T \in Bad : \A U \in Bad : <<U, T>> \notin StrictSubsetOrdering(S)
  BY <1>1
<1>3. PICK b \in T : SumFunctionOnSet(f, T) # f[b] + SumFunctionOnSet(f, T \ {b})
  BY <1>2
<1>4. T # {} /\ IsFiniteSet(T) /\ T \in SUBSET S
  BY <1>2, <1>3, FS_Subset
<1>5. PICK c \in T : SumFunctionOnSet(f, T) = f[c] + SumFunctionOnSet(f, T \ {c})
  BY <1>4, SumOfChosen
<1>6. b # c
  BY <1>3, <1>5
<1> DEFINE Tb == T \ {b}
           Tc == T \ {c}
           Tbc == (T \ {b}) \ {c}
<1>7. Good(Tb) /\ Good(Tc)
  <2>1. Tb \subseteq T /\ Tb # T /\ Tc \subseteq T /\ Tc # T /\ Tb \in SUBSET S /\ Tc \in SUBSET S
    BY <1>4
  <2>2. <<Tb, T>> \in StrictSubsetOrdering(S) /\ <<Tc, T>> \in StrictSubsetOrdering(S)
    BY <1>4, <2>1 DEF StrictSubsetOrdering
  <2> QED BY <1>2, <2>1, <2>2
<1>8. SumFunctionOnSet(f, Tb) = f[c] + SumFunctionOnSet(f, Tbc)
  <2>1. c \in Tb /\ Tb \ {c} = Tbc
    BY <1>6
  <2> QED BY <1>7, <2>1
<1>9. SumFunctionOnSet(f, Tc) = f[b] + SumFunctionOnSet(f, Tbc)
  <2>1. b \in Tc /\ Tc \ {b} = Tbc
    BY <1>6
  <2> QED BY <1>7, <2>1
<1>10. f[b] \in Nat /\ f[c] \in Nat /\ SumFunctionOnSet(f, Tbc) \in Nat
  <2>1. IsFiniteSet(Tbc) /\ \A x \in Tbc : f[x] \in Nat
    BY <1>4, FS_Subset
  <2> HIDE DEF Tbc
  <2> QED BY <1>4, <2>1, SumIsNat
<1> HIDE DEF Tb, Tc, Tbc
<1> QED BY <1>3, <1>5, <1>8, <1>9, <1>10 DEF Tb, Tc

\* A sum depends on the values of the function on the set only.
LEMMA SumAgrees ==
    ASSUME NEW f, NEW g, NEW S, IsFiniteSet(S), \A x \in S : f[x] = g[x] /\ f[x] \in Nat
    PROVE  SumFunctionOnSet(f, S) = SumFunctionOnSet(g, S)
<1> DEFINE G == {T \in SUBSET S : SumFunctionOnSet(f, T) = SumFunctionOnSet(g, T)}
<1>1. {} \in G
  BY SumOfNothing
<1>2. ASSUME NEW T \in SUBSET S, NEW x \in S \ T, T \in G PROVE T \cup {x} \in G
  <2> DEFINE U == T \cup {x}
  <2>1. U \in SUBSET S /\ x \in U /\ U \ {x} = T /\ IsFiniteSet(U)
    BY <1>2, FS_Subset
  <2>2. (\A y \in U : f[y] \in Nat) /\ (\A y \in U : g[y] \in Nat) /\ f[x] = g[x]
    BY <2>1
  <2> HIDE DEF U
  <2>3. SumFunctionOnSet(f, U) = f[x] + SumFunctionOnSet(f, T)
    BY <2>1, <2>2, SumWithout
  <2>4. SumFunctionOnSet(g, U) = g[x] + SumFunctionOnSet(g, T)
    BY <2>1, <2>2, SumWithout
  <2> QED BY <1>2, <2>1, <2>2, <2>3, <2>4 DEF U
<1> HIDE DEF G
<1>3. S \in G
  BY <1>1, <1>2, SubsetsInduced
<1> QED BY <1>3 DEF G

\* One more element adds its value.
LEMMA SumWith ==
    ASSUME NEW f, NEW S, IsFiniteSet(S), NEW a, a \notin S, \A x \in S \cup {a} : f[x] \in Nat
    PROVE  SumFunctionOnSet(f, S \cup {a}) = f[a] + SumFunctionOnSet(f, S)
<1> DEFINE U == S \cup {a}
<1>1. IsFiniteSet(U) /\ a \in U /\ U \ {a} = S /\ \A x \in U : f[x] \in Nat
  BY FS_AddElement
<1> HIDE DEF U
<1>2. SumFunctionOnSet(f, U) = f[a] + SumFunctionOnSet(f, U \ {a})
  BY <1>1, SumWithout
<1> QED BY <1>1, <1>2 DEF U

\* The sum over two disjoint sets.
LEMMA SumOfTwo ==
    ASSUME NEW f, NEW S, IsFiniteSet(S), NEW T, IsFiniteSet(T), S \cap T = {},
           \A x \in S \cup T : f[x] \in Nat
    PROVE  SumFunctionOnSet(f, S \cup T) = SumFunctionOnSet(f, S) + SumFunctionOnSet(f, T)
<1> DEFINE G == {U \in SUBSET T :
               SumFunctionOnSet(f, S \cup U) = SumFunctionOnSet(f, S) + SumFunctionOnSet(f, U)}
<1>1. {} \in G
  <2>1. SumFunctionOnSet(f, S) \in Nat
    BY SumIsNat
  <2>2. S \cup {} = S /\ {} \in SUBSET T
    OBVIOUS
  <2> QED BY <2>1, <2>2, SumOfNothing
<1>2. ASSUME NEW U \in SUBSET T, NEW x \in T \ U, U \in G PROVE U \cup {x} \in G
  <2> DEFINE V == S \cup U
  <2>1. /\ IsFiniteSet(U) /\ IsFiniteSet(V) /\ x \notin V /\ x \notin U
        /\ (\A y \in V \cup {x} : f[y] \in Nat) /\ (\A y \in U \cup {x} : f[y] \in Nat)
        /\ V \cup {x} = S \cup (U \cup {x}) /\ U \cup {x} \in SUBSET T
    <3>1. IsFiniteSet(U)
      BY FS_Subset
    <3>2. IsFiniteSet(V)
      BY <3>1, FS_Union
    <3>3. x \notin V /\ x \notin U
      OBVIOUS
    <3>4. V \cup {x} = S \cup (U \cup {x}) /\ U \cup {x} \in SUBSET T
      OBVIOUS
    <3>5. (\A y \in V \cup {x} : f[y] \in Nat) /\ (\A y \in U \cup {x} : f[y] \in Nat)
      OBVIOUS
    <3> QED BY <3>1, <3>2, <3>3, <3>4, <3>5
  <2>2. SumFunctionOnSet(f, V) = SumFunctionOnSet(f, S) + SumFunctionOnSet(f, U)
    BY <1>2
  <2> HIDE DEF V
  <2>3. SumFunctionOnSet(f, V \cup {x}) = f[x] + SumFunctionOnSet(f, V)
    BY <2>1, SumWith
  <2>4. SumFunctionOnSet(f, U \cup {x}) = f[x] + SumFunctionOnSet(f, U)
    BY <2>1, SumWith
  <2>5. f[x] \in Nat /\ SumFunctionOnSet(f, U) \in Nat /\ SumFunctionOnSet(f, S) \in Nat
    <3>1. (\A y \in U : f[y] \in Nat) /\ (\A y \in S : f[y] \in Nat) /\ f[x] \in Nat
      OBVIOUS
    <3> QED BY <2>1, <3>1, SumIsNat
  <2>6. SumFunctionOnSet(f, V \cup {x})
          = SumFunctionOnSet(f, S) + SumFunctionOnSet(f, U \cup {x})
    BY <2>2, <2>3, <2>4, <2>5
  <2> QED BY <2>1, <2>6
<1> HIDE DEF G
<1>3. T \in G
  BY <1>1, <1>2, SubsetsInduced
<1> QED BY <1>3 DEF G

\* Sums are added function by function.
LEMMA SumOfSums ==
    ASSUME NEW f, NEW g, NEW h, NEW S, IsFiniteSet(S),
           \A x \in S : f[x] \in Nat /\ g[x] \in Nat /\ h[x] = f[x] + g[x]
    PROVE  SumFunctionOnSet(h, S) = SumFunctionOnSet(f, S) + SumFunctionOnSet(g, S)
<1> DEFINE G == {T \in SUBSET S :
               SumFunctionOnSet(h, T) = SumFunctionOnSet(f, T) + SumFunctionOnSet(g, T)}
<1>1. {} \in G
  BY SumOfNothing
<1>2. ASSUME NEW T \in SUBSET S, NEW x \in S \ T, T \in G PROVE T \cup {x} \in G
  <2>1. /\ IsFiniteSet(T) /\ x \notin T /\ T \cup {x} \in SUBSET S
        /\ (\A y \in T \cup {x} : f[y] \in Nat) /\ (\A y \in T \cup {x} : g[y] \in Nat)
        /\ (\A y \in T \cup {x} : h[y] \in Nat)
    BY FS_Subset
  <2>2. /\ SumFunctionOnSet(f, T \cup {x}) = f[x] + SumFunctionOnSet(f, T)
        /\ SumFunctionOnSet(g, T \cup {x}) = g[x] + SumFunctionOnSet(g, T)
        /\ SumFunctionOnSet(h, T \cup {x}) = h[x] + SumFunctionOnSet(h, T)
    BY <2>1, SumWith
  <2>3. SumFunctionOnSet(f, T) \in Nat /\ SumFunctionOnSet(g, T) \in Nat
    BY <2>1, SumIsNat
  <2>4. f[x] \in Nat /\ g[x] \in Nat /\ h[x] = f[x] + g[x]
    OBVIOUS
  <2>5. SumFunctionOnSet(h, T) = SumFunctionOnSet(f, T) + SumFunctionOnSet(g, T)
    BY <1>2
  <2>6. SumFunctionOnSet(h, T \cup {x})
          = SumFunctionOnSet(f, T \cup {x}) + SumFunctionOnSet(g, T \cup {x})
    BY <2>2, <2>3, <2>4, <2>5
  <2> QED BY <2>1, <2>6
<1> HIDE DEF G
<1>3. S \in G
  BY <1>1, <1>2, SubsetsInduced
<1> QED BY <1>3 DEF G

-----------------------------------------------------------------------------

\* What an instruction of the listing is.
LEMMA InsnType ==
    ASSUME insns \in Seq(Insn), NEW i \in 1..Len(insns)
    PROVE  /\ insns[i] \in Insn /\ Len(insns) \in Nat
           /\ DeclaredLen(insns[i]) \in 0..MAX_HINT
<1>1. insns[i] \in Insn /\ Len(insns) \in Nat
  OBVIOUS
<1>2. insns[i].hint \in 0..MAX_HINT
  BY <1>1 DEF Insn, InsnFields
<1>3. 0 \in 0..MAX_HINT
  BY DEF MAX_HINT
<1> QED BY <1>1, <1>2, <1>3 DEF DeclaredLen

(***************************************************************************)
(* The members analyse takes are the instructions behind the hint, as many *)
(* as it declares or as are left; they are all it declares exactly when    *)
(* the fetch unit's bundle lies in the listing.                            *)
(***************************************************************************)
LEMMA TakenMembers ==
    ASSUME insns \in Seq(Insn), NEW h \in Hints
    PROVE  /\ h \in 1..Len(insns) /\ DeclaredLen(insns[h]) \in 1..MAX_HINT
           /\ IsFiniteSet(Taken(h)) /\ Cardinality(Taken(h)) \in Nat
           /\ Taken(h) = (h + 1)..(h + Cardinality(Taken(h)))
           /\ h + Cardinality(Taken(h)) =< Len(insns)
           /\ Taken(h) \subseteq Members(insns, h)
           /\ Members(insns, h) \cap 1..Len(insns) = Taken(h)
           /\ Cardinality(Taken(h)) < DeclaredLen(insns[h])
                <=> ~(Members(insns, h) \subseteq 1..Len(insns))
           /\ Members(insns, h) \subseteq 1..Len(insns) => Taken(h) = Members(insns, h)
<1> DEFINE d == DeclaredLen(insns[h])
           n == IF h + d =< Len(insns) THEN d ELSE Len(insns) - h
<1>1. h \in 1..Len(insns) /\ Len(insns) \in Nat /\ d \in 1..MAX_HINT /\ d \in Nat /\ d >= 1
  <2>1. h \in 1..Len(insns) /\ d # 0
    BY DEF Hints
  <2>2. d \in 0..MAX_HINT /\ Len(insns) \in Nat
    BY <2>1, InsnType
  <2> HIDE DEF d
  <2> QED BY <2>1, <2>2 DEF MAX_HINT
<1>2. Members(insns, h) = (h + 1)..(h + d)
  BY DEF Members
<1> HIDE DEF d
<1>3. n \in Nat /\ h + n =< Len(insns)
  BY <1>1
<1>4. Taken(h) = (h + 1)..(h + n)
  BY <1>1, <1>2 DEF Taken
<1>5. IsFiniteSet(Taken(h)) /\ Cardinality(Taken(h)) = n
  <2>1. h + 1 \in Int /\ h + n \in Int
    BY <1>1, <1>3
  <2>2. /\ IsFiniteSet((h + 1)..(h + n))
        /\ Cardinality((h + 1)..(h + n))
             = IF h + 1 > h + n THEN 0 ELSE (h + n) - (h + 1) + 1
    BY <2>1, FS_Interval
  <2>3. (IF h + 1 > h + n THEN 0 ELSE (h + n) - (h + 1) + 1) = n
    BY <1>1, <1>3
  <2> QED BY <1>4, <2>2, <2>3
<1>6. Taken(h) \subseteq Members(insns, h) /\ Members(insns, h) \cap 1..Len(insns) = Taken(h)
  BY <1>1, <1>2 DEF Taken
<1>7. n < d <=> ~(Members(insns, h) \subseteq 1..Len(insns))
  <2>1. h + d \in Members(insns, h)
    BY <1>1, <1>2
  <2> QED BY <1>1, <1>2, <2>1
<1>8. Members(insns, h) \subseteq 1..Len(insns) => Taken(h) = Members(insns, h)
  BY <1>6
<1> HIDE DEF n
<1> QED BY <1>1, <1>3, <1>4, <1>5, <1>6, <1>7, <1>8 DEF d

(***************************************************************************)
(* check_bundle finds no error just when the bundle is one the fetch unit  *)
(* forms and the contract calls safe.  The two tests of the load-store     *)
(* unit add nothing to the lane test.                                      *)
(***************************************************************************)
LEMMA VerdictOfBundle ==
    ASSUME insns \in Seq(Insn), NEW h \in Hints
    PROVE  safe(check_bundle(h, Taken(h))) <=> Live(insns, h) /\ SafeBundle(insns, h)
<1> DEFINE ms == Taken(h)
           d == DeclaredLen(insns[h])
           lsu == {j \in ms : uses_lsu(insns[j])}
           LaneBad == \E j \in ms \ {h + 1} : is_lane0_only(insns[j])
<1>1. /\ h \in 1..Len(insns) /\ d \in Nat /\ d >= 1 /\ IsFiniteSet(ms)
      /\ Cardinality(ms) < d <=> ~(Members(insns, h) \subseteq 1..Len(insns))
      /\ Members(insns, h) \subseteq 1..Len(insns) => ms = Members(insns, h)
  <2>1. d \in 1..MAX_HINT
    BY TakenMembers
  <2>2. d \in Nat /\ d >= 1
    <3> HIDE DEF d
    <3> QED BY <2>1 DEF MAX_HINT
  <2> QED BY <2>2, TakenMembers
<1> HIDE DEF ms, d, lsu, LaneBad
<1>2. safe(check_bundle(h, ms)) <=> FatalErrors(h, ms) = {} /\ MemberErrors(h, ms) = {}
  BY DEF safe, check_bundle
<1>3. FatalErrors(h, ms) = {} <=> d =< MAX_BUNDLE /\ ~(Cardinality(ms) < d)
  <2>1. d \in Nat /\ (~(d > MAX_BUNDLE) <=> d =< MAX_BUNDLE)
    BY <1>1 DEF MAX_BUNDLE
  <2> QED BY <2>1 DEF FatalErrors, d
<1>4. (Cardinality(lsu) > 1 \/ (Cardinality(lsu) = 1 /\ h + 1 \notin lsu)) => LaneBad
  <2>1. IsFiniteSet(lsu) /\ Cardinality(lsu) \in Nat
    BY <1>1, FS_Subset, FS_CardinalityType DEF lsu
  <2>2. lsu \subseteq {h + 1} => Cardinality(lsu) =< 1
    <3>1. IsFiniteSet({h + 1}) /\ Cardinality({h + 1}) = 1
      BY FS_Singleton
    <3> QED BY <3>1, FS_Subset
  <2>3. Cardinality(lsu) = 1 => lsu # {}
    BY <2>1, FS_EmptySet
  <2>4. (Cardinality(lsu) > 1 \/ (Cardinality(lsu) = 1 /\ h + 1 \notin lsu))
           => \E j \in lsu : j # h + 1
    BY <2>1, <2>2, <2>3
  <2>5. \A j \in lsu : j \in ms /\ is_lane0_only(insns[j])
    BY DEF lsu, uses_lsu, is_lane0_only, LSU_CLASSES, LANE0_ONLY
  <2> QED BY <2>4, <2>5 DEF LaneBad
<1>5. MemberErrors(h, ms) = {} <=> ~LaneBad /\ ~SomePair(ms, RAW) /\ ~SomePair(ms, WAW)
  <2> DEFINE Is(e) == \/ e = "lane"     /\ LaneBad
                      \/ e = "lsu_many" /\ Cardinality(lsu) > 1
                      \/ e = "lsu_lane" /\ Cardinality(lsu) = 1 /\ h + 1 \notin lsu
                      \/ e = "raw"      /\ SomePair(ms, RAW)
                      \/ e = "waw"      /\ SomePair(ms, WAW)
  <2>1. MemberErrors(h, ms) = {e \in Kinds : Is(e)}
    BY DEF MemberErrors, lsu, LaneBad
  <2>2. MemberErrors(h, ms) = {} <=> \A e \in Kinds : ~Is(e)
    BY <2>1
  <2>3. ~LaneBad /\ ~SomePair(ms, RAW) /\ ~SomePair(ms, WAW) => \A e \in Kinds : ~Is(e)
    BY <1>4
  <2>4. (\A e \in Kinds : ~Is(e)) => ~Is("lane") /\ ~Is("raw") /\ ~Is("waw")
    BY DEF Kinds
  <2>5. (\A e \in Kinds : ~Is(e)) => ~LaneBad /\ ~SomePair(ms, RAW) /\ ~SomePair(ms, WAW)
    BY <2>4
  <2> QED BY <2>2, <2>3, <2>5
<1>6. CASE ~(Members(insns, h) \subseteq 1..Len(insns))
  BY <1>1, <1>2, <1>3, <1>6 DEF SafeBundle, ms
<1>7. CASE Members(insns, h) \subseteq 1..Len(insns)
  <2>1. ms = Members(insns, h) /\ ~(Cardinality(ms) < d)
    BY <1>1, <1>7
  <2>2. Live(insns, h) <=> d =< MAX_BUNDLE
    BY <1>1 DEF Live, d, MAX_BUNDLE
  <2>3. SafeBundle(insns, h) <=> ~LaneBad /\ ~SomePair(ms, RAW) /\ ~SomePair(ms, WAW)
    BY <1>7, <2>1 DEF SafeBundle, LaneBad, SomePair
  <2> QED BY <1>2, <1>3, <1>5, <2>1, <2>2, <2>3 DEF ms
<1> QED BY <1>6, <1>7

\* The record of a bundle has its type.
LEMMA BundleTyped ==
    ASSUME insns \in Seq(Insn), NEW h \in Hints
    PROVE  check_bundle(h, Taken(h)) \in BundleType
<1> DEFINE ms == Taken(h)
<1>1. /\ h \in Nat /\ DeclaredLen(insns[h]) \in 1..MAX_HINT
      /\ ms \in SUBSET Nat
  BY TakenMembers DEF MAX_HINT
<1> HIDE DEF ms
<1>2. FatalErrors(h, ms) \in SUBSET Kinds
  BY DEF FatalErrors, Kinds
<1>3. MemberErrors(h, ms) \in SUBSET Kinds
  BY Zenon DEF MemberErrors
<1>4. MemberWarnings(h, ms) \in SUBSET Warnings
  BY Zenon DEF MemberWarnings
<1> QED BY <1>1, <1>2, <1>3, <1>4, Zenon DEF check_bundle, BundleType, ms
-----------------------------------------------------------------------------
\* The walk starts in front of the first instruction.
LEMMA CheckInit ==
    ASSUME insns \in Seq(Insn), idx = 1, bundles = <<>>, covered = {}, exit = -1
    PROVE  CheckInv
<1>1. Len(insns) \in Nat /\ Len(bundles) = 0 /\ bundles \in Seq(BundleType)
  OBVIOUS
<1>2. CheckerTypeOK
  BY <1>1 DEF CheckerTypeOK
<1>3. \A h \in Hints : ~(h < idx)
  BY <1>1 DEF Hints
<1> QED BY <1>1, <1>2, <1>3 DEF CheckInv

\* A bundle is judged alike as long as the listing is the same.
LEMMA SameJudgement ==
    ASSUME UNCHANGED insns
    PROVE  /\ Hints' = Hints
           /\ \A h : Taken(h)' = Taken(h)
           /\ \A h, ms : check_bundle(h, ms)' = check_bundle(h, ms)
BY DEF Hints, Taken, check_bundle, FatalErrors, MemberErrors, MemberWarnings, SomePair, Straddles

\* An instruction that is no hint needs no bundle.
LEMMA StepOverInv == CheckInv /\ StepOver => CheckInv'
<1> SUFFICES ASSUME CheckInv, StepOver PROVE CheckInv'
  OBVIOUS
<1>1. /\ UNCHANGED <<insns, bundles, covered, exit>> /\ idx' = idx + 1 /\ exit = -1
      /\ idx \in Nat \ {0} /\ idx =< Len(insns) /\ Len(insns) \in Nat
      /\ idx \notin Hints
  BY DEF StepOver, Analysing, CheckInv, CheckerTypeOK, Hints
<1>2. CheckerTypeOK'
  BY <1>1 DEF CheckInv, CheckerTypeOK
<1>3. Hints' = Hints /\ \A i : Part(i)' = Part(i)
  BY <1>1, SameJudgement DEF Part
<1>4. \A i \in 1..Len(bundles) :
         \E h \in Hints : bundles[i] = check_bundle(h, Taken(h))'
  BY <1>1, SameJudgement DEF CheckInv
<1>5. \A h \in Hints : h < idx + 1 => h < idx
  BY <1>1 DEF Hints
<1>6. \A i \in 1..Len(bundles) : \A x \in Part(i) : x < idx + 1
  <2> SUFFICES ASSUME NEW i \in 1..Len(bundles), NEW x \in Part(i) PROVE x < idx + 1
    OBVIOUS
  <2>1. x < idx /\ bundles[i] \in BundleType
    BY DEF CheckInv, CheckerTypeOK
  <2>2. x \in Nat
    BY <2>1 DEF Part, BundleType
  <2> QED BY <1>1, <2>1, <2>2
<1>7. /\ \A i \in 1..Len(bundles) :
           \A j \in (i + 1)..Len(bundles) : \A x \in Part(i) : x < bundles[j].hint
      /\ covered = UNION {Part(i) : i \in 1..Len(bundles)}
      /\ \A h \in Hints : h < idx + 1 => h \in covered
  BY <1>5 DEF CheckInv
<1>8. idx' =< Len(insns') + 1 /\ exit' = -1
  BY <1>1
<1> QED BY <1>1, <1>2, <1>3, <1>4, <1>6, <1>7, <1>8 DEF CheckInv

(***************************************************************************)
(* The bundle of a hint starts behind all bundles before it, and the walk  *)
(* goes on behind its last member.                                         *)
(***************************************************************************)
LEMMA TakeBundleInv == CheckInv /\ TakeBundle => CheckInv'
<1> SUFFICES ASSUME CheckInv, TakeBundle PROVE CheckInv'
  OBVIOUS
<1> DEFINE ms == Taken(idx)
           c == Cardinality(ms)
           b == check_bundle(idx, ms)
<1>0. PICK n \in Nat : n = Len(bundles)
  BY DEF CheckInv, CheckerTypeOK
<1>1. /\ insns \in Seq(Insn) /\ Len(insns) \in Nat /\ exit = -1
      /\ bundles \in Seq(BundleType)
      /\ idx \in Hints /\ idx \in 1..Len(insns)
  BY DEF TakeBundle, Analysing, CheckInv, CheckerTypeOK, Hints
<1>2. /\ UNCHANGED <<insns, exit>> /\ bundles' = Append(bundles, b)
      /\ covered' = covered \cup ms \cup {idx} /\ idx' = idx + 1 + c
  BY DEF TakeBundle
<1>3. /\ c \in Nat /\ ms = (idx + 1)..(idx + c) /\ idx + c =< Len(insns)
  BY <1>1, TakenMembers
<1>4. b \in BundleType /\ b.hint = idx /\ b.members = ms
  <2>1. b \in BundleType
    BY <1>1, BundleTyped
  <2> QED BY <2>1 DEF check_bundle
<1> HIDE DEF ms, c, b
<1>5. /\ bundles' \in Seq(BundleType) /\ Len(bundles') = n + 1 /\ bundles'[n + 1] = b
      /\ \A i \in 1..n : bundles'[i] = bundles[i]
  BY <1>0, <1>1, <1>2, <1>4, AppendProperties
<1>6. Part(n + 1)' = idx..(idx + c) /\ \A i \in 1..n : Part(i)' = Part(i)
  <2>1. \A i \in 1..n : Part(i)' = Part(i)
    BY <1>5 DEF Part
  <2>2. Part(n + 1)' = ms \cup {idx}
    BY <1>4, <1>5 DEF Part
  <2>3. ms \cup {idx} = idx..(idx + c)
    BY <1>1, <1>3
  <2> QED BY <2>1, <2>2, <2>3
<1>7. ASSUME NEW i \in 1..n
      PROVE  /\ \E h \in Hints : bundles[i] = check_bundle(h, Taken(h))
             /\ \A x \in Part(i) : x \in Nat /\ x < idx
             /\ \A j \in (i + 1)..n : \A x \in Part(i) : x < bundles[j].hint
  <2>1. bundles[i] \in BundleType
    BY <1>0, <1>1
  <2>2. Part(i) \subseteq Nat
    BY <2>1 DEF Part, BundleType
  <2> QED BY <1>0, <2>2 DEF CheckInv
<1>8. CheckerTypeOK'
  <2>1. covered' \subseteq 1..Len(insns)
    BY <1>1, <1>2, <1>3 DEF CheckInv, CheckerTypeOK
  <2>2. idx' \in Nat \ {0}
    BY <1>1, <1>2, <1>3
  <2> QED BY <1>1, <1>2, <1>5, <2>1, <2>2 DEF CheckerTypeOK
<1>9. ASSUME NEW i \in 1..(n + 1)
      PROVE  /\ \E h \in Hints : bundles'[i] = check_bundle(h, Taken(h))
             /\ \A x \in Part(i)' : x < idx'
             /\ \A j \in (i + 1)..(n + 1) : \A x \in Part(i)' : x < bundles'[j].hint
  <2>1. CASE i = n + 1
    <3>1. bundles'[i] = check_bundle(idx, Taken(idx))
      BY <1>5, <2>1 DEF b, ms
    <3>2. Part(i)' = idx..(idx + c)
      BY <1>6, <2>1
    <3>4. \A x \in Part(i)' : x < idx'
      BY <1>1, <1>2, <1>3, <3>2
    <3>3. (i + 1)..(n + 1) = {}
      BY <1>1, <2>1
    <3> QED BY <1>1, <3>1, <3>3, <3>4
  <2>2. CASE i \in 1..n
    <3>1. bundles'[i] = bundles[i] /\ Part(i)' = Part(i)
      BY <1>5, <1>6, <2>2
    <3>2. \A x \in Part(i) : x < idx'
      BY <1>1, <1>2, <1>3, <1>7, <2>2
    <3>3. ASSUME NEW j \in (i + 1)..(n + 1), NEW x \in Part(i) PROVE x < bundles'[j].hint
      <4>1. CASE j = n + 1
        BY <1>4, <1>5, <1>7, <2>2, <4>1
      <4>2. CASE j \in (i + 1)..n
        BY <1>5, <1>7, <2>2, <4>2
      <4> QED BY <1>1, <4>1, <4>2
    <3> QED BY <1>7, <2>2, <3>1, <3>2, <3>3
  <2> QED BY <1>1, <2>1, <2>2
<1>10. covered' = UNION {Part(i)' : i \in 1..(n + 1)}
  <2>1. covered = UNION {Part(i) : i \in 1..n}
    BY <1>0 DEF CheckInv
  <2>2. covered' = covered \cup Part(n + 1)'
    BY <1>1, <1>2, <1>3, <1>6
  <2>3. 1..(n + 1) = 1..n \cup {n + 1}
    BY <1>1
  <2> QED BY <1>6, <2>1, <2>2, <2>3
<1>11. ASSUME NEW h \in Hints, h < idx' PROVE h \in covered'
  <2>1. h \in Nat
    BY DEF Hints
  <2>2. CASE h < idx
    BY <1>2, <2>2 DEF CheckInv
  <2>3. CASE h \in idx..(idx + c)
    BY <1>1, <1>2, <1>3, <2>3
  <2> QED BY <1>1, <1>2, <1>3, <1>11, <2>1, <2>2, <2>3
<1>12. idx' =< Len(insns') + 1 /\ exit' = -1
  BY <1>1, <1>2, <1>3
<1>13. Hints' = Hints /\ \A h : check_bundle(h, Taken(h))' = check_bundle(h, Taken(h))
  BY <1>2, SameJudgement
<1> QED BY <1>5, <1>8, <1>9, <1>10, <1>11, <1>12, <1>13 DEF CheckInv

\* main returns with the verdict on all bundles.
LEMMA ReportInv == CheckInv /\ Report => CheckInv'
<1> SUFFICES ASSUME CheckInv, Report PROVE CheckInv'
  OBVIOUS
<1>1. /\ UNCHANGED <<insns, idx, bundles, covered>> /\ idx > Len(insns)
      /\ exit' = IF \E i \in 1..Len(bundles) : ~safe(bundles[i]) THEN 1 ELSE 0
  BY DEF Report
<1>2. CheckerTypeOK'
  BY <1>1 DEF CheckInv, CheckerTypeOK
<1>3. Hints' = Hints /\ \A i : Part(i)' = Part(i)
  BY <1>1, SameJudgement DEF Part
<1>4. \A i \in 1..Len(bundles) :
         \E h \in Hints : bundles[i] = check_bundle(h, Taken(h))'
  BY <1>1, SameJudgement DEF CheckInv
<1> QED BY <1>1, <1>2, <1>3, <1>4 DEF CheckInv, safe

\* The invariant only speaks of the checker's variables.
LEMMA CheckStutter == CheckInv /\ UNCHANGED checkerVars => CheckInv'
<1> SUFFICES ASSUME CheckInv, UNCHANGED checkerVars PROVE CheckInv'
  OBVIOUS
<1>1. UNCHANGED <<insns, idx, bundles, covered, exit>>
  BY DEF checkerVars
<1>2. CheckerTypeOK'
  BY <1>1 DEF CheckInv, CheckerTypeOK
<1>3. Hints' = Hints /\ \A i : Part(i)' = Part(i)
  BY <1>1, SameJudgement DEF Part
<1>4. \A i \in 1..Len(bundles) :
         \E h \in Hints : bundles[i] = check_bundle(h, Taken(h))'
  BY <1>1, SameJudgement DEF CheckInv
<1> QED BY <1>1, <1>2, <1>3, <1>4 DEF CheckInv, safe

\* Every step of the checker preserves the invariant.
LEMMA CheckStep == CheckInv /\ [CheckerNext]_checkerVars => CheckInv'
BY StepOverInv, TakeBundleInv, ReportInv, CheckStutter DEF CheckerNext, Exited

(***************************************************************************)
(* The walk from hint to hint keeps its books: bundles one behind the      *)
(* other, no hint overlooked, each bundle judged by check_bundle.          *)
(***************************************************************************)
THEOREM CheckInvariance == CheckerSpec => []CheckInv
<1>1. CheckerInit => CheckInv
  BY CheckInit, ListingsAssumption DEF CheckerInit
<1> QED BY <1>1, CheckStep, PTL DEF CheckerSpec

\* The checker's variables keep their types.
THEOREM CheckerIsTyped == CheckerSpec => []CheckerTypeOK
<1>1. CheckInv => CheckerTypeOK
  BY DEF CheckInv
<1> QED BY <1>1, CheckInvariance, PTL

-----------------------------------------------------------------------------
\* Without nested hints every hint of the listing has a bundle of its own.
LEMMA EveryHintHasBundle ==
    ASSUME CheckInv, NoNestedHints, NEW h \in Hints, h < idx
    PROVE  \E i \in 1..Len(bundles) : bundles[i] = check_bundle(h, Taken(h))
<1>1. PICK i \in 1..Len(bundles) : h \in Part(i)
  BY DEF CheckInv
<1>2. /\ insns \in Seq(Insn)
      /\ \E g \in Hints : bundles[i] = check_bundle(g, Taken(g))
  BY DEF CheckInv, CheckerTypeOK
<1>3. bundles[i] = check_bundle(bundles[i].hint, Taken(bundles[i].hint))
      /\ bundles[i].hint \in Hints /\ bundles[i].members = Taken(bundles[i].hint)
  BY <1>2 DEF check_bundle
<1>4. h \notin Taken(bundles[i].hint)
  BY <1>2, <1>3, TakenMembers DEF NoNestedHints
<1>5. h = bundles[i].hint
  BY <1>1, <1>3, <1>4 DEF Part
<1> QED BY <1>3, <1>5

\* The verdict is exact in every state of the invariant.
LEMMA ExactVerdict == CheckInv => VerdictExact
<1> SUFFICES ASSUME CheckInv, exit # -1, NoNestedHints
             PROVE  exit = 0 <=> \A h \in Hints : Live(insns, h) /\ SafeBundle(insns, h)
  BY DEF VerdictExact
<1>1. /\ insns \in Seq(Insn) /\ Len(insns) \in Nat /\ idx \in Nat /\ idx > Len(insns)
      /\ exit = 0 <=> \A i \in 1..Len(bundles) : safe(bundles[i])
  BY DEF CheckInv, CheckerTypeOK
<1>2. \A h \in Hints : h < idx
  BY <1>1 DEF Hints
<1>3. ASSUME \A i \in 1..Len(bundles) : safe(bundles[i]), NEW h \in Hints
      PROVE  Live(insns, h) /\ SafeBundle(insns, h)
  BY <1>1, <1>2, <1>3, EveryHintHasBundle, VerdictOfBundle
<1>4. ASSUME \A h \in Hints : Live(insns, h) /\ SafeBundle(insns, h),
             NEW i \in 1..Len(bundles)
      PROVE  safe(bundles[i])
  BY <1>1, <1>4, VerdictOfBundle DEF CheckInv
<1> QED BY <1>1, <1>3, <1>4

(***************************************************************************)
(* The checker neither accepts an unsafe bundle nor rejects a safe one, in *)
(* any listing without nested hints.                                       *)
(***************************************************************************)
THEOREM VerdictIsExact == CheckerSpec => []VerdictExact
BY ExactVerdict, CheckInvariance, PTL

\* No two of the bundles share an instruction.
LEMMA Partitioned == CheckInv => BundlesPartition
<1> SUFFICES ASSUME CheckInv,
                    NEW i \in 1..Len(bundles), NEW j \in 1..Len(bundles), i # j,
                    NEW x \in Part(i), x \in Part(j)
             PROVE  FALSE
  BY DEF BundlesPartition, CheckInv
<1>1. ASSUME NEW a \in 1..Len(bundles), NEW b \in 1..Len(bundles), a < b,
             NEW y \in Part(a), y \in Part(b)
      PROVE  FALSE
  <2>1. b \in (a + 1)..Len(bundles) /\ insns \in Seq(Insn)
    BY <1>1 DEF CheckInv, CheckerTypeOK
  <2>2. y < bundles[b].hint
    BY <2>1 DEF CheckInv
  <2>3. \E g \in Hints : bundles[b] = check_bundle(g, Taken(g))
    BY DEF CheckInv
  <2>4. bundles[b].hint \in Hints /\ bundles[b].members = Taken(bundles[b].hint)
    BY <2>3 DEF check_bundle
  <2> DEFINE h == bundles[b].hint
             c == Cardinality(Taken(h))
  <2>5. h \in Nat /\ c \in Nat /\ Taken(h) = (h + 1)..(h + c)
    <3>1. h \in 1..Len(insns)
      BY <2>4 DEF Hints
    <3> QED BY <2>1, <2>4, <3>1, TakenMembers
  <2>6. y \in Taken(h) \cup {h}
    BY <1>1, <2>4 DEF Part
  <2> HIDE DEF h, c
  <2>7. y \in Int /\ h =< y
    BY <2>5, <2>6
  <2> QED BY <2>2, <2>5, <2>7 DEF h
<1>2. i \in Int /\ j \in Int
  OBVIOUS
<1> QED BY <1>1, <1>2

(***************************************************************************)
(* An instruction is attributed to at most one bundle, nested hints or     *)
(* not, and what is covered is what the bundles hold.                      *)
(***************************************************************************)
THEOREM InstructionsAttributedOnce == CheckerSpec => []BundlesPartition
BY Partitioned, CheckInvariance, PTL

-----------------------------------------------------------------------------
\* The indices of a sequence.
LEMMA UptoFinite ==
    ASSUME NEW n \in Nat
    PROVE  IsFiniteSet(1..n) /\ Cardinality(1..n) = n
<1>1. 1 \in Int /\ n \in Int
  OBVIOUS
<1>2. IsFiniteSet(1..n) /\ Cardinality(1..n) = IF 1 > n THEN 0 ELSE n - 1 + 1
  BY <1>1, FS_Interval
<1> QED BY <1>2

(***************************************************************************)
(* What the figures count.  The bundle of a hint has its members behind    *)
(* it; a safe one has between one and four, those the hint declares.       *)
(***************************************************************************)
LEMMA BundleShape ==
    ASSUME CheckInv, NEW i \in 1..Len(bundles)
    PROVE  /\ bundles[i].hint \in Hints /\ bundles[i].members = Taken(bundles[i].hint)
           /\ IsFiniteSet(bundles[i].members) /\ Cardinality(bundles[i].members) \in Nat
           /\ bundles[i].hint \notin bundles[i].members
           /\ IsFiniteSet(Part(i)) /\ Cardinality(Part(i)) = Cardinality(bundles[i].members) + 1
           /\ safe(bundles[i]) => /\ Live(insns, bundles[i].hint)
                                  /\ SafeBundle(insns, bundles[i].hint)
                                  /\ bundles[i].members = Members(insns, bundles[i].hint)
                                  /\ Cardinality(bundles[i].members) \in 1..MAX_BUNDLE
                                  /\ Cardinality(bundles[i].members)
                                       = DeclaredLen(insns[bundles[i].hint])
<1> DEFINE h == bundles[i].hint
           ms == bundles[i].members
<1>1. insns \in Seq(Insn) /\ \E g \in Hints : bundles[i] = check_bundle(g, Taken(g))
  BY DEF CheckInv, CheckerTypeOK
<1>2. h \in Hints /\ ms = Taken(h) /\ bundles[i] = check_bundle(h, Taken(h))
  BY <1>1 DEF check_bundle
<1> HIDE DEF h, ms
<1>3. /\ IsFiniteSet(ms) /\ Cardinality(ms) \in Nat /\ h \in Nat
      /\ ms = (h + 1)..(h + Cardinality(ms))
      /\ DeclaredLen(insns[h]) \in 1..MAX_HINT
      /\ Members(insns, h) \subseteq 1..Len(insns) => ms = Members(insns, h)
      /\ Cardinality(ms) < DeclaredLen(insns[h]) <=> ~(Members(insns, h) \subseteq 1..Len(insns))
  <2>1. /\ IsFiniteSet(Taken(h)) /\ Cardinality(Taken(h)) \in Nat /\ h \in 1..Len(insns)
        /\ Taken(h) = (h + 1)..(h + Cardinality(Taken(h)))
        /\ DeclaredLen(insns[h]) \in 1..MAX_HINT
        /\ Members(insns, h) \subseteq 1..Len(insns) => Taken(h) = Members(insns, h)
        /\ Cardinality(Taken(h)) < DeclaredLen(insns[h])
             <=> ~(Members(insns, h) \subseteq 1..Len(insns))
    BY <1>1, <1>2, TakenMembers
  <2>2. h \in Nat
    BY <2>1
  <2> QED BY <1>2, <2>1, <2>2, Zenon
<1>4. h \notin ms
  BY <1>3
<1>5. IsFiniteSet(ms \cup {h}) /\ Cardinality(ms \cup {h}) = Cardinality(ms) + 1
  BY <1>3, <1>4, FS_AddElement
<1>6. Part(i) = ms \cup {h}
  BY DEF Part, ms, h
<1>7. ASSUME safe(bundles[i])
      PROVE  /\ Live(insns, h) /\ SafeBundle(insns, h) /\ ms = Members(insns, h)
             /\ Cardinality(ms) \in 1..MAX_BUNDLE /\ Cardinality(ms) = DeclaredLen(insns[h])
  <2>1. Live(insns, h) /\ SafeBundle(insns, h)
    BY <1>1, <1>2, <1>7, VerdictOfBundle
  <2>2. Members(insns, h) \subseteq 1..Len(insns) /\ ms = Members(insns, h)
    BY <1>3, <2>1 DEF SafeBundle
  <2> DEFINE d == DeclaredLen(insns[h])
  <2>3. d \in 1..MAX_BUNDLE /\ d \in Nat
    BY <2>1 DEF Live, MAX_BUNDLE
  <2>4. ms = (h + 1)..(h + d)
    BY <2>2 DEF Members
  <2> HIDE DEF d
  <2>5. Cardinality((h + 1)..(h + d)) = IF h + 1 > h + d THEN 0 ELSE (h + d) - (h + 1) + 1
    BY <1>3, <2>3, FS_Interval
  <2>6. Cardinality(ms) = d
    BY <1>3, <2>3, <2>4, <2>5 DEF MAX_BUNDLE
  <2> QED BY <2>1, <2>2, <2>3, <2>6 DEF d
<1> QED BY <1>2, <1>3, <1>4, <1>5, <1>6, <1>7 DEF h, ms

\* The bundles found so far, and the number of members of each.
Found == 1..Len(bundles)
SizeOf == [i \in Found |-> Cardinality(bundles[i].members)]

\* A bundle's instructions are its members and its hint, so nothing is counted twice.
LEMMA PartsAddUp ==
    ASSUME CheckInv, NEW K \in SUBSET Found
    PROVE  /\ IsFiniteSet(UNION {Part(i) : i \in K})
           /\ SumFunctionOnSet(SizeOf, K) + Cardinality(K)
                = Cardinality(UNION {Part(i) : i \in K})
<1> DEFINE Parts(T) == UNION {Part(i) : i \in T}
           G == {T \in SUBSET K : /\ IsFiniteSet(Parts(T))
                                  /\ SumFunctionOnSet(SizeOf, T) + Cardinality(T)
                                       = Cardinality(Parts(T))}
<1>1. IsFiniteSet(Found) /\ IsFiniteSet(K)
  <2>1. Len(bundles) \in Nat
    BY DEF CheckInv, CheckerTypeOK
  <2>2. IsFiniteSet(Found)
    BY <2>1, FS_Interval DEF Found
  <2> QED BY <2>2, FS_Subset
<1>2. \A i \in Found : /\ SizeOf[i] \in Nat /\ IsFiniteSet(Part(i))
                             /\ Cardinality(Part(i)) = SizeOf[i] + 1
  BY BundleShape DEF SizeOf, Found
<1>3. {} \in G
  <2>1. Parts({}) = {}
    OBVIOUS
  <2> QED BY <2>1, FS_EmptySet, SumOfNothing
<1>4. ASSUME NEW T \in SUBSET K, NEW x \in K \ T, T \in G PROVE T \cup {x} \in G
  <2> DEFINE U == T \cup {x}
  <2>1. Parts(U) = Parts(T) \cup Part(x) /\ Parts(T) \cap Part(x) = {}
    <3>1. \A i \in T : Part(i) \cap Part(x) = {}
      BY Partitioned DEF BundlesPartition, Found
    <3> QED BY <3>1
  <2>2. IsFiniteSet(T) /\ x \notin T /\ x \in Found /\ \A i \in T \cup {x} : SizeOf[i] \in Nat
    BY <1>1, <1>2, FS_Subset
  <2>3. SumFunctionOnSet(SizeOf, U) = SizeOf[x] + SumFunctionOnSet(SizeOf, T)
    BY <2>2, SumWith
  <2>4. Cardinality(U) = Cardinality(T) + 1 /\ Cardinality(T) \in Nat
    BY <2>2, FS_AddElement, FS_CardinalityType
  <2>5. IsFiniteSet(Parts(T)) /\ IsFiniteSet(Part(x))
    BY <1>2, <1>4, <2>2
  <2>6. /\ IsFiniteSet(Parts(T) \cup Part(x))
        /\ Cardinality(Parts(T) \cup Part(x))
             = Cardinality(Parts(T)) + Cardinality(Part(x)) - Cardinality(Parts(T) \cap Part(x))
    <3> HIDE DEF Parts
    <3> QED BY <2>5, FS_Union
  <2>7. Cardinality(Parts(T) \cap Part(x)) = 0
    BY <2>1, FS_EmptySet
  <2>8. SumFunctionOnSet(SizeOf, T) + Cardinality(T) = Cardinality(Parts(T))
    BY <1>4
  <2>9. /\ SumFunctionOnSet(SizeOf, T) \in Nat /\ Cardinality(Parts(T)) \in Nat
        /\ SizeOf[x] \in Nat /\ Cardinality(Part(x)) = SizeOf[x] + 1
    <3>1. \A i \in T : SizeOf[i] \in Nat
      BY <2>2
    <3> HIDE DEF Parts
    <3> QED BY <1>2, <2>2, <2>5, <3>1, SumIsNat, FS_CardinalityType
  <2> HIDE DEF U, Parts
  <2>10. SumFunctionOnSet(SizeOf, U) + Cardinality(U) = Cardinality(Parts(U))
    BY <2>1, <2>3, <2>4, <2>6, <2>7, <2>8, <2>9
  <2>11. U \in SUBSET K /\ IsFiniteSet(Parts(U))
    BY <2>1, <2>6 DEF U
  <2> QED BY <2>10, <2>11 DEF U
<1> HIDE DEF G
<1>5. K \in G
  BY <1>1, <1>3, <1>4, SubsetsInduced
<1> QED BY <1>5 DEF G

(***************************************************************************)
(* A bundle of m members uses lanes 0 to m - 1: summed over safe bundles,  *)
(* the uses of the four lanes are the members.                             *)
(***************************************************************************)
LEMMA LanesAddUp ==
    ASSUME CheckInv, NEW K \in SUBSET SafeBundles
    PROVE  /\ Cardinality(K) \in Nat
           /\ Cardinality(K) =< SumFunctionOnSet(SizeOf, K)
           /\ \A l \in 0..3 : Cardinality({i \in K : SizeOf[i] > l}) \in Nat
           /\ SumFunctionOnSet(SizeOf, K) =
                Cardinality({i \in K : SizeOf[i] > 0}) + Cardinality({i \in K : SizeOf[i] > 1})
                + Cardinality({i \in K : SizeOf[i] > 2}) + Cardinality({i \in K : SizeOf[i] > 3})
<1> DEFINE Uses(T, l) == Cardinality({i \in T : SizeOf[i] > l})
           G == {T \in SUBSET K :
                   /\ Cardinality(T) =< SumFunctionOnSet(SizeOf, T)
                   /\ SumFunctionOnSet(SizeOf, T)
                        = Uses(T, 0) + Uses(T, 1) + Uses(T, 2) + Uses(T, 3)}
<1>1. IsFiniteSet(K) /\ K \subseteq Found
  <2>1. Len(bundles) \in Nat
    BY DEF CheckInv, CheckerTypeOK
  <2>2. IsFiniteSet(Found) /\ K \subseteq Found
    BY <2>1, FS_Interval DEF Found, SafeBundles
  <2> QED BY <2>2, FS_Subset
<1>2. \A i \in K : SizeOf[i] \in 1..4
  BY BundleShape DEF SizeOf, Found, SafeBundles, MAX_BUNDLE
<1>3. \A T \in SUBSET K : \A l \in 0..3 :
         IsFiniteSet({i \in T : SizeOf[i] > l}) /\ Uses(T, l) \in Nat
  <2> SUFFICES ASSUME NEW T \in SUBSET K, NEW l \in 0..3
               PROVE  IsFiniteSet({i \in T : SizeOf[i] > l}) /\ Uses(T, l) \in Nat
    OBVIOUS
  <2>1. {i \in T : SizeOf[i] > l} \in SUBSET K
    OBVIOUS
  <2>2. IsFiniteSet({i \in T : SizeOf[i] > l})
    BY <1>1, <2>1, FS_Subset
  <2> QED BY <2>2, FS_CardinalityType
<1>4. {} \in G
  <2>1. \A l \in 0..3 : {i \in {} : SizeOf[i] > l} = {}
    OBVIOUS
  <2>2. \A l \in 0..3 : Uses({}, l) = 0
    BY <2>1, FS_EmptySet
  <2> HIDE DEF Uses
  <2> QED BY <2>2, FS_EmptySet, SumOfNothing
<1>5. ASSUME NEW T \in SUBSET K, NEW x \in K \ T, T \in G PROVE T \cup {x} \in G
  <2> DEFINE U == T \cup {x}
             m == SizeOf[x]
  <2>1. IsFiniteSet(T) /\ m \in 1..4 /\ \A i \in T \cup {x} : SizeOf[i] \in Nat
    BY <1>1, <1>2, FS_Subset
  <2>2. SumFunctionOnSet(SizeOf, U) = m + SumFunctionOnSet(SizeOf, T)
    BY <2>1, SumWith
  <2>3. /\ SumFunctionOnSet(SizeOf, T) \in Nat /\ Cardinality(T) \in Nat
        /\ Cardinality(U) = Cardinality(T) + 1
    <3>1. \A i \in T : SizeOf[i] \in Nat
      BY <2>1
    <3> QED BY <2>1, <3>1, SumIsNat, FS_CardinalityType, FS_AddElement
  <2>4. \A l \in 0..3 : Uses(U, l) = Uses(T, l) + (IF m > l THEN 1 ELSE 0)
    <3> SUFFICES ASSUME NEW l \in 0..3 PROVE Uses(U, l) = Uses(T, l) + (IF m > l THEN 1 ELSE 0)
      OBVIOUS
    <3> DEFINE V == {i \in T : SizeOf[i] > l}
    <3>1. IsFiniteSet(V) /\ Cardinality(V) = Uses(T, l) /\ Uses(T, l) \in Nat
      BY <1>3
    <3>2. CASE m > l
      <4>1. {i \in U : SizeOf[i] > l} = V \cup {x} /\ x \notin V
        BY <3>2
      <4> HIDE DEF V
      <4>2. Cardinality(V \cup {x}) = Cardinality(V) + 1
        BY <3>1, <4>1, FS_AddElement
      <4> QED BY <3>1, <3>2, <4>1, <4>2
    <3>3. CASE ~(m > l)
      <4>1. {i \in U : SizeOf[i] > l} = V
        BY <3>3
      <4>2. Uses(U, l) = Uses(T, l)
        BY <4>1
      <4> HIDE DEF Uses
      <4> QED BY <3>1, <3>3, <4>2
    <3> QED BY <3>2, <3>3
  <2>5. /\ Uses(T, 0) \in Nat /\ Uses(T, 1) \in Nat /\ Uses(T, 2) \in Nat /\ Uses(T, 3) \in Nat
    <3>1. \A l \in 0..3 : Uses(T, l) \in Nat
      BY <1>3
    <3> HIDE DEF Uses
    <3> QED BY <3>1
  <2>6. /\ Cardinality(T) =< SumFunctionOnSet(SizeOf, T)
        /\ SumFunctionOnSet(SizeOf, T) = Uses(T, 0) + Uses(T, 1) + Uses(T, 2) + Uses(T, 3)
    BY <1>5
  <2>7. U \in SUBSET K
    OBVIOUS
  <2> HIDE DEF Uses, U, m
  <2>8. /\ Uses(U, 0) = Uses(T, 0) + (IF m > 0 THEN 1 ELSE 0)
        /\ Uses(U, 1) = Uses(T, 1) + (IF m > 1 THEN 1 ELSE 0)
        /\ Uses(U, 2) = Uses(T, 2) + (IF m > 2 THEN 1 ELSE 0)
        /\ Uses(U, 3) = Uses(T, 3) + (IF m > 3 THEN 1 ELSE 0)
    BY <2>4
  <2>9. SumFunctionOnSet(SizeOf, U) = Uses(U, 0) + Uses(U, 1) + Uses(U, 2) + Uses(U, 3)
    BY <2>1, <2>2, <2>3, <2>5, <2>6, <2>8
  <2>10. Cardinality(U) =< SumFunctionOnSet(SizeOf, U)
    BY <2>1, <2>2, <2>3, <2>6
  <2>11. U \in G
    BY <2>7, <2>9, <2>10
  <2> QED BY <2>11 DEF U
<1>6. K \in G
  <2> HIDE DEF G
  <2> QED BY <1>1, <1>4, <1>5, SubsetsInduced
<1> QED BY <1>1, <1>3, <1>6, FS_CardinalityType

\* The sums of the report, over the functions the lemmas speak of.
LEMMA ReportSums ==
    ASSUME CheckInv
    PROVE  /\ bundled_insns = SumFunctionOnSet(SizeOf, SafeBundles)
           /\ SumFunction([k \in 0..(MAX_BUNDLE - 1) |-> lane_utilisation(k)])
                = lane_utilisation(0) + lane_utilisation(1) + lane_utilisation(2) + lane_utilisation(3)
           /\ \A k \in 0..3 : lane_utilisation(k) = Cardinality({i \in SafeBundles : SizeOf[i] > k})
           /\ \A k \in 0..3 : lane_utilisation(k) \in Nat
<1>1. IsFiniteSet(SafeBundles) /\ SafeBundles \subseteq Found
  <2>1. Len(bundles) \in Nat
    BY DEF CheckInv, CheckerTypeOK
  <2>2. IsFiniteSet(Found) /\ SafeBundles \subseteq Found
    BY <2>1, FS_Interval DEF Found, SafeBundles
  <2> QED BY <2>2, FS_Subset
<1>2. \A i \in Found : SizeOf[i] = Cardinality(bundles[i].members) /\ SizeOf[i] \in Nat
  BY BundleShape DEF SizeOf, Found
<1>3. bundled_insns = SumFunctionOnSet(SizeOf, SafeBundles)
  <2> DEFINE f == [i \in SafeBundles |-> Cardinality(bundles[i].members)]
  <2>1. \A i \in SafeBundles : f[i] = SizeOf[i] /\ f[i] \in Nat
    BY <1>1, <1>2
  <2>2. DOMAIN f = SafeBundles
    OBVIOUS
  <2>3. bundled_insns = SumFunctionOnSet(f, DOMAIN f)
    BY DEF bundled_insns, SumFunction
  <2> HIDE DEF f
  <2> QED BY <1>1, <2>1, <2>2, <2>3, SumAgrees
<1>4. \A k \in 0..3 : lane_utilisation(k) = Cardinality({i \in SafeBundles : SizeOf[i] > k})
  <2> SUFFICES ASSUME NEW k \in 0..3
               PROVE  lane_utilisation(k) = Cardinality({i \in SafeBundles : SizeOf[i] > k})
    OBVIOUS
  <2>1. {i \in SafeBundles : Cardinality(bundles[i].members) > k} = {i \in SafeBundles : SizeOf[i] > k}
    BY <1>1, <1>2
  <2> QED BY <2>1 DEF lane_utilisation
<1>5. \A k \in 0..3 : lane_utilisation(k) \in Nat
  BY <1>4, LanesAddUp
<1>6. SumFunction([k \in 0..(MAX_BUNDLE - 1) |-> lane_utilisation(k)])
        = lane_utilisation(0) + lane_utilisation(1) + lane_utilisation(2) + lane_utilisation(3)
  <2> DEFINE g == [k \in 0..(MAX_BUNDLE - 1) |-> lane_utilisation(k)]
  <2>1. DOMAIN g = {0, 1, 2, 3} /\ \A k \in {0, 1, 2, 3} : g[k] = lane_utilisation(k) /\ g[k] \in Nat
    BY <1>5 DEF MAX_BUNDLE
  <2> HIDE DEF g
  <2>2. /\ IsFiniteSet({0, 1, 2, 3}) /\ IsFiniteSet({1, 2, 3}) /\ IsFiniteSet({2, 3}) /\ IsFiniteSet({3})
    <3>1. IsFiniteSet(0..3)
      <4>1. 0 \in Int /\ 3 \in Int
        OBVIOUS
      <4> QED BY <4>1, FS_Interval
    <3>2. {0, 1, 2, 3} \subseteq 0..3 /\ {1, 2, 3} \subseteq 0..3 /\ {2, 3} \subseteq 0..3 /\ {3} \subseteq 0..3
      OBVIOUS
    <3> QED BY <3>1, <3>2, FS_Subset
  <2>3. SumFunctionOnSet(g, {0, 1, 2, 3}) = g[0] + SumFunctionOnSet(g, {1, 2, 3})
    <3>1. {0, 1, 2, 3} \ {0} = {1, 2, 3}
      OBVIOUS
    <3> QED BY <2>1, <2>2, <3>1, SumWithout
  <2>4. SumFunctionOnSet(g, {1, 2, 3}) = g[1] + SumFunctionOnSet(g, {2, 3})
    <3>1. {1, 2, 3} \ {1} = {2, 3}
      OBVIOUS
    <3> QED BY <2>1, <2>2, <3>1, SumWithout
  <2>5. SumFunctionOnSet(g, {2, 3}) = g[2] + SumFunctionOnSet(g, {3})
    <3>1. {2, 3} \ {2} = {3}
      OBVIOUS
    <3> QED BY <2>1, <2>2, <3>1, SumWithout
  <2>6. SumFunctionOnSet(g, {3}) = g[3] + SumFunctionOnSet(g, {})
    <3>1. {3} \ {3} = {}
      OBVIOUS
    <3> QED BY <2>1, <2>2, <3>1, SumWithout
  <2>7. SumFunction(g) = g[0] + (g[1] + (g[2] + (g[3] + 0)))
    BY <2>1, <2>3, <2>4, <2>5, <2>6, SumOfNothing DEF SumFunction
  <2> QED BY <2>1, <2>7 DEF g
<1> QED BY <1>3, <1>4, <1>5, <1>6

(***************************************************************************)
(* The report's figures agree, whatever the listing: what is bundled is    *)
(* part of the payload, a safe bundle never costs more cycles than it has  *)
(* members, and each member is counted on one lane.                        *)
(***************************************************************************)
LEMMA FiguresOfReport == CheckInv => FiguresAgree
<1> SUFFICES ASSUME CheckInv PROVE FiguresAgree
  OBVIOUS
<1>1. Len(bundles) \in Nat /\ Len(insns) \in Nat /\ covered \subseteq 1..Len(insns)
  BY DEF CheckInv, CheckerTypeOK
<1>2. IsFiniteSet(Found) /\ Cardinality(Found) = Len(bundles) /\ SafeBundles \subseteq Found
  <2>1. IsFiniteSet(1..Len(bundles)) /\ Cardinality(1..Len(bundles)) = Len(bundles)
    BY <1>1, UptoFinite
  <2> QED BY <2>1 DEF Found, SafeBundles
<1>3. \A i \in Found : SizeOf[i] \in Nat
  BY BundleShape DEF SizeOf, Found
<1> DEFINE all  == SumFunctionOnSet(SizeOf, Found)
           some == SumFunctionOnSet(SizeOf, SafeBundles)
           rest == SumFunctionOnSet(SizeOf, Found \ SafeBundles)
<1>4. all \in Nat /\ some \in Nat /\ rest \in Nat /\ all = some + rest
  <2>1. /\ IsFiniteSet(SafeBundles) /\ IsFiniteSet(Found \ SafeBundles)
        /\ SafeBundles \cup (Found \ SafeBundles) = Found
        /\ SafeBundles \cap (Found \ SafeBundles) = {}
    BY <1>2, FS_Subset
  <2>2. /\ \A i \in SafeBundles : SizeOf[i] \in Nat
        /\ \A i \in Found \ SafeBundles : SizeOf[i] \in Nat
    BY <1>2, <1>3
  <2>3. all \in Nat /\ some \in Nat /\ rest \in Nat
    BY <1>2, <1>3, <2>1, <2>2, SumIsNat
  <2>4. SumFunctionOnSet(SizeOf, SafeBundles \cup (Found \ SafeBundles)) = some + rest
    BY <1>3, <2>1, SumOfTwo
  <2> QED BY <2>1, <2>3, <2>4
<1>5. all + Len(bundles) =< Len(insns)
  <2>1. covered = UNION {Part(i) : i \in Found}
    BY DEF CheckInv, Found
  <2>2. all + Len(bundles) = Cardinality(covered)
    BY <1>2, <2>1, PartsAddUp
  <2>3. IsFiniteSet(1..Len(insns)) /\ Cardinality(1..Len(insns)) = Len(insns)
    BY <1>1, UptoFinite
  <2>4. Cardinality(covered) =< Len(insns)
    BY <1>1, <2>3, FS_Subset
  <2> HIDE DEF all
  <2> QED BY <2>2, <2>4
<1>6. bundled_insns = some
  BY ReportSums
<1>7. Cardinality(SafeBundles) \in Nat /\ Cardinality(SafeBundles) =< some
  BY LanesAddUp
<1> HIDE DEF all, some, rest
<1>8. bundled_insns \in 0..payload
  BY <1>1, <1>4, <1>5, <1>6 DEF payload, hint_count
<1>9. issue_cycles \in 0..payload
  BY <1>1, <1>4, <1>5, <1>6, <1>7 DEF issue_cycles, scalar_insns, payload, hint_count
<1>10. bundled_insns = SumFunction([k \in 0..(MAX_BUNDLE - 1) |-> lane_utilisation(k)])
  <2>1. some = lane_utilisation(0) + lane_utilisation(1) + lane_utilisation(2) + lane_utilisation(3)
    <3>1. SafeBundles \in SUBSET SafeBundles /\ 0 \in 0..3 /\ 1 \in 0..3 /\ 2 \in 0..3 /\ 3 \in 0..3
      OBVIOUS
    <3>2. some = Cardinality({i \in SafeBundles : SizeOf[i] > 0})
                 + Cardinality({i \in SafeBundles : SizeOf[i] > 1})
                 + Cardinality({i \in SafeBundles : SizeOf[i] > 2})
                 + Cardinality({i \in SafeBundles : SizeOf[i] > 3})
      BY <3>1, LanesAddUp DEF some
    <3>3. \A k \in 0..3 : lane_utilisation(k) = Cardinality({i \in SafeBundles : SizeOf[i] > k})
      BY ReportSums
    <3> QED BY <3>1, <3>2, <3>3
  <2> QED BY <1>6, <2>1, ReportSums
<1> QED BY <1>8, <1>9, <1>10 DEF FiguresAgree

(***************************************************************************)
(* FiguresAgree is an invariant, for every listing.                        *)
(***************************************************************************)
THEOREM FiguresAgreeAlways == CheckerSpec => []FiguresAgree
BY FiguresOfReport, CheckInvariance, PTL
=============================================================================
