----------------------------- MODULE FiniteSums -----------------------------
(***************************************************************************)
(* Sums of a function over a finite set, SumFunctionOnSet(f, S): what the  *)
(* counters of the readers and of the reassembler are compared with.  The  *)
(* sum is a recursive function over the subsets of S; its laws are proved  *)
(* by induction, in the form that every nonempty set of naturals, or of    *)
(* subsets of a finite set, has a least or minimal member.                 *)
(***************************************************************************)
EXTENDS Integers, FiniteSets, FiniteSetsExt, Functions, FiniteSetTheorems, WellFoundedInduction, TLAPS

-----------------------------------------------------------------------------
(* Minima, maxima and induction. *)

\* The larger of two numbers.
LEMMA MaxPair ==
    ASSUME NEW a \in Int, NEW b \in Int
    PROVE  Max({a, b}) \in Int /\ Max({a, b}) >= a /\ Max({a, b}) >= b /\ Max({a, b}) \in {a, b}
<1> DEFINE m == IF a >= b THEN a ELSE b
<1>1. m \in {a, b} /\ \A y \in {a, b} : m >= y
  OBVIOUS
<1>2. QED
  BY <1>1 DEF Max

\* A nonempty set of natural numbers has a least member.
LEMMA LeastNatural ==
    ASSUME NEW T \in SUBSET Nat, T # {}
    PROVE  \E n \in T : \A m \in T : n <= m
<1> DEFINE R == OpToRel(<, Nat)
<1>1. IsWellFoundedOn(R, Nat)
  BY NatLessThanWellFounded, Zenon
<1>2. PICK n \in T : \A m \in T : <<m, n>> \notin R
  BY <1>1, WFMin
<1>3. \A m \in T : ~(m < n)
  BY <1>2 DEF OpToRel
<1>4. QED
  BY <1>3

\* A nonempty set of subsets of a finite set has a minimal member.
LEMMA MinimalSubset ==
    ASSUME NEW S, IsFiniteSet(S), NEW T, T \subseteq SUBSET S, T # {}
    PROVE  \E a \in T : \A b \in T : b \subseteq a => b = a
<1>1. T \subseteq FiniteSubsetsOf(S)
  BY FS_Subset DEF FiniteSubsetsOf
<1>2. PICK a \in T : \A b \in T : <<b, a>> \notin StrictSubsetOrdering(S)
  BY <1>1, FS_StrictSubsetOrderingWellFounded, WFMin
<1>3. QED
  BY <1>2 DEF StrictSubsetOrdering

Greatest(T, m) == m \in T /\ \A x \in T : m >= x

\* A nonempty finite set of integers has a greatest member.
LEMMA GreatestMember ==
    ASSUME NEW S, IsFiniteSet(S), \A x \in S : x \in Int, S # {}
    PROVE  \E m \in S : \A x \in S : m >= x
<1> DEFINE Bad == {T \in SUBSET S : T # {} /\ ~\E m : Greatest(T, m)}
<1>1. SUFFICES ASSUME Bad # {} PROVE FALSE
  BY DEF Greatest
<1>2. PICK T \in Bad : \A U \in Bad : U \subseteq T => U = T
  <2>1. Bad \subseteq SUBSET S
    OBVIOUS
  <2> HIDE DEF Bad
  <2>2. QED
    BY <1>1, <2>1, MinimalSubset
<1>3. PICK y \in T : TRUE
  BY <1>2
<1>4. T \ {y} \notin Bad /\ T \subseteq Int
  BY <1>2, <1>3
<1>5. CASE T \ {y} = {}
  BY <1>2, <1>3, <1>4, <1>5 DEF Greatest
<1>6. CASE T \ {y} # {}
  <2>1. PICK m : Greatest(T \ {y}, m)
    BY <1>4, <1>6
  <2>2. m \in Int /\ y \in Int
    BY <1>3, <1>4, <2>1 DEF Greatest
  <2>3. Greatest(T, m) \/ Greatest(T, y)
    BY <1>3, <1>4, <2>1, <2>2 DEF Greatest
  <2>4. QED
    BY <1>2, <2>3
<1>7. QED
  BY <1>5, <1>6

-----------------------------------------------------------------------------
(* The recursion behind a sum. *)

SumPick(s) == CHOOSE x \in s : TRUE
SumStep(f, it, s) == IF s = {} THEN 0 ELSE f[SumPick(s)] + it[s \ {SumPick(s)}]
Sums(f, it, D) == it = [s \in D |-> SumStep(f, it, s)]
SumsUpTo(S, n) == {s \in SUBSET S : Cardinality(s) <= n}

LEMMA SumPickMember == ASSUME NEW s, s # {} PROVE SumPick(s) \in s
BY DEF SumPick

\* The definition of a sum, unfolded.
LEMMA SumUnfolds ==
    ASSUME NEW f, NEW S
    PROVE  SumFunctionOnSet(f, S) = (CHOOSE it : Sums(f, it, SUBSET S))[S]
BY DEF SumFunctionOnSet, FoldFunctionOnSet, MapThenFoldSet, Sums, SumStep, SumPick

\* Sums of the subsets up to one size give those of the next size.
LEMMA SumsExtend ==
    ASSUME NEW f, NEW S, IsFiniteSet(S), NEW n \in Nat, NEW g, Sums(f, g, SumsUpTo(S, n))
    PROVE  \E h : Sums(f, h, SumsUpTo(S, n + 1))
<1> DEFINE h == [s \in SumsUpTo(S, n + 1) |-> SumStep(f, g, s)]
<1>1. ASSUME NEW s \in SumsUpTo(S, n + 1), s # {}
      PROVE  s \ {SumPick(s)} \in SumsUpTo(S, n) /\ s \ {SumPick(s)} \in SumsUpTo(S, n + 1)
  <2>1. SumPick(s) \in s /\ s \subseteq S /\ Cardinality(s) <= n + 1
    BY <1>1, SumPickMember DEF SumsUpTo
  <2>2. IsFiniteSet(s)
    BY <2>1, FS_Subset
  <2>3. Cardinality(s \ {SumPick(s)}) = Cardinality(s) - 1 /\ Cardinality(s) \in Nat
    BY <2>1, <2>2, FS_RemoveElement, FS_CardinalityType
  <2>4. QED
    BY <2>1, <2>3 DEF SumsUpTo
<1>2. \A u \in SumsUpTo(S, n) : u \in SumsUpTo(S, n + 1) => h[u] = g[u]
  BY DEF Sums
<1>3. \A s \in SumsUpTo(S, n + 1) : SumStep(f, h, s) = SumStep(f, g, s)
  BY <1>1, <1>2 DEF SumStep
<1>4. Sums(f, h, SumsUpTo(S, n + 1))
  BY <1>3 DEF Sums
<1>5. QED
  BY <1>4

LEMMA SumsExist ==
    ASSUME NEW f, NEW S, IsFiniteSet(S)
    PROVE  \E it : Sums(f, it, SUBSET S)
<1> DEFINE Bad == {n \in Nat : ~\E it : Sums(f, it, SumsUpTo(S, n))}
<1>1. SumsUpTo(S, 0) = {{}}
  <2>1. \A s \in SUBSET S : IsFiniteSet(s) /\ Cardinality(s) \in Nat
    BY FS_Subset, FS_CardinalityType
  <2>2. \A s \in SUBSET S : Cardinality(s) <= 0 <=> s = {}
    BY <2>1, FS_EmptySet
  <2>3. QED
    BY <2>2 DEF SumsUpTo
<1>2. Sums(f, [s \in {{}} |-> 0], SumsUpTo(S, 0))
  BY <1>1 DEF Sums, SumStep
<1>3. Bad = {}
  <2>1. SUFFICES ASSUME Bad # {} PROVE FALSE
    OBVIOUS
  <2>2. PICK n \in Bad : \A m \in Bad : n <= m
    BY <2>1, LeastNatural
  <2>3. n # 0 /\ n \in Nat
    BY <1>2, <2>2
  <2>4. n - 1 \in Nat /\ n - 1 \notin Bad
    BY <2>2, <2>3
  <2>5. PICK g : Sums(f, g, SumsUpTo(S, n - 1))
    BY <2>4
  <2>6. \E h : Sums(f, h, SumsUpTo(S, (n - 1) + 1))
    BY <2>4, <2>5, SumsExtend
  <2>7. (n - 1) + 1 = n
    BY <2>3
  <2>8. QED
    BY <2>2, <2>6, <2>7
<1>4. Cardinality(S) \in Nat /\ SumsUpTo(S, Cardinality(S)) = SUBSET S
  BY FS_CardinalityType, FS_Subset DEF SumsUpTo
<1>5. Cardinality(S) \notin Bad
  BY <1>3
<1>6. \E it : Sums(f, it, SumsUpTo(S, Cardinality(S)))
  BY <1>4, <1>5
<1>7. QED
  BY <1>4, <1>6

SameSummands(f, g, U) == \A x \in U : f[x] = g[x]

\* Two such functions agree on a set where the summands agree.
LEMMA SumsAgree ==
    ASSUME NEW f, NEW g, NEW S, NEW U, NEW h, NEW k,
           IsFiniteSet(S), U \subseteq S, SameSummands(f, g, U),
           Sums(f, h, SUBSET S), Sums(g, k, SUBSET U)
    PROVE  h[U] = k[U]
<1> DEFINE Bad == {V \in SUBSET U : h[V] # k[V]}
<1>1. SUFFICES ASSUME Bad # {} PROVE FALSE
  OBVIOUS
<1>2. IsFiniteSet(U)
  BY FS_Subset
<1>3. PICK V \in Bad : \A W \in Bad : W \subseteq V => W = V
  <2>1. Bad \subseteq SUBSET U
    OBVIOUS
  <2> HIDE DEF Bad
  <2>2. QED
    BY <1>1, <1>2, <2>1, MinimalSubset
<1>4. h[V] = SumStep(f, h, V) /\ k[V] = SumStep(g, k, V)
  BY <1>3 DEF Sums
<1>5. CASE V = {}
  BY <1>3, <1>4, <1>5 DEF SumStep
<1>6. CASE V # {}
  <2>1. SumPick(V) \in V
    BY <1>6, SumPickMember
  <2>2. V \ {SumPick(V)} \notin Bad
    BY <1>3, <2>1
  <2>3. h[V \ {SumPick(V)}] = k[V \ {SumPick(V)}] /\ f[SumPick(V)] = g[SumPick(V)]
    BY <1>3, <2>1, <2>2 DEF SameSummands
  <2>4. QED
    BY <1>3, <1>4, <1>6, <2>3 DEF SumStep
<1>7. QED
  BY <1>5, <1>6

-----------------------------------------------------------------------------
(* The laws of sums. *)

\* Nothing sums to zero.
LEMMA SumEmpty == ASSUME NEW f PROVE SumFunctionOnSet(f, {}) = 0
<1>1. PICK it : Sums(f, it, SUBSET {})
  BY SumsExist, FS_EmptySet
<1>2. Sums(f, CHOOSE i : Sums(f, i, SUBSET {}), SUBSET {})
  BY <1>1
<1>3. QED
  BY <1>2, SumUnfolds DEF Sums, SumStep

\* Equal summands give equal sums.
LEMMA SumSame ==
    ASSUME NEW f, NEW g, NEW S, IsFiniteSet(S), \A x \in S : f[x] = g[x]
    PROVE  SumFunctionOnSet(f, S) = SumFunctionOnSet(g, S)
<1> DEFINE F == CHOOSE i : Sums(f, i, SUBSET S)
           G == CHOOSE i : Sums(g, i, SUBSET S)
<1>1. Sums(f, F, SUBSET S) /\ Sums(g, G, SUBSET S)
  BY SumsExist
<1> HIDE DEF F, G
<1>2. F[S] = G[S]
  <2>1. S \in SUBSET S /\ SameSummands(f, g, S)
    BY DEF SameSummands
  <2>2. ASSUME NEW h, NEW k, Sums(f, h, SUBSET S), Sums(g, k, SUBSET S)
        PROVE  h[S] = k[S]
    BY <2>1, <2>2, SumsAgree
  <2>3. QED
    BY <1>1, <2>2
<1> USE DEF F, G
<1>3. QED
  BY <1>2, SumUnfolds

\* The member the recursion takes first.
LEMMA SumFirst ==
    ASSUME NEW f, NEW S, IsFiniteSet(S), S # {}
    PROVE  SumFunctionOnSet(f, S) = f[SumPick(S)] + SumFunctionOnSet(f, S \ {SumPick(S)})
<1> DEFINE R == S \ {SumPick(S)}
           F == CHOOSE i : Sums(f, i, SUBSET S)
           G == CHOOSE i : Sums(f, i, SUBSET R)
<1>1. IsFiniteSet(R)
  BY FS_Subset
<1>2. Sums(f, F, SUBSET S) /\ Sums(f, G, SUBSET R)
  BY <1>1, SumsExist
<1> HIDE DEF F, G
<1>3. F[R] = G[R]
  <2>1. R \in SUBSET S /\ SameSummands(f, f, R)
    BY DEF SameSummands
  <2>2. ASSUME NEW U \in SUBSET S, SameSummands(f, f, U),
               NEW h, NEW k, Sums(f, h, SUBSET S), Sums(f, k, SUBSET U)
        PROVE  h[U] = k[U]
    BY <2>2, SumsAgree
  <2> HIDE DEF R
  <2>3. QED
    BY <1>2, <2>1, <2>2
<1>4. F[S] = f[SumPick(S)] + F[R]
  BY <1>2 DEF Sums, SumStep
<1> USE DEF F, G
<1>5. QED
  BY <1>3, <1>4, SumUnfolds

\* A sum of integers is an integer, of naturals a natural.
LEMMA SumType ==
    ASSUME NEW f, NEW S, IsFiniteSet(S), NEW Typ \in {Nat, Int}, \A x \in S : f[x] \in Typ
    PROVE  SumFunctionOnSet(f, S) \in Typ
<1> DEFINE Bad == {T \in SUBSET S : SumFunctionOnSet(f, T) \notin Typ}
<1>1. SUFFICES ASSUME Bad # {} PROVE FALSE
  OBVIOUS
<1>2. PICK T \in Bad : \A U \in Bad : U \subseteq T => U = T
  <2>1. Bad \subseteq SUBSET S
    OBVIOUS
  <2> HIDE DEF Bad
  <2>2. QED
    BY <1>1, <2>1, MinimalSubset
<1>3. IsFiniteSet(T) /\ T # {}
  <2>1. T \in SUBSET S
    OBVIOUS
  <2>2. T # {}
    BY SumEmpty
  <2>3. QED
    BY <2>1, <2>2, FS_Subset
<1>4. SumPick(T) \in T
  BY <1>3, SumPickMember
<1>5. SumFunctionOnSet(f, T \ {SumPick(T)}) \in Typ /\ f[SumPick(T)] \in Typ
  BY <1>2, <1>4
<1>6. SumFunctionOnSet(f, T) = f[SumPick(T)] + SumFunctionOnSet(f, T \ {SumPick(T)})
  BY <1>3, SumFirst
<1>7. QED
  BY <1>2, <1>5, <1>6

\* Any member may be taken first.
LEMMA SumTake ==
    ASSUME NEW f, NEW S, IsFiniteSet(S), \A x \in S : f[x] \in Int, NEW y \in S
    PROVE  SumFunctionOnSet(f, S) = f[y] + SumFunctionOnSet(f, S \ {y})
<1> DEFINE Sum(T) == SumFunctionOnSet(f, T)
           Bad == {T \in SUBSET S : \E x \in T : Sum(T) # f[x] + Sum(T \ {x})}
<1>1. SUFFICES ASSUME Bad # {} PROVE FALSE
  OBVIOUS
<1>2. PICK T \in Bad : \A U \in Bad : U \subseteq T => U = T
  <2>1. Bad \subseteq SUBSET S
    OBVIOUS
  <2> HIDE DEF Bad
  <2>2. QED
    BY <1>1, <2>1, MinimalSubset
<1>3. PICK x \in T : Sum(T) # f[x] + Sum(T \ {x})
  BY <1>2
<1>4. IsFiniteSet(T) /\ T # {} /\ T \subseteq S
  BY <1>2, <1>3, FS_Subset
<1> DEFINE p == SumPick(T)
<1>5. p \in T /\ Sum(T) = f[p] + Sum(T \ {p})
  BY <1>4, SumPickMember, SumFirst
<1>6. x # p
  BY <1>3, <1>5
<1>7. T \ {p} \notin Bad /\ T \ {x} \notin Bad
  BY <1>2, <1>3, <1>5
<1>8. Sum(T \ {p}) = f[x] + Sum((T \ {p}) \ {x}) /\ Sum(T \ {x}) = f[p] + Sum((T \ {x}) \ {p})
  BY <1>3, <1>4, <1>5, <1>6, <1>7
<1>9. (T \ {p}) \ {x} = (T \ {x}) \ {p}
  OBVIOUS
<1>10. Sum((T \ {p}) \ {x}) \in Int
  <2>1. IsFiniteSet((T \ {p}) \ {x})
    BY <1>4, FS_Subset
  <2>2. QED
    BY <1>4, <2>1, SumType
<1>11. f[x] \in Int /\ f[p] \in Int
  BY <1>3, <1>4, <1>5
<1> DEFINE rest == Sum((T \ {p}) \ {x})
<1>12. Sum(T) = f[p] + (f[x] + rest)
  BY <1>5, <1>8
<1>13. f[x] + Sum(T \ {x}) = f[x] + (f[p] + rest)
  BY <1>8, <1>9
<1>14. f[p] + (f[x] + rest) = f[x] + (f[p] + rest)
  <2>1. rest \in Int
    BY <1>10
  <2> HIDE DEF rest, p
  <2>2. QED
    BY <1>11, <2>1
<1>15. QED
  BY <1>3, <1>12, <1>13, <1>14, Zenon

\* How the summands f over S become g over T: y is new, y is gone, or y has changed.
Joins(f, S, g, T, y) ==
    /\ IsFiniteSet(S) /\ y \notin S /\ T = S \cup {y}
    /\ (\A x \in S : f[x] \in Int /\ g[x] = f[x]) /\ g[y] \in Int
Leaves(f, S, g, T, y) ==
    /\ IsFiniteSet(S) /\ y \in S /\ T = S \ {y}
    /\ (\A x \in S : f[x] \in Int) /\ (\A x \in T : g[x] = f[x])
Changes(f, S, g, y) ==
    /\ IsFiniteSet(S) /\ y \in S
    /\ (\A x \in S : f[x] \in Int) /\ (\A x \in S \ {y} : g[x] = f[x]) /\ g[y] \in Int

\* A new member adds its summand.
LEMMA SumJoins ==
    ASSUME NEW f, NEW S, NEW g, NEW T, NEW y, Joins(f, S, g, T, y)
    PROVE  SumFunctionOnSet(g, T) = g[y] + SumFunctionOnSet(f, S) /\ SumFunctionOnSet(f, S) \in Int
<1>1. IsFiniteSet(S) /\ y \notin S /\ T = S \cup {y} /\ g[y] \in Int
  BY DEF Joins
<1>2. (\A x \in S : f[x] \in Int) /\ (\A x \in S : g[x] = f[x])
  BY DEF Joins
<1>3. IsFiniteSet(T) /\ T \ {y} = S /\ y \in T /\ \A x \in T : g[x] \in Int
  BY <1>1, <1>2, FS_AddElement
<1>4. SumFunctionOnSet(g, T) = g[y] + SumFunctionOnSet(g, S)
  BY <1>3, SumTake
<1>5. SumFunctionOnSet(g, S) = SumFunctionOnSet(f, S)
  BY <1>1, <1>2, SumSame
<1>6. SumFunctionOnSet(f, S) \in Int
  BY <1>1, <1>2, SumType
<1>7. QED
  BY <1>4, <1>5, <1>6

\* A member that leaves takes its summand away.
LEMMA SumLeaves ==
    ASSUME NEW f, NEW S, NEW g, NEW T, NEW y, Leaves(f, S, g, T, y)
    PROVE  SumFunctionOnSet(f, S) = f[y] + SumFunctionOnSet(g, T) /\ SumFunctionOnSet(g, T) \in Int
<1>1. IsFiniteSet(S) /\ y \in S /\ T = S \ {y}
  BY DEF Leaves
<1>2. (\A x \in S : f[x] \in Int) /\ (\A x \in T : g[x] = f[x])
  BY DEF Leaves
<1>3. IsFiniteSet(T)
  BY <1>1, FS_Subset
<1>4. SumFunctionOnSet(f, S) = f[y] + SumFunctionOnSet(f, T)
  BY <1>1, <1>2, SumTake
<1>5. SumFunctionOnSet(g, T) = SumFunctionOnSet(f, T)
  BY <1>2, <1>3, SumSame
<1>6. SumFunctionOnSet(f, T) \in Int
  <2>1. \A x \in T : f[x] \in Int
    BY <1>1, <1>2
  <2>2. QED
    BY <1>3, <2>1, SumType
<1>7. QED
  BY <1>4, <1>5, <1>6

\* A summand that changes leaves the rest of the sum alone.
LEMMA SumChanges ==
    ASSUME NEW f, NEW S, NEW g, NEW y, Changes(f, S, g, y)
    PROVE  \E rest \in Int : SumFunctionOnSet(f, S) = f[y] + rest /\ SumFunctionOnSet(g, S) = g[y] + rest
<1> DEFINE T == S \ {y}
<1>1. Leaves(f, S, g, T, y)
  BY DEF Leaves, Changes
<1>2. Leaves(g, S, g, T, y)
  BY DEF Leaves, Changes
<1> HIDE DEF T
<1>3. QED
  BY <1>1, <1>2, SumLeaves

\* No summand exceeds a sum of naturals.
LEMMA SumCovers ==
    ASSUME NEW f, NEW S, IsFiniteSet(S), \A x \in S : f[x] \in Nat, NEW y \in S
    PROVE  f[y] <= SumFunctionOnSet(f, S)
<1>1. SumFunctionOnSet(f, S) = f[y] + SumFunctionOnSet(f, S \ {y})
  BY SumTake
<1>2. IsFiniteSet(S \ {y})
  BY FS_Subset
<1>3. SumFunctionOnSet(f, S \ {y}) \in Nat
  BY <1>2, SumType
<1>4. QED
  BY <1>1, <1>3

\* Zeros add up to zero.
LEMMA SumZero ==
    ASSUME NEW f, NEW S, IsFiniteSet(S), \A x \in S : f[x] = 0
    PROVE  SumFunctionOnSet(f, S) = 0
<1> DEFINE Bad == {T \in SUBSET S : SumFunctionOnSet(f, T) # 0}
<1>1. SUFFICES ASSUME Bad # {} PROVE FALSE
  OBVIOUS
<1>2. PICK T \in Bad : \A U \in Bad : U \subseteq T => U = T
  <2>1. Bad \subseteq SUBSET S
    OBVIOUS
  <2> HIDE DEF Bad
  <2>2. QED
    BY <1>1, <2>1, MinimalSubset
<1>3. T \subseteq S /\ SumFunctionOnSet(f, T) # 0 /\ T # {}
  <2>1. T \in SUBSET S /\ SumFunctionOnSet(f, T) # 0
    BY <1>2
  <2>2. SumFunctionOnSet(f, {}) = 0
    BY SumEmpty
  <2>3. QED
    BY <2>1, <2>2
<1>4. PICK y \in T : TRUE
  BY <1>3
<1>5. IsFiniteSet(T) /\ \A x \in T : f[x] \in Int
  BY <1>3, FS_Subset
<1>6. SumFunctionOnSet(f, T) = f[y] + SumFunctionOnSet(f, T \ {y})
  BY <1>5, SumTake
<1>7. T \ {y} \notin Bad /\ T \ {y} \subseteq S
  BY <1>2, <1>3
<1>8. SumFunctionOnSet(f, T \ {y}) = 0 /\ f[y] = 0
  BY <1>3, <1>7
<1>9. QED
  BY <1>3, <1>6, <1>8
=============================================================================
