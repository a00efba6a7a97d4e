----------------------------- MODULE FiniteTheorems ----------------------------
(***************************************************************************)
(* What the proofs of several modules need of finite sets and lists.       *)
(*                                                                         *)
(* Sums of a function over a finite set (SumFunctionOnSet and SumFunction  *)
(* of the community modules), for every finite set.  A sum is a fold that  *)
(* takes the elements in the order CHOOSE gives them; what is proved here  *)
(* is that the fold is defined and that the order does not matter.         *)
(*                                                                         *)
(* Rows in the order of their starts, and lists that are joined.           *)
(*                                                                         *)
(* Induction over finite sets goes by a least counterexample               *)
(* (LeastSubset): a set of counterexamples is a set, and no operator has   *)
(* to be instantiated.                                                     *)
(***************************************************************************)
EXTENDS Integers, FiniteSetsExt, FiniteSetTheorems, SequenceTheorems, TLAPS

-----------------------------------------------------------------------------
(* The fold is defined *)

AnyOf(s) == CHOOSE x \in s : TRUE

SumStep(f, g, s) == IF s = {} THEN 0 ELSE f[AnyOf(s)] + g[s \ {AnyOf(s)}]

\* g gives the sum of f over each subset of S.
Sums(f, g, S) == g = [s \in SUBSET S |-> SumStep(f, g, s)]

PartialSums(f, S) == CHOOSE g : Sums(f, g, S)

\* The community modules' sum is the last of these partial sums.
LEMMA SumIsPartial ==
  ASSUME NEW f, NEW S
  PROVE SumFunctionOnSet(f, S) = PartialSums(f, S)[S]
BY DEF SumFunctionOnSet, FoldFunctionOnSet, MapThenFoldSet, PartialSums, Sums, SumStep, AnyOf

\* A set of subsets of a finite set that is not empty has a least member.
LEMMA LeastSubset ==
  ASSUME NEW S, IsFiniteSet(S), NEW Bad \in SUBSET (SUBSET S), Bad # {}
  PROVE  \E T \in Bad : \A U \in SUBSET T : U # T => U \notin Bad
<1>1. Bad \subseteq FiniteSubsetsOf(S)
  BY FS_FiniteSubsetsOfFinite
<1>2. PICK T \in Bad : \A U \in Bad : ~ (<<U, T>> \in StrictSubsetOrdering(S))
  BY <1>1, FS_StrictSubsetOrderingWellFounded, WFMin
<1>3. ASSUME NEW U \in SUBSET T, U # T, U \in Bad
      PROVE  FALSE
  BY <1>2, <1>3 DEF StrictSubsetOrdering
<1>4. QED
  BY <1>3

\* AnyOf takes an element.
LEMMA AnyOfIsElement ==
  ASSUME NEW s, s # {}
  PROVE  AnyOf(s) \in s /\ s \ {AnyOf(s)} \in SUBSET s /\ s \ {AnyOf(s)} # s
BY DEF AnyOf

\* What sums f up to T and what sums g up to U agree where f and g do.
LEMMA SumsAreUnique ==
  ASSUME NEW f, NEW g, NEW T, NEW U, NEW G, NEW H, Sums(f, G, T), Sums(g, H, U),
         NEW S \in SUBSET (T \intersect U), IsFiniteSet(S), \A x \in S : f[x] = g[x]
  PROVE  G[S] = H[S]
<1> SUFFICES ASSUME G[S] # H[S]
             PROVE  FALSE
  OBVIOUS
<1> DEFINE Bad == {s \in SUBSET S : G[s] # H[s]}
<1>1. PICK s \in Bad : \A r \in SUBSET s : r # s => r \notin Bad
  <2>1. Bad \in SUBSET (SUBSET S) /\ Bad # {}
    OBVIOUS
  <2> HIDE DEF Bad
  <2>2. QED
    BY <2>1, LeastSubset
<1>2. G[s] = SumStep(f, G, s) /\ H[s] = SumStep(g, H, s)
  BY DEF Sums
<1>3. s # {}
  BY <1>2 DEF SumStep
<1>4. /\ AnyOf(s) \in S /\ f[AnyOf(s)] = g[AnyOf(s)]
      /\ G[s \ {AnyOf(s)}] = H[s \ {AnyOf(s)}]
  BY <1>1, <1>3, AnyOfIsElement
<1>5. QED
  BY <1>2, <1>3, <1>4 DEF SumStep

\* The sums over the subsets of a finite set exist.
LEMMA SumsExist ==
  ASSUME NEW f, NEW S, IsFiniteSet(S)
  PROVE  Sums(f, PartialSums(f, S), S)
<1> DEFINE Bad == {T \in SUBSET S : ~ \E g : Sums(f, g, T)}
<1>1. ASSUME Bad # {}
      PROVE  FALSE
  <2>1. PICK T \in Bad : \A U \in SUBSET T : U # T => U \notin Bad
    <3>1. Bad \in SUBSET (SUBSET S)
      OBVIOUS
    <3> HIDE DEF Bad
    <3>2. QED
      BY <1>1, <3>1, LeastSubset
  <2> DEFINE V(s) == PartialSums(f, s)[s]
             h == [s \in SUBSET T |->
                      IF s = {} THEN 0 ELSE f[AnyOf(s)] + V(s \ {AnyOf(s)})]
  <2>2. ASSUME NEW s \in SUBSET T, s # T
        PROVE  Sums(f, PartialSums(f, s), s)
    BY <2>1, <2>2 DEF PartialSums
  <2>3. ASSUME NEW r \in SUBSET T, r # T
        PROVE  h[r] = V(r)
    <3>1. PartialSums(f, r)[r] = SumStep(f, PartialSums(f, r), r)
      BY <2>2, <2>3 DEF Sums
    <3>2. CASE r = {}
      BY <3>1, <3>2 DEF SumStep
    <3>3. CASE r # {}
      <4> DEFINE rest == r \ {AnyOf(r)}
      <4>1. rest \in SUBSET T /\ rest # T /\ rest \in SUBSET r
        BY <3>3, AnyOfIsElement
      <4>2. IsFiniteSet(rest)
        BY <4>1, FS_Subset
      <4>3. Sums(f, PartialSums(f, r), r) /\ Sums(f, PartialSums(f, rest), rest)
        BY <2>2, <2>3, <4>1
      <4>4. PartialSums(f, r)[rest] = PartialSums(f, rest)[rest]
        BY <4>1, <4>2, <4>3, SumsAreUnique
      <4>5. QED
        BY <3>1, <3>3, <4>4 DEF SumStep
    <3>4. QED
      BY <3>2, <3>3
  <2>4. ASSUME NEW s \in SUBSET T
        PROVE  h[s] = SumStep(f, h, s)
    <3>1. CASE s = {}
      BY <3>1 DEF SumStep
    <3>2. CASE s # {}
      <4>1. s \ {AnyOf(s)} \in SUBSET T /\ s \ {AnyOf(s)} # T
        BY <3>2, AnyOfIsElement
      <4>2. h[s \ {AnyOf(s)}] = V(s \ {AnyOf(s)})
        BY <2>3, <4>1
      <4>3. h[s] = f[AnyOf(s)] + V(s \ {AnyOf(s)})
        BY <3>2
      <4> HIDE DEF h
      <4>4. QED
        BY <3>2, <4>2, <4>3 DEF SumStep
    <3>3. QED
      BY <3>1, <3>2
  <2>5. Sums(f, h, T)
    BY <2>4 DEF Sums
  <2>6. QED
    BY <2>5
<1>2. \E g : Sums(f, g, S)
  BY <1>1
<1>3. QED
  BY <1>2 DEF PartialSums

-----------------------------------------------------------------------------
(* Sums *)

\* The sum of a table is that over its rows.
LEMMA SumOfTable ==
  ASSUME NEW S, NEW f, DOMAIN f = S
  PROVE  SumFunction(f) = SumFunctionOnSet(f, S)
BY DEF SumFunction

\* Only what is summed matters.
LEMMA SameSum ==
  ASSUME NEW f, NEW g, NEW S, IsFiniteSet(S), \A x \in S : f[x] = g[x]
  PROVE  SumFunctionOnSet(f, S) = SumFunctionOnSet(g, S)
<1>1. Sums(f, PartialSums(f, S), S) /\ Sums(g, PartialSums(g, S), S)
  BY SumsExist
<1>2. QED
  BY <1>1, SumsAreUnique, SumIsPartial

\* Nothing sums to zero.
LEMMA SumOfNone ==
  ASSUME NEW f
  PROVE  SumFunctionOnSet(f, {}) = 0
<1>1. Sums(f, PartialSums(f, {}), {})
  BY SumsExist, FS_EmptySet
<1>2. PartialSums(f, {})[{}] = SumStep(f, PartialSums(f, {}), {})
  BY <1>1 DEF Sums
<1>3. QED
  BY <1>2, SumIsPartial DEF SumStep

\* The element the fold takes first.
LEMMA SumTakesPick ==
  ASSUME NEW f, NEW S, IsFiniteSet(S), S # {}
  PROVE  SumFunctionOnSet(f, S) = f[AnyOf(S)] + SumFunctionOnSet(f, S \ {AnyOf(S)})
<1> DEFINE rest == S \ {AnyOf(S)}
<1>1. rest \in SUBSET S /\ IsFiniteSet(rest)
  BY FS_Subset
<1>2. Sums(f, PartialSums(f, S), S) /\ Sums(f, PartialSums(f, rest), rest)
  BY <1>1, SumsExist
<1>3. PartialSums(f, S)[S] = SumStep(f, PartialSums(f, S), S)
  BY <1>2 DEF Sums
<1>4. PartialSums(f, S)[rest] = PartialSums(f, rest)[rest]
  BY <1>1, <1>2, SumsAreUnique
<1>5. QED
  BY <1>3, <1>4, SumIsPartial DEF SumStep

\* A sum of integers is an integer.
LEMMA SumIsInt ==
  ASSUME NEW f, NEW S, IsFiniteSet(S), \A x \in S : f[x] \in Int
  PROVE  SumFunctionOnSet(f, S) \in Int
<1> SUFFICES ASSUME SumFunctionOnSet(f, S) \notin Int
             PROVE  FALSE
  OBVIOUS
<1> DEFINE Bad == {T \in SUBSET S : SumFunctionOnSet(f, T) \notin Int}
<1>1. PICK T \in Bad : \A U \in SUBSET T : U # T => U \notin Bad
  <2>1. Bad \in SUBSET (SUBSET S) /\ Bad # {}
    OBVIOUS
  <2> HIDE DEF Bad
  <2>2. QED
    BY <2>1, LeastSubset
<1>2. T # {} /\ IsFiniteSet(T) /\ T \in SUBSET S
  <2>1. SumFunctionOnSet(f, {}) \in Int
    BY SumOfNone
  <2>2. QED
    BY <2>1, FS_Subset
<1>3. f[AnyOf(T)] \in Int /\ SumFunctionOnSet(f, T \ {AnyOf(T)}) \in Int
  BY <1>1, <1>2, AnyOfIsElement
<1>4. SumFunctionOnSet(f, T) \in Int
  BY <1>2, <1>3, SumTakesPick
<1>5. QED
  BY <1>4

\* Any element may be taken first: the order of the fold does not matter.
LEMMA SumTakesAny ==
  ASSUME NEW f, NEW S, IsFiniteSet(S), \A x \in S : f[x] \in Int, NEW e \in S
  PROVE  SumFunctionOnSet(f, S) = f[e] + SumFunctionOnSet(f, S \ {e})
<1> DEFINE Total(T) == SumFunctionOnSet(f, T)
           Bad == {T \in SUBSET S : \E x \in T : Total(T) # f[x] + Total(T \ {x})}
<1>1. ASSUME Bad # {}
      PROVE  FALSE
  <2>1. PICK T \in Bad : \A U \in SUBSET T : U # T => U \notin Bad
    <3>1. Bad \in SUBSET (SUBSET S)
      OBVIOUS
    <3> HIDE DEF Bad
    <3>2. QED
      BY <1>1, <3>1, LeastSubset
  <2>2. PICK x \in T : Total(T) # f[x] + Total(T \ {x})
    OBVIOUS
  <2>3. IsFiniteSet(T) /\ T \in SUBSET S /\ T # {}
    BY FS_Subset
  <2> DEFINE p == AnyOf(T)
             both == T \ {x, p}
  <2>4. p \in T /\ f[p] \in Int /\ f[x] \in Int
    BY <2>3, AnyOfIsElement
  <2>5. Total(T) = f[p] + Total(T \ {p})
    BY <2>3, SumTakesPick
  <2> HIDE DEF p
  <2>6. p # x
    BY <2>2, <2>5
  <2>7. T \ {p} \notin Bad /\ T \ {x} \notin Bad
    BY <2>1, <2>4
  <2>8. (T \ {p}) \ {x} = both /\ (T \ {x}) \ {p} = both
    OBVIOUS
  <2>9. Total(T \ {p}) = f[x] + Total(both) /\ Total(T \ {x}) = f[p] + Total(both)
    BY <2>3, <2>4, <2>6, <2>7, <2>8
  <2>10. Total(both) \in Int
    <3>1. IsFiniteSet(both) /\ both \in SUBSET S
      BY <2>3, FS_Subset
    <3>2. QED
      BY <3>1, SumIsInt
  <2> HIDE DEF Total, both
  <2>11. QED
    BY <2>2, <2>4, <2>5, <2>9, <2>10
<1>2. S \notin Bad
  BY <1>1
<1>3. QED
  BY <1>2

\* One more element, in a table f that has become g.
LEMMA SumWithOneMore ==
  ASSUME NEW f, NEW g, NEW S, IsFiniteSet(S), NEW e, e \notin S,
         g[e] \in Int, \A x \in S : f[x] \in Int /\ g[x] = f[x]
  PROVE  SumFunctionOnSet(g, S \union {e}) = g[e] + SumFunctionOnSet(f, S)
<1>1. IsFiniteSet(S \union {e})
  BY FS_AddElement
<1>2. (S \union {e}) \ {e} = S
  OBVIOUS
<1>3. \A x \in S \union {e} : g[x] \in Int
  OBVIOUS
<1>4. SumFunctionOnSet(g, S \union {e}) = g[e] + SumFunctionOnSet(g, S)
  BY <1>1, <1>2, <1>3, SumTakesAny
<1>5. QED
  BY <1>4, SameSum

\* Two sets with no element in common.
LEMMA SumOfBoth ==
  ASSUME NEW f, NEW S, NEW T, IsFiniteSet(S), IsFiniteSet(T), S \intersect T = {},
         \A x \in S \union T : f[x] \in Int
  PROVE  SumFunctionOnSet(f, S \union T) = SumFunctionOnSet(f, S) + SumFunctionOnSet(f, T)
<1> DEFINE Total(U) == SumFunctionOnSet(f, U)
           Bad == {U \in SUBSET S : Total(U \union T) # Total(U) + Total(T)}
<1>1. ASSUME Bad # {}
      PROVE  FALSE
  <2>1. PICK U \in Bad : \A W \in SUBSET U : W # U => W \notin Bad
    <3>1. Bad \in SUBSET (SUBSET S)
      OBVIOUS
    <3> HIDE DEF Bad
    <3>2. QED
      BY <1>1, <3>1, LeastSubset
  <2>2. IsFiniteSet(U) /\ U \in SUBSET S /\ IsFiniteSet(U \union T)
    BY FS_Subset, FS_Union
  <2>3. Total(T) \in Int
    BY SumIsInt
  <2>4. U # {}
    <3>1. SUFFICES ASSUME U = {} PROVE FALSE
      OBVIOUS
    <3>2. Total({}) = 0 /\ {} \union T = T
      BY SumOfNone
    <3> HIDE DEF Total
    <3>3. QED
      BY <2>3, <3>1, <3>2
  <2>5. PICK e \in U : TRUE
    BY <2>4
  <2> DEFINE rest == U \ {e}
  <2>6. Total(U) = f[e] + Total(rest) /\ f[e] \in Int
    BY <2>2, SumTakesAny
  <2>7. Total(U \union T) = f[e] + Total((U \union T) \ {e})
    BY <2>2, SumTakesAny
  <2>8. (U \union T) \ {e} = rest \union T
    BY <2>2
  <2>9. Total(rest \union T) = Total(rest) + Total(T)
    BY <2>1, <2>2
  <2>10. Total(rest) \in Int
    BY <2>2, SumIsInt, FS_Subset
  <2>11. Total(U \union T) = f[e] + (Total(rest) + Total(T))
    BY <2>7, <2>8, <2>9
  <2> HIDE DEF Total, rest
  <2>12. Total(U \union T) = Total(U) + Total(T)
    BY <2>3, <2>6, <2>10, <2>11
  <2>13. QED
    BY <2>12 DEF Bad
<1>2. QED
  BY <1>1

\* A sum of naturals is a natural.
LEMMA SumIsNat ==
  ASSUME NEW f, NEW S, IsFiniteSet(S), \A x \in S : f[x] \in Nat
  PROVE  SumFunctionOnSet(f, S) \in Nat
<1> SUFFICES ASSUME SumFunctionOnSet(f, S) \notin Nat
             PROVE  FALSE
  OBVIOUS
<1> DEFINE Bad == {T \in SUBSET S : SumFunctionOnSet(f, T) \notin Nat}
<1>1. PICK T \in Bad : \A U \in SUBSET T : U # T => U \notin Bad
  <2>1. Bad \in SUBSET (SUBSET S) /\ Bad # {}
    OBVIOUS
  <2> HIDE DEF Bad
  <2>2. QED
    BY <2>1, LeastSubset
<1>2. T # {} /\ IsFiniteSet(T) /\ T \in SUBSET S
  <2>1. SumFunctionOnSet(f, {}) \in Nat
    BY SumOfNone
  <2>2. QED
    BY <2>1, FS_Subset
<1>3. f[AnyOf(T)] \in Nat /\ SumFunctionOnSet(f, T \ {AnyOf(T)}) \in Nat
  BY <1>1, <1>2, AnyOfIsElement
<1>4. SumFunctionOnSet(f, T) \in Nat
  BY <1>2, <1>3, SumTakesPick
<1>5. QED
  BY <1>4

\* A part of a set sums to no more than the set.
LEMMA SumOfPart ==
  ASSUME NEW f, NEW S, IsFiniteSet(S), \A x \in S : f[x] \in Nat, NEW T \in SUBSET S
  PROVE  SumFunctionOnSet(f, T) <= SumFunctionOnSet(f, S)
<1>1. IsFiniteSet(T) /\ IsFiniteSet(S \ T)
  BY FS_Subset, FS_Difference
<1>2. T \union (S \ T) = S
  OBVIOUS
<1>3. SumFunctionOnSet(f, S) = SumFunctionOnSet(f, T) + SumFunctionOnSet(f, S \ T)
  BY <1>1, <1>2, SumOfBoth
<1>4. SumFunctionOnSet(f, T) \in Nat /\ SumFunctionOnSet(f, S \ T) \in Nat
  BY <1>1, SumIsNat
<1>5. QED
  BY <1>3, <1>4

\* A table that adds two others sums to both sums.
LEMMA SumOfTables ==
  ASSUME NEW S, IsFiniteSet(S), NEW f, NEW g, NEW h,
         \A x \in S : f[x] \in Int /\ g[x] \in Int /\ h[x] = f[x] + g[x]
  PROVE  SumFunctionOnSet(h, S) = SumFunctionOnSet(f, S) + SumFunctionOnSet(g, S)
<1> DEFINE F(T) == SumFunctionOnSet(f, T)
           G(T) == SumFunctionOnSet(g, T)
           H(T) == SumFunctionOnSet(h, T)
           Bad == {T \in SUBSET S : H(T) # F(T) + G(T)}
<1>1. ASSUME Bad # {}
      PROVE  FALSE
  <2>1. PICK T \in Bad : \A U \in SUBSET T : U # T => U \notin Bad
    <3>1. Bad \in SUBSET (SUBSET S)
      OBVIOUS
    <3> HIDE DEF Bad
    <3>2. QED
      BY <1>1, <3>1, LeastSubset
  <2>2. T \in SUBSET S /\ IsFiniteSet(T) /\ H(T) # F(T) + G(T)
    BY FS_Subset
  <2>3. T # {}
    <3>1. SumFunctionOnSet(h, {}) = SumFunctionOnSet(f, {}) + SumFunctionOnSet(g, {})
      BY SumOfNone
    <3>2. QED
      BY <2>2, <3>1
  <2>4. PICK e \in T : TRUE
    BY <2>3
  <2> DEFINE rest == T \ {e}
  <2>5. /\ F(T) = f[e] + F(rest) /\ G(T) = g[e] + G(rest) /\ H(T) = h[e] + H(rest)
        /\ f[e] \in Int /\ g[e] \in Int /\ h[e] = f[e] + g[e]
    <3>1. \A x \in T : f[x] \in Int /\ g[x] \in Int /\ h[x] \in Int
      BY <2>2
    <3>2. QED
      BY <2>2, <3>1, SumTakesAny
  <2>6. H(rest) = F(rest) + G(rest)
    BY <2>1, <2>2
  <2>7. F(rest) \in Int /\ G(rest) \in Int
    BY <2>2, SumIsInt, FS_Subset
  <2> HIDE DEF F, G, H, rest
  <2>8. QED
    BY <2>2, <2>5, <2>6, <2>7
<1>2. S \notin Bad
  BY <1>1
<1>3. QED
  BY <1>2

\* A set that is cut into parts sums to the sum of what the parts sum to.
LEMMA SumOfParts ==
  ASSUME NEW S, IsFiniteSet(S), NEW R, IsFiniteSet(R), NEW h, \A x \in R : h[x] \in Int,
         NEW part \in [S -> SUBSET R],
         \A j \in S : \A k \in S : j # k => part[j] \intersect part[k] = {},
         NEW sums, \A j \in S : sums[j] = SumFunctionOnSet(h, part[j])
  PROVE  SumFunctionOnSet(sums, S) = SumFunctionOnSet(h, UNION {part[j] : j \in S})
<1> DEFINE All(T) == UNION {part[j] : j \in T}
           Bad == {T \in SUBSET S : SumFunctionOnSet(sums, T) # SumFunctionOnSet(h, All(T))}
<1>1. \A T \in SUBSET S : All(T) \in SUBSET R /\ IsFiniteSet(All(T))
  BY FS_Subset
<1>2. \A j \in S : IsFiniteSet(part[j]) /\ \A x \in part[j] : h[x] \in Int
  BY FS_Subset
<1>3. \A j \in S : sums[j] \in Int
  BY <1>2, SumIsInt
<1>4. ASSUME Bad # {}
      PROVE  FALSE
  <2>1. PICK T \in Bad : \A U \in SUBSET T : U # T => U \notin Bad
    <3>1. Bad \in SUBSET (SUBSET S)
      OBVIOUS
    <3> HIDE DEF Bad
    <3>2. QED
      BY <1>4, <3>1, LeastSubset
  <2>2. T \in SUBSET S /\ IsFiniteSet(T)
    BY FS_Subset
  <2>3. SumFunctionOnSet(sums, T) # SumFunctionOnSet(h, All(T))
    OBVIOUS
  <2>4. T # {}
    <3>1. All({}) = {}
      OBVIOUS
    <3>2. QED
      BY <2>3, <3>1, SumOfNone
  <2>5. PICK e \in T : TRUE
    BY <2>4
  <2> DEFINE rest == T \ {e}
  <2>6. rest \in SUBSET S /\ rest \in SUBSET T /\ rest # T /\ e \in S
    BY <2>2
  <2>7. SumFunctionOnSet(sums, rest) = SumFunctionOnSet(h, All(rest))
    BY <2>1, <2>6
  <2>8. SumFunctionOnSet(sums, T) = sums[e] + SumFunctionOnSet(sums, rest)
    BY <1>3, <2>2, SumTakesAny
  <2>9. All(T) = part[e] \union All(rest) /\ part[e] \intersect All(rest) = {}
    BY <2>2, <2>6
  <2>10. /\ IsFiniteSet(part[e]) /\ IsFiniteSet(All(rest))
         /\ \A x \in part[e] \union All(rest) : h[x] \in Int
    BY <1>1, <1>2, <2>6
  <2> HIDE DEF All, rest
  <2>11. SumFunctionOnSet(h, part[e] \union All(rest))
            = SumFunctionOnSet(h, part[e]) + SumFunctionOnSet(h, All(rest))
    BY <2>9, <2>10, SumOfBoth
  <2>12. QED
    BY <2>3, <2>6, <2>7, <2>8, <2>9, <2>11
<1>5. S \notin Bad
  BY <1>4
<1>6. QED
  BY <1>5

\* What is taken from one of a set and added to another leaves the sum.
LEMMA SumOfMoved ==
  ASSUME NEW S, IsFiniteSet(S), NEW from \in S, NEW to \in S, from # to, NEW amount \in Int,
         NEW f, NEW g, \A x \in S : f[x] \in Int,
         g[from] = f[from] - amount, g[to] = f[to] + amount,
         \A x \in S \ {from, to} : g[x] = f[x]
  PROVE  SumFunctionOnSet(g, S) = SumFunctionOnSet(f, S)
<1>1. \A x \in S : g[x] \in Int
  <2>1. g[from] \in Int /\ g[to] \in Int
    OBVIOUS
  <2>2. QED
    BY <2>1
<1>2. /\ IsFiniteSet(S \ {from}) /\ to \in S \ {from} /\ IsFiniteSet(S \ {from, to})
      /\ (S \ {from}) \ {to} = S \ {from, to}
  BY FS_Subset
<1>3. \A h : (\A x \in S : h[x] \in Int) =>
         /\ SumFunctionOnSet(h, S) = h[from] + (h[to] + SumFunctionOnSet(h, S \ {from, to}))
         /\ SumFunctionOnSet(h, S \ {from, to}) \in Int
  <2> SUFFICES ASSUME NEW h, \A x \in S : h[x] \in Int
               PROVE  /\ SumFunctionOnSet(h, S)
                         = h[from] + (h[to] + SumFunctionOnSet(h, S \ {from, to}))
                      /\ SumFunctionOnSet(h, S \ {from, to}) \in Int
    OBVIOUS
  <2>1. SumFunctionOnSet(h, S) = h[from] + SumFunctionOnSet(h, S \ {from})
    BY SumTakesAny
  <2>2. SumFunctionOnSet(h, S \ {from}) = h[to] + SumFunctionOnSet(h, (S \ {from}) \ {to})
    BY <1>2, SumTakesAny
  <2>3. SumFunctionOnSet(h, S \ {from, to}) \in Int
    BY <1>2, SumIsInt
  <2>4. QED
    BY <1>2, <2>1, <2>2, <2>3
<1>4. SumFunctionOnSet(g, S \ {from, to}) = SumFunctionOnSet(f, S \ {from, to})
  BY <1>2, SameSum
<1>5. QED
  BY <1>1, <1>3, <1>4

-----------------------------------------------------------------------------
(* Rows in the order of their starts *)

\* Of finitely many periods, one starts last.
LEMMA LatestExists ==
  ASSUME NEW P, NEW S, IsFiniteSet(S), S # {}, \A k \in S : P[k].start \in Nat
  PROVE  \E m \in S : \A k \in S : P[k].start <= P[m].start
<1> DEFINE Later(m) == {k \in S : P[m].start < P[k].start}
           Sets == {Later(m) : m \in S}
<1>1. Sets \in SUBSET (SUBSET S) /\ Sets # {}
  OBVIOUS
<1>2. \A X \in Sets : \E m \in S : X = Later(m)
  OBVIOUS
<1>3. \A m \in S : Later(m) \in Sets
  OBVIOUS
<1> HIDE DEF Sets
<1>4. PICK X \in Sets : \A Y \in SUBSET X : Y # X => Y \notin Sets
  BY <1>1, LeastSubset
<1>5. PICK m \in S : X = Later(m)
  BY <1>2
<1>6. ASSUME NEW k \in S, P[m].start < P[k].start
      PROVE  FALSE
  <2>1. Later(k) \in SUBSET X /\ k \in X /\ k \notin Later(k)
    BY <1>5, <1>6
  <2>2. QED
    BY <1>3, <1>4, <2>1
<1>7. QED
  BY <1>6

\* A row has the rank of the number of rows that start by it.
LEMMA StartsRanked ==
  ASSUME NEW Q, NEW rows, IsFiniteSet(rows),
         \A r \in rows : Q[r].start \in Int,
         \A r, s \in rows : Q[r].start = Q[s].start => r = s
  PROVE  LET rank == [r \in rows |-> Cardinality({s \in rows : Q[s].start <= Q[r].start})]
         IN  /\ rank \in Injection(rows, 1..Cardinality(rows))
             /\ rank \in Surjection(rows, 1..Cardinality(rows))
             /\ \A r, s \in rows : Q[r].start < Q[s].start => rank[r] < rank[s]
<1> DEFINE Upto(r) == {s \in rows : Q[s].start <= Q[r].start}
           rank == [r \in rows |-> Cardinality(Upto(r))]
           size == Cardinality(rows)
<1>1. size \in Nat
  BY FS_CardinalityType
<1>2. \A r \in rows : Upto(r) \in SUBSET rows /\ r \in Upto(r)
  OBVIOUS
<1>3. \A r \in rows : IsFiniteSet(Upto(r)) /\ Cardinality(Upto(r)) <= size
  BY <1>2, FS_Subset
<1>4. \A r \in rows : rank[r] \in 1..size
  <2>1. \A r \in rows : Cardinality(Upto(r)) \in Nat /\ Cardinality(Upto(r)) # 0
    BY <1>2, <1>3, FS_CardinalityType, FS_EmptySet
  <2>2. \A r \in rows : rank[r] = Cardinality(Upto(r))
    OBVIOUS
  <2> HIDE DEF rank, Upto, size
  <2>3. QED
    BY <1>1, <1>3, <2>1, <2>2
<1>5. ASSUME NEW r \in rows, NEW s \in rows, Q[r].start < Q[s].start
      PROVE  rank[r] < rank[s]
  <2>1. Upto(r) \in SUBSET Upto(s) /\ s \notin Upto(r)
    BY <1>5
  <2>2. Cardinality(Upto(r)) <= Cardinality(Upto(s)) /\ Cardinality(Upto(r)) # Cardinality(Upto(s))
    BY <1>2, <1>3, <2>1, FS_Subset
  <2>3. rank[r] = Cardinality(Upto(r)) /\ rank[s] = Cardinality(Upto(s))
    OBVIOUS
  <2>4. rank[r] \in Nat /\ rank[s] \in Nat
    BY <1>4
  <2>5. QED
    BY <2>2, <2>3, <2>4
<1>6. rank \in Injection(rows, 1..size)
  <2>2. rank \in [rows -> 1..size]
    BY <1>4
  <2> HIDE DEF rank, size
  <2>1. \A r, s \in rows : rank[r] = rank[s] => Q[r].start = Q[s].start
    BY <1>1, <1>4, <1>5
  <2>3. QED
    BY <2>1, <2>2 DEF Injection, IsInjective
<1>7. IsFiniteSet(1..size) /\ Cardinality(1..size) = size
  BY <1>1, FS_Interval
<1>8. rank \in Surjection(rows, 1..size)
  <2> HIDE DEF rank
  <2>1. QED
    BY <1>6, <1>7, FS_Injection
<1>9. QED
  BY <1>5, <1>6, <1>8

-----------------------------------------------------------------------------
(* Lists *)

LEMMA ListIsSeq ==
  ASSUME NEW S, NEW n \in Nat, NEW f \in [1..n -> S]
  PROVE  f \in Seq(S) /\ Len(f) = n
OBVIOUS

LEMMA ListOfTwo ==
  ASSUME NEW a, NEW b
  PROVE  <<a>> \o <<b>> = <<a, b>>
<1> DEFINE S == {a, b}
           W == <<a>> \o <<b>>
           U == <<a, b>>
<1>1. <<a>> \in Seq(S) /\ <<b>> \in Seq(S) /\ U \in Seq(S)
  OBVIOUS
<1>2. Len(<<a>>) = 1 /\ Len(<<b>>) = 1 /\ Len(U) = 2
  OBVIOUS
<1>3. /\ W \in Seq(S) /\ Len(W) = 1 + 1
      /\ \A n \in 1..(1 + 1) : W[n] = IF n <= 1 THEN <<a>>[n] ELSE <<b>>[n - 1]
  BY <1>1, <1>2, ConcatProperties
<1>4. W[1] = U[1] /\ W[2] = U[2]
  BY <1>3
<1> HIDE DEF W, U
<1>5. Len(W) = 2
  BY <1>3
<1>6. \A n \in 1..2 : n = 1 \/ n = 2
  OBVIOUS
<1>7. \A n \in 1..Len(W) : W[n] = U[n]
  BY <1>4, <1>5, <1>6
<1>8. W = U
  BY <1>1, <1>2, <1>3, <1>5, <1>7, SeqEqual
<1>9. QED
  BY <1>8 DEF W, U

LEMMA FourJoined ==
  ASSUME NEW S, NEW A \in Seq(S), NEW B \in Seq(S), NEW C \in Seq(S), NEW D \in Seq(S),
         NEW W, W = A \o B \o C \o D
  PROVE  /\ W \in Seq(S)
         /\ Len(W) = Len(A) + Len(B) + Len(C) + Len(D)
         /\ \A n \in 1..Len(A) : W[n] = A[n]
         /\ \A n \in 1..Len(B) : W[Len(A) + n] = B[n]
         /\ \A n \in 1..Len(C) : W[Len(A) + Len(B) + n] = C[n]
         /\ \A n \in 1..Len(D) : W[Len(A) + Len(B) + Len(C) + n] = D[n]
<1> DEFINE a == Len(A)
           b == Len(B)
           c == Len(C)
           d == Len(D)
           AB == A \o B
           ABC == AB \o C
<1>0. W = ABC \o D
  OBVIOUS
<1>1. a \in Nat /\ b \in Nat /\ c \in Nat /\ d \in Nat
  BY LenProperties
<1>2. /\ AB \in Seq(S) /\ Len(AB) = a + b
      /\ \A n \in 1..(a + b) : AB[n] = IF n <= a THEN A[n] ELSE B[n - a]
  BY ConcatProperties
<1> HIDE DEF AB
<1>3. /\ ABC \in Seq(S) /\ Len(ABC) = (a + b) + c
      /\ \A n \in 1..((a + b) + c) : ABC[n] = IF n <= a + b THEN AB[n] ELSE C[n - (a + b)]
  <2>1. AB \in Seq(S)
    BY <1>2
  <2>2. /\ ABC \in Seq(S) /\ Len(ABC) = Len(AB) + Len(C)
        /\ \A n \in 1..(Len(AB) + Len(C)) :
              ABC[n] = IF n <= Len(AB) THEN AB[n] ELSE C[n - Len(AB)]
    BY <2>1, ConcatProperties
  <2>3. QED
    BY <1>2, <2>2
<1> HIDE DEF ABC
<1>4. /\ W \in Seq(S) /\ Len(W) = ((a + b) + c) + d
      /\ \A n \in 1..(((a + b) + c) + d) :
            W[n] = IF n <= (a + b) + c THEN ABC[n] ELSE D[n - ((a + b) + c)]
  <2>1. ABC \in Seq(S)
    BY <1>3
  <2>2. /\ W \in Seq(S) /\ Len(W) = Len(ABC) + Len(D)
        /\ \A n \in 1..(Len(ABC) + Len(D)) :
              W[n] = IF n <= Len(ABC) THEN ABC[n] ELSE D[n - Len(ABC)]
    BY <1>0, <2>1, ConcatProperties
  <2>3. QED
    BY <1>3, <2>2
<1> HIDE DEF a, b, c, d
<1>5. \A n \in 1..a : W[n] = A[n]
  BY <1>1, <1>2, <1>3, <1>4
<1>6. \A n \in 1..b : W[a + n] = B[n]
  <2> TAKE n \in 1..b
  <2>1. a + n \in 1..(a + b) /\ ~ (a + n <= a) /\ (a + n) - a = n
    BY <1>1
  <2>2. a + n \in 1..(((a + b) + c) + d) /\ a + n \in 1..((a + b) + c) /\ a + n <= (a + b) + c
        /\ a + n <= a + b
    BY <1>1
  <2>3. W[a + n] = ABC[a + n]
    BY <1>4, <2>2
  <2>4. ABC[a + n] = AB[a + n]
    BY <1>3, <2>2
  <2>5. QED
    BY <1>2, <2>1, <2>3, <2>4
<1>7. \A n \in 1..c : W[a + b + n] = C[n]
  <2> TAKE n \in 1..c
  <2>1. /\ a + b + n = (a + b) + n
        /\ (a + b) + n \in 1..(((a + b) + c) + d) /\ (a + b) + n \in 1..((a + b) + c)
        /\ (a + b) + n <= (a + b) + c
        /\ ~ ((a + b) + n <= a + b) /\ ((a + b) + n) - (a + b) = n
    BY <1>1
  <2>2. W[(a + b) + n] = ABC[(a + b) + n]
    BY <1>4, <2>1
  <2>3. QED
    BY <1>3, <2>1, <2>2
<1>8. \A n \in 1..d : W[a + b + c + n] = D[n]
  <2> TAKE n \in 1..d
  <2>1. /\ a + b + c + n = ((a + b) + c) + n
        /\ ((a + b) + c) + n \in 1..(((a + b) + c) + d)
        /\ ~ (((a + b) + c) + n <= (a + b) + c)
        /\ (((a + b) + c) + n) - ((a + b) + c) = n
    BY <1>1
  <2>2. QED
    BY <1>4, <2>1
<1>9. a + b + c + d = ((a + b) + c) + d
  BY <1>1
<1>10. QED
  BY <1>4, <1>5, <1>6, <1>7, <1>8, <1>9 DEF a, b, c, d

\* Every element comes of one of the four.
LEMMA FourSplit ==
  ASSUME NEW a \in Nat, NEW b \in Nat, NEW c \in Nat, NEW d \in Nat, NEW n \in 1..(a + b + c + d)
  PROVE  \/ n \in 1..a
         \/ \E m \in 1..b : n = a + m
         \/ \E m \in 1..c : n = a + b + m
         \/ \E m \in 1..d : n = a + b + c + m
<1>1. CASE n <= a
  BY <1>1
<1>2. CASE a < n /\ n <= a + b
  <2>1. n - a \in 1..b /\ n = a + (n - a)
    BY <1>2
  <2>2. QED
    BY <2>1
<1>3. CASE a + b < n /\ n <= a + b + c
  <2>1. n - (a + b) \in 1..c /\ n = a + b + (n - (a + b))
    BY <1>3
  <2>2. QED
    BY <2>1
<1>4. CASE a + b + c < n
  <2>1. n - (a + b + c) \in 1..d /\ n = a + b + c + (n - (a + b + c))
    BY <1>4
  <2>2. QED
    BY <2>1
<1>5. QED
  BY <1>1, <1>2, <1>3, <1>4
=============================================================================
