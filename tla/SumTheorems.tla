----------------------------- MODULE SumTheorems -----------------------------
(* Sums of a function over a finite set (SumFunctionOnSet of Functions): the facts *)
(* that the totals of credits, budgets and leases rest on.  At the end, functions    *)
(* that are defined by recursion on a number of steps.                             *)
EXTENDS Integers, Functions, FiniteSetTheorems, WellFoundedInduction, TLAPS

Pick(S) == CHOOSE x \in S : TRUE

(* g has the sum of f over every subset of S. *)
Solves(g, f, S) ==
    g = [s \in SUBSET S |-> IF s = {} THEN 0 ELSE f[Pick(s)] + g[s \ {Pick(s)}]]

LEMMA PickIn == ASSUME NEW S, S # {} PROVE Pick(S) \in S
  BY DEF Pick

LEMMA Unfolded == ASSUME NEW f, NEW S PROVE SumFunctionOnSet(f, S) = (CHOOSE g : Solves(g, f, S))[S]
  BY DEF SumFunctionOnSet, FoldFunctionOnSet, MapThenFoldSet, Solves, Pick

(* A non-empty set of naturals has a least element. *)
LEMMA LeastExists ==
    ASSUME NEW T \in SUBSET Nat, T # {}
    PROVE  \E n \in T : \A m \in T : n <= m
  <1>1. PICK n \in T : \A m \in T : ~(<<m, n>> \in OpToRel(<, Nat))
    BY NatLessThanWellFounded, WFMin
  <1>2. ASSUME NEW m \in T PROVE n <= m
    <2>1. m \in Nat /\ n \in Nat /\ ~(m < n)
      BY <1>1, <1>2 DEF OpToRel
    <2> QED
      BY <2>1
  <1> QED
    BY <1>2

(* The subsets of S with at most n elements *)
UpTo(n, S) == {s \in SUBSET S : Cardinality(s) <= n}
Partial(g, f, n, S) ==
    g = [s \in UpTo(n, S) |-> IF s = {} THEN 0 ELSE f[Pick(s)] + g[s \ {Pick(s)}]]

LEMMA SubsetSize ==
    ASSUME NEW S, IsFiniteSet(S), NEW s \in SUBSET S
    PROVE  /\ IsFiniteSet(s) /\ Cardinality(s) \in Nat /\ Cardinality(s) <= Cardinality(S)
           /\ Cardinality(s) = 0 <=> s = {}
           /\ \A x \in s : Cardinality(s \ {x}) = Cardinality(s) - 1
  <1>1. IsFiniteSet(s) /\ Cardinality(s) <= Cardinality(S)
    BY FS_Subset
  <1>2. Cardinality(s) \in Nat
    BY <1>1, FS_CardinalityType
  <1>3. Cardinality(s) = 0 <=> s = {}
    BY <1>1, FS_EmptySet
  <1>4. \A x \in s : Cardinality(s \ {x}) = Cardinality(s) - 1
    BY <1>1, FS_RemoveElement
  <1> QED
    BY <1>1, <1>2, <1>3, <1>4

LEMMA PartialExists ==
    ASSUME NEW f, NEW S, IsFiniteSet(S), NEW n \in Nat
    PROVE  \E g : Partial(g, f, n, S)
  <1> DEFINE T == {k \in Nat : ~\E g : Partial(g, f, k, S)}
  <1>1. SUFFICES ASSUME T # {} PROVE FALSE
    OBVIOUS
  <1>2. PICK k \in T : \A m \in T : k <= m
    <2>1. T \in SUBSET Nat
      OBVIOUS
    <2> HIDE DEF T
    <2> QED
      BY <1>1, <2>1, LeastExists
  <1>3. k # 0
    <2>1. SUFFICES ASSUME k = 0 PROVE \E g : Partial(g, f, k, S)
      OBVIOUS
    <2> DEFINE g == [s \in UpTo(k, S) |-> 0]
    <2>2. \A s \in UpTo(k, S) : s = {}
      BY <2>1, SubsetSize DEF UpTo
    <2>3. Partial(g, f, k, S)
      BY <2>2 DEF Partial
    <2> QED
      BY <2>3
  <1>4. k - 1 \in Nat /\ k - 1 \notin T
    BY <1>2, <1>3
  <1>5. PICK h : Partial(h, f, k - 1, S)
    BY <1>4
  <1> DEFINE g == [s \in UpTo(k, S) |-> IF s = {} THEN 0 ELSE f[Pick(s)] + h[s \ {Pick(s)}]]
  <1>6. ASSUME NEW s \in UpTo(k, S), s # {}
        PROVE  s \ {Pick(s)} \in UpTo(k - 1, S) /\ s \ {Pick(s)} \in UpTo(k, S)
    <2>1. s \in SUBSET S /\ Pick(s) \in s /\ k \in Nat
      BY <1>6, PickIn DEF UpTo
    <2>2. Cardinality(s \ {Pick(s)}) = Cardinality(s) - 1 /\ Cardinality(s) \in Nat
      BY <2>1, SubsetSize
    <2>3. Cardinality(s) <= k
      BY DEF UpTo
    <2> QED
      BY <2>1, <2>2, <2>3 DEF UpTo
  <1>7. ASSUME NEW s \in UpTo(k - 1, S) PROVE s \in UpTo(k, S) /\ g[s] = h[s]
    <2>1. s \in UpTo(k, S)
      BY SubsetSize, <1>2 DEF UpTo
    <2>2. h[s] = IF s = {} THEN 0 ELSE f[Pick(s)] + h[s \ {Pick(s)}]
      BY <1>5, <1>7 DEF Partial
    <2> QED
      BY <2>1, <2>2
  <1>8. g = [s \in UpTo(k, S) |-> IF s = {} THEN 0 ELSE f[Pick(s)] + g[s \ {Pick(s)}]]
    <2>1. ASSUME NEW s \in UpTo(k, S), s # {} PROVE g[s \ {Pick(s)}] = h[s \ {Pick(s)}]
      <3> HIDE DEF g
      <3> QED
        BY <2>1, <1>6, <1>7
    <2> QED
      BY <2>1
  <1>9. Partial(g, f, k, S)
    <2> HIDE DEF g
    <2> QED
      BY <1>8 DEF Partial
  <1> QED
    BY <1>9, <1>2

(* A sum obeys the equation that defines it. *)
LEMMA Solvable ==
    ASSUME NEW f, NEW S, IsFiniteSet(S)
    PROVE  Solves(CHOOSE g : Solves(g, f, S), f, S)
  <1>1. Cardinality(S) \in Nat
    BY FS_CardinalityType
  <1>2. UpTo(Cardinality(S), S) = SUBSET S
    BY SubsetSize DEF UpTo
  <1>3. PICK g : Partial(g, f, Cardinality(S), S)
    BY <1>1, PartialExists
  <1>4. Solves(g, f, S)
    BY <1>2, <1>3 DEF Partial, Solves
  <1> QED
    BY <1>4

(* The sum over a subset does not depend on the set that it is computed in. *)
LEMMA SolutionsAgree ==
    ASSUME NEW f, NEW S, IsFiniteSet(S), NEW R, R \subseteq S,
           NEW g, Solves(g, f, S), NEW h, Solves(h, f, R)
    PROVE  \A s \in SUBSET R : g[s] = h[s]
  <1> DEFINE T == {n \in Nat : \E s \in SUBSET R : Cardinality(s) = n /\ g[s] # h[s]}
  <1>1. ASSUME NEW s \in SUBSET R
        PROVE  s \in SUBSET S /\ Cardinality(s) \in Nat
    BY SubsetSize
  <1>2. SUFFICES ASSUME T # {} PROVE FALSE
    BY <1>1
  <1>3. PICK n \in T : \A m \in T : n <= m
    <2>1. T \in SUBSET Nat
      OBVIOUS
    <2> HIDE DEF T
    <2> QED
      BY <1>2, <2>1, LeastExists
  <1>4. PICK s \in SUBSET R : Cardinality(s) = n /\ g[s] # h[s]
    OBVIOUS
  <1>5. s \in SUBSET S /\ n \in Nat
    BY <1>1, <1>4
  <1>6. g[s] = IF s = {} THEN 0 ELSE f[Pick(s)] + g[s \ {Pick(s)}]
    BY <1>5 DEF Solves
  <1>7. h[s] = IF s = {} THEN 0 ELSE f[Pick(s)] + h[s \ {Pick(s)}]
    BY DEF Solves
  <1>8. s # {} /\ g[s \ {Pick(s)}] # h[s \ {Pick(s)}]
    BY <1>4, <1>6, <1>7
  <1>9. Cardinality(s \ {Pick(s)}) = n - 1 /\ s \ {Pick(s)} \in SUBSET R
    BY <1>4, <1>5, <1>8, PickIn, SubsetSize
  <1>10. Cardinality(s \ {Pick(s)}) \in Nat
    BY <1>9, <1>1
  <1>11. n - 1 \in T
    BY <1>8, <1>9, <1>10
  <1> QED
    BY <1>3, <1>5, <1>11

-----------------------------------------------------------------------------
(* The sum over no element is zero. *)
THEOREM SumEmpty == ASSUME NEW f PROVE SumFunctionOnSet(f, {}) = 0
  <1> DEFINE g == CHOOSE g : Solves(g, f, {})
  <1>1. Solves(g, f, {})
    BY Solvable, FS_EmptySet
  <1>2. SumFunctionOnSet(f, {}) = g[{}]
    BY Unfolded
  <1> HIDE DEF g
  <1>3. g[{}] = 0
    BY <1>1 DEF Solves
  <1> QED
    BY <1>2, <1>3

LEMMA SumStep ==
    ASSUME NEW f, NEW S, IsFiniteSet(S), S # {}
    PROVE  SumFunctionOnSet(f, S) = f[Pick(S)] + SumFunctionOnSet(f, S \ {Pick(S)})
  <1> DEFINE R == S \ {Pick(S)}
             g == CHOOSE g : Solves(g, f, S)
             h == CHOOSE h : Solves(h, f, R)
  <1>1. R \subseteq S /\ IsFiniteSet(R)
    BY FS_RemoveElement
  <1>2. Solves(g, f, S) /\ SumFunctionOnSet(f, S) = g[S]
    BY Solvable, Unfolded
  <1>3. Solves(h, f, R) /\ SumFunctionOnSet(f, R) = h[R]
    <2> HIDE DEF R
    <2> QED
      BY <1>1, Solvable, Unfolded
  <1> HIDE DEF g, h
  <1>4. g[R] = h[R]
    <2> HIDE DEF R
    <2> QED
      BY <1>1, <1>2, <1>3, SolutionsAgree
  <1>5. g[S] = f[Pick(S)] + g[R]
    BY <1>2 DEF Solves
  <1> QED
    BY <1>2, <1>3, <1>4, <1>5

(* Induction over the subsets of a finite set; F is the set of those for which the   *)
(* claim holds.                                                                  *)
LEMMA SubsetInduction ==
    ASSUME NEW S, IsFiniteSet(S), NEW F,
           \A s \in SUBSET S : (\A x \in s : s \ {x} \in F) => s \in F
    PROVE  \A s \in SUBSET S : s \in F
  <1> DEFINE T == {n \in Nat : \E s \in SUBSET S : Cardinality(s) = n /\ s \notin F}
  <1>1. \A s \in SUBSET S : Cardinality(s) \in Nat
    BY SubsetSize
  <1>2. SUFFICES ASSUME T # {} PROVE FALSE
    BY <1>1
  <1>3. PICK n \in T : \A m \in T : n <= m
    <2>1. T \in SUBSET Nat
      OBVIOUS
    <2> HIDE DEF T
    <2> QED
      BY <1>2, <2>1, LeastExists
  <1>4. PICK s \in SUBSET S : Cardinality(s) = n /\ s \notin F
    OBVIOUS
  <1>5. PICK x \in s : s \ {x} \notin F
    BY <1>4
  <1>6. s \ {x} \in SUBSET S /\ Cardinality(s \ {x}) = n - 1
    BY <1>4, SubsetSize
  <1>7. n - 1 \in T /\ n \in Nat
    BY <1>1, <1>5, <1>6
  <1> QED
    BY <1>3, <1>7

(* A sum of naturals is a natural. *)
THEOREM SumType ==
    ASSUME NEW S, IsFiniteSet(S), NEW f, \A x \in S : f[x] \in Nat
    PROVE  SumFunctionOnSet(f, S) \in Nat
  <1> DEFINE F == {s \in SUBSET S : SumFunctionOnSet(f, s) \in Nat}
  <1>1. ASSUME NEW s \in SUBSET S, \A x \in s : s \ {x} \in F
        PROVE  s \in F
    <2>1. CASE s = {}
      BY <2>1, SumEmpty
    <2>2. CASE s # {}
      <3>1. IsFiniteSet(s) /\ Pick(s) \in s
        BY <2>2, PickIn, FS_Subset
      <3>2. f[Pick(s)] \in Nat /\ SumFunctionOnSet(f, s \ {Pick(s)}) \in Nat
        BY <3>1, <1>1
      <3>3. SumFunctionOnSet(f, s) \in Nat
        BY <3>1, <3>2, <2>2, SumStep
      <3> QED
        BY <3>3
    <2> QED
      BY <2>1, <2>2
  <1>2. S \in F
    <2>1. \A s \in SUBSET S : (\A x \in s : s \ {x} \in F) => s \in F
      BY <1>1
    <2> HIDE DEF F
    <2>2. \A s \in SUBSET S : s \in F
      BY <2>1, SubsetInduction
    <2> QED
      BY <2>2
  <1> QED
    BY <1>2

(* Any element may be taken out of a sum. *)
THEOREM SumElement ==
    ASSUME NEW S, IsFiniteSet(S), NEW f, \A x \in S : f[x] \in Nat, NEW y \in S
    PROVE  /\ SumFunctionOnSet(f, S) = f[y] + SumFunctionOnSet(f, S \ {y})
           /\ SumFunctionOnSet(f, S \ {y}) \in Nat
  <1> DEFINE Sum(s) == SumFunctionOnSet(f, s)
             F == {s \in SUBSET S : \A x \in s : Sum(s) = f[x] + Sum(s \ {x})}
  <1>0. \A s \in SUBSET S : IsFiniteSet(s) /\ Sum(s) \in Nat
    BY FS_Subset, SumType
  <1>1. ASSUME NEW s \in SUBSET S, \A x \in s : s \ {x} \in F
        PROVE  s \in F
    <2> SUFFICES ASSUME NEW x \in s PROVE Sum(s) = f[x] + Sum(s \ {x})
      OBVIOUS
    <2> DEFINE p == Pick(s)
    <2>1. p \in s /\ Sum(s) = f[p] + Sum(s \ {p})
      BY <1>0, PickIn, SumStep
    <2> HIDE DEF p
    <2>2. CASE p = x
      BY <2>1, <2>2
    <2>3. CASE p # x
      <3>1. Sum(s \ {p}) = f[x] + Sum((s \ {p}) \ {x})
        BY <1>1, <2>1, <2>3
      <3>2. Sum(s \ {x}) = f[p] + Sum((s \ {x}) \ {p})
        BY <1>1, <2>1, <2>3
      <3>3. (s \ {p}) \ {x} = (s \ {x}) \ {p}
        OBVIOUS
      <3>4. (s \ {p}) \ {x} \in SUBSET S
        OBVIOUS
      <3>5. Sum((s \ {p}) \ {x}) \in Nat
        BY <3>4, <1>0
      <3>6. f[p] \in Nat /\ f[x] \in Nat
        BY <2>1
      <3> HIDE DEF Sum
      <3> QED
        BY <2>1, <3>1, <3>2, <3>3, <3>5, <3>6
    <2> QED
      BY <2>2, <2>3
  <1>2. S \in F
    <2>1. \A s \in SUBSET S : (\A x \in s : s \ {x} \in F) => s \in F
      BY <1>1
    <2> HIDE DEF F
    <2>2. \A s \in SUBSET S : s \in F
      BY <2>1, SubsetInduction
    <2> QED
      BY <2>2
  <1>3. S \ {y} \in SUBSET S
    OBVIOUS
  <1> QED
    BY <1>0, <1>2, <1>3

(* Adding an element *)
THEOREM SumAddElement ==
    ASSUME NEW S, IsFiniteSet(S), NEW f, NEW y, y \notin S, \A x \in S \cup {y} : f[x] \in Nat
    PROVE  SumFunctionOnSet(f, S \cup {y}) = f[y] + SumFunctionOnSet(f, S)
  <1>1. IsFiniteSet(S \cup {y}) /\ (S \cup {y}) \ {y} = S /\ y \in S \cup {y}
    BY FS_AddElement
  <1> QED
    BY <1>1, SumElement

(* Functions that agree on a set have the same sum over it. *)
THEOREM SumAgrees ==
    ASSUME NEW S, IsFiniteSet(S), NEW f, NEW g, \A x \in S : f[x] = g[x]
    PROVE  SumFunctionOnSet(f, S) = SumFunctionOnSet(g, S)
  <1> DEFINE F == {s \in SUBSET S : SumFunctionOnSet(f, s) = SumFunctionOnSet(g, s)}
  <1>1. ASSUME NEW s \in SUBSET S, \A x \in s : s \ {x} \in F
        PROVE  s \in F
    <2>1. CASE s = {}
      BY <2>1, SumEmpty
    <2>2. CASE s # {}
      <3>1. IsFiniteSet(s) /\ Pick(s) \in s
        BY <2>2, PickIn, FS_Subset
      <3>2. /\ f[Pick(s)] = g[Pick(s)]
            /\ SumFunctionOnSet(f, s \ {Pick(s)}) = SumFunctionOnSet(g, s \ {Pick(s)})
        BY <3>1, <1>1
      <3>3. SumFunctionOnSet(f, s) = SumFunctionOnSet(g, s)
        BY <3>1, <3>2, <2>2, SumStep
      <3> QED
        BY <3>3
    <2> QED
      BY <2>1, <2>2
  <1>2. S \in F
    <2>1. \A s \in SUBSET S : (\A x \in s : s \ {x} \in F) => s \in F
      BY <1>1
    <2> HIDE DEF F
    <2>2. \A s \in SUBSET S : s \in F
      BY <2>1, SubsetInduction
    <2> QED
      BY <2>2
  <1> QED
    BY <1>2

(* A sum is monotone in its terms. *)
THEOREM SumMonotone ==
    ASSUME NEW S, IsFiniteSet(S), NEW f, NEW g,
           \A x \in S : f[x] \in Nat /\ g[x] \in Nat /\ f[x] <= g[x]
    PROVE  SumFunctionOnSet(f, S) <= SumFunctionOnSet(g, S)
  <1> DEFINE F == {s \in SUBSET S : SumFunctionOnSet(f, s) <= SumFunctionOnSet(g, s)}
  <1>1. ASSUME NEW s \in SUBSET S, \A x \in s : s \ {x} \in F
        PROVE  s \in F
    <2>1. CASE s = {}
      BY <2>1, SumEmpty
    <2>2. CASE s # {}
      <3> DEFINE p == Pick(s)
                 r == s \ {p}
      <3>1. IsFiniteSet(s) /\ p \in s /\ IsFiniteSet(r) /\ r \in SUBSET S /\ r \in F
        BY <2>2, <1>1, PickIn, FS_Subset
      <3>2. /\ SumFunctionOnSet(f, s) = f[p] + SumFunctionOnSet(f, r)
            /\ SumFunctionOnSet(g, s) = g[p] + SumFunctionOnSet(g, r)
        BY <3>1, <2>2, SumStep
      <3> HIDE DEF p, r
      <3>3. SumFunctionOnSet(f, r) \in Nat /\ SumFunctionOnSet(g, r) \in Nat
        BY <3>1, SumType
      <3>4. f[p] \in Nat /\ g[p] \in Nat /\ f[p] <= g[p]
        BY <3>1
      <3>5. SumFunctionOnSet(f, r) <= SumFunctionOnSet(g, r)
        BY <3>1
      <3>6. SumFunctionOnSet(f, s) <= SumFunctionOnSet(g, s)
        BY <3>2, <3>3, <3>4, <3>5
      <3> QED
        BY <3>6
    <2> QED
      BY <2>1, <2>2
  <1>2. S \in F
    <2>1. \A s \in SUBSET S : (\A x \in s : s \ {x} \in F) => s \in F
      BY <1>1
    <2> HIDE DEF F
    <2>2. \A s \in SUBSET S : s \in F
      BY <2>1, SubsetInduction
    <2> QED
      BY <2>2
  <1> QED
    BY <1>2

(* A common factor may be taken out of a sum. *)
THEOREM SumScaled ==
    ASSUME NEW S, IsFiniteSet(S), NEW f, NEW g, NEW k \in Nat,
           \A x \in S : f[x] \in Nat /\ g[x] = f[x] * k
    PROVE  SumFunctionOnSet(g, S) = SumFunctionOnSet(f, S) * k
  <1> DEFINE F == {s \in SUBSET S : SumFunctionOnSet(g, s) = SumFunctionOnSet(f, s) * k}
  <1>1. ASSUME NEW s \in SUBSET S, \A x \in s : s \ {x} \in F
        PROVE  s \in F
    <2>1. CASE s = {}
      BY <2>1, SumEmpty
    <2>2. CASE s # {}
      <3> DEFINE p == Pick(s)
                 r == s \ {p}
      <3>1. IsFiniteSet(s) /\ p \in s /\ IsFiniteSet(r) /\ r \in SUBSET S /\ r \in F
        BY <2>2, <1>1, PickIn, FS_Subset
      <3>2. /\ SumFunctionOnSet(f, s) = f[p] + SumFunctionOnSet(f, r)
            /\ SumFunctionOnSet(g, s) = g[p] + SumFunctionOnSet(g, r)
        BY <3>1, <2>2, SumStep
      <3> HIDE DEF p, r
      <3>3. SumFunctionOnSet(f, r) \in Nat
        BY <3>1, SumType
      <3>4. f[p] \in Nat /\ g[p] = f[p] * k
        BY <3>1
      <3>5. SumFunctionOnSet(g, r) = SumFunctionOnSet(f, r) * k
        BY <3>1
      <3>6. \A m, n \in Nat : m * k + n * k = (m + n) * k
        OBVIOUS
      <3>7. SumFunctionOnSet(g, s) = SumFunctionOnSet(f, s) * k
        BY <3>2, <3>3, <3>4, <3>5, <3>6
      <3> QED
        BY <3>7
    <2> QED
      BY <2>1, <2>2
  <1>2. S \in F
    <2>1. \A s \in SUBSET S : (\A x \in s : s \ {x} \in F) => s \in F
      BY <1>1
    <2> HIDE DEF F
    <2>2. \A s \in SUBSET S : s \in F
      BY <2>1, SubsetInduction
    <2> QED
      BY <2>2
  <1> QED
    BY <1>2

(* The sum of two functions is that of their sums. *)
THEOREM SumPlus ==
    ASSUME NEW S, IsFiniteSet(S), NEW f, NEW g, NEW h,
           \A x \in S : f[x] \in Nat /\ g[x] \in Nat /\ h[x] = f[x] + g[x]
    PROVE  SumFunctionOnSet(h, S) = SumFunctionOnSet(f, S) + SumFunctionOnSet(g, S)
  <1> DEFINE F == {s \in SUBSET S : SumFunctionOnSet(h, s) = SumFunctionOnSet(f, s) + SumFunctionOnSet(g, s)}
  <1>1. ASSUME NEW s \in SUBSET S, \A x \in s : s \ {x} \in F
        PROVE  s \in F
    <2>1. CASE s = {}
      BY <2>1, SumEmpty
    <2>2. CASE s # {}
      <3> DEFINE p == Pick(s)
                 r == s \ {p}
      <3>1. IsFiniteSet(s) /\ p \in s /\ IsFiniteSet(r) /\ r \in SUBSET S /\ r \in F
        BY <2>2, <1>1, PickIn, FS_Subset
      <3>2. /\ SumFunctionOnSet(f, s) = f[p] + SumFunctionOnSet(f, r)
            /\ SumFunctionOnSet(g, s) = g[p] + SumFunctionOnSet(g, r)
            /\ SumFunctionOnSet(h, s) = h[p] + SumFunctionOnSet(h, r)
        BY <3>1, <2>2, SumStep
      <3> HIDE DEF p, r
      <3>3. SumFunctionOnSet(f, r) \in Nat /\ SumFunctionOnSet(g, r) \in Nat
        BY <3>1, SumType
      <3>4. f[p] \in Nat /\ g[p] \in Nat /\ h[p] = f[p] + g[p]
        BY <3>1
      <3>5. SumFunctionOnSet(h, r) = SumFunctionOnSet(f, r) + SumFunctionOnSet(g, r)
        BY <3>1
      <3>6. SumFunctionOnSet(h, s) = SumFunctionOnSet(f, s) + SumFunctionOnSet(g, s)
        BY <3>2, <3>3, <3>4, <3>5
      <3> QED
        BY <3>6
    <2> QED
      BY <2>1, <2>2
  <1>2. S \in F
    <2>1. \A s \in SUBSET S : (\A x \in s : s \ {x} \in F) => s \in F
      BY <1>1
    <2> HIDE DEF F
    <2>2. \A s \in SUBSET S : s \in F
      BY <2>1, SubsetInduction
    <2> QED
      BY <2>2
  <1> QED
    BY <1>2

(* A sum with one term changed *)
THEOREM SumChanged ==
    ASSUME NEW S, IsFiniteSet(S), NEW f, NEW g, NEW y \in S,
           \A x \in S : f[x] \in Nat /\ g[x] \in Nat,
           \A x \in S \ {y} : g[x] = f[x]
    PROVE  SumFunctionOnSet(g, S) + f[y] = SumFunctionOnSet(f, S) + g[y]
  <1>1. /\ SumFunctionOnSet(f, S) = f[y] + SumFunctionOnSet(f, S \ {y})
        /\ SumFunctionOnSet(f, S \ {y}) \in Nat
    BY SumElement
  <1>2. SumFunctionOnSet(g, S) = g[y] + SumFunctionOnSet(g, S \ {y})
    BY SumElement
  <1>3. SumFunctionOnSet(g, S \ {y}) = SumFunctionOnSet(f, S \ {y})
    <2>1. IsFiniteSet(S \ {y})
      BY FS_RemoveElement
    <2> QED
      BY <2>1, SumAgrees
  <1>4. f[y] \in Nat /\ g[y] \in Nat
    OBVIOUS
  <1> QED
    BY <1>1, <1>2, <1>3, <1>4

(* A part of a sum of naturals does not exceed the sum. *)
THEOREM SumSubset ==
    ASSUME NEW S, IsFiniteSet(S), NEW R \in SUBSET S, NEW f, \A x \in S : f[x] \in Nat
    PROVE  SumFunctionOnSet(f, R) <= SumFunctionOnSet(f, S)
  <1> DEFINE Sum(s) == SumFunctionOnSet(f, s)
             F == {s \in SUBSET S : Sum(R \cap s) <= Sum(s)}
  <1>1. \A s \in SUBSET S : IsFiniteSet(s) /\ Sum(s) \in Nat
    BY FS_Subset, SumType
  <1>2. ASSUME NEW s \in SUBSET S, \A x \in s : s \ {x} \in F
        PROVE  s \in F
    <2>1. CASE s = {}
      BY <2>1, SumEmpty
    <2>2. CASE s # {}
      <3>1. PICK x \in s : TRUE
        BY <2>2
      <3> DEFINE rest == s \ {x}
      <3>2. /\ rest \in SUBSET S /\ R \cap rest \in SUBSET S /\ R \cap s \in SUBSET S
            /\ rest \in F
        BY <1>2
      <3>3. Sum(rest) \in Nat /\ Sum(R \cap rest) \in Nat /\ Sum(R \cap rest) <= Sum(rest)
        BY <1>1, <3>2
      <3>4. f[x] \in Nat /\ Sum(s) = f[x] + Sum(rest)
        BY <1>1, SumElement
      <3>5. CASE x \in R
        <4>1. (R \cap s) \ {x} = R \cap rest /\ x \in R \cap s
          BY <3>5
        <4>2. Sum(R \cap s) = f[x] + Sum((R \cap s) \ {x})
          BY <1>1, <3>2, <4>1, SumElement
        <4> HIDE DEF Sum, rest
        <4>3. Sum(R \cap s) <= Sum(s)
          BY <3>3, <3>4, <4>1, <4>2
        <4> QED
          BY <4>3 DEF Sum
      <3>6. CASE x \notin R
        <4>1. R \cap s = R \cap rest
          BY <3>6
        <4>2. Sum(R \cap s) = Sum(R \cap rest)
          BY <4>1
        <4> HIDE DEF Sum, rest
        <4>3. Sum(R \cap s) <= Sum(s)
          BY <3>3, <3>4, <4>2
        <4> QED
          BY <4>3 DEF Sum
      <3> QED
        BY <3>5, <3>6
    <2> QED
      BY <2>1, <2>2
  <1>3. S \in F
    <2>1. \A s \in SUBSET S : (\A x \in s : s \ {x} \in F) => s \in F
      BY <1>2
    <2> HIDE DEF F
    <2>2. \A s \in SUBSET S : s \in F
      BY <2>1, SubsetInduction
    <2> QED
      BY <2>2
  <1>4. R \cap S = R
    OBVIOUS
  <1> QED
    BY <1>3, <1>4

-----------------------------------------------------------------------------
(* What a step function makes of a number of steps *)
Iteration(h, N, A, base, F) ==
    /\ h \in [0 .. N -> A]
    /\ h = [m \in 0 .. N |-> IF m = 0 THEN base ELSE F[h[m - 1]]]

(* Such an iteration exists. *)
LEMMA IterationExists ==
    ASSUME NEW A, NEW base \in A, NEW F \in [A -> A], NEW N \in Nat
    PROVE  \E h : Iteration(h, N, A, base, F)
  <1> DEFINE Good(k) == \E h \in [0 .. k -> A] :
                           h = [m \in 0 .. k |-> IF m = 0 THEN base ELSE F[h[m - 1]]]
             T == {k \in Nat : ~Good(k)}
  <1>1. ASSUME T # {} PROVE FALSE
    <2>1. PICK k \in T : \A m \in T : k <= m
      <3>1. T \in SUBSET Nat
        OBVIOUS
      <3> HIDE DEF T
      <3> QED
        BY <1>1, <3>1, LeastExists
    <2>2. CASE k = 0
      <3> DEFINE h == [m \in 0 .. 0 |-> base]
      <3>1. h \in [0 .. 0 -> A] /\ h = [m \in 0 .. 0 |-> IF m = 0 THEN base ELSE F[h[m - 1]]]
        OBVIOUS
      <3> QED
        BY <2>2, <3>1
    <2>3. CASE k # 0
      <3>1. k - 1 \in Nat /\ k \in Nat /\ Good(k - 1)
        BY <2>1, <2>3
      <3>2. PICK h \in [0 .. k - 1 -> A] :
               h = [m \in 0 .. k - 1 |-> IF m = 0 THEN base ELSE F[h[m - 1]]]
        BY <3>1
      <3> DEFINE g == [m \in 0 .. k |-> IF m = k THEN F[h[k - 1]] ELSE h[m]]
      <3>3. h[k - 1] \in A /\ \A m \in 0 .. k : m # k => m \in 0 .. k - 1 /\ h[m] \in A
        BY <3>1
      <3>4. g \in [0 .. k -> A]
        BY <3>3
      <3>5. ASSUME NEW m \in 0 .. k PROVE g[m] = IF m = 0 THEN base ELSE F[g[m - 1]]
        <4>1. CASE m = k
          <5>1. k - 1 \in 0 .. k /\ k - 1 # k /\ g[k - 1] = h[k - 1]
            BY <3>1
          <5> QED
            BY <2>3, <4>1, <5>1
        <4>2. CASE m # k /\ m # 0
          <5>1. m \in 0 .. k - 1 /\ m - 1 \in 0 .. k /\ m - 1 # k
            BY <3>1, <4>2
          <5>2. h[m] = F[h[m - 1]]
            BY <3>2, <4>2, <5>1
          <5> QED
            BY <4>2, <5>1, <5>2
        <4>3. CASE m # k /\ m = 0
          <5>1. h[0] = base
            BY <3>1, <3>2
          <5> QED
            BY <4>3, <5>1
        <4> QED
          BY <4>1, <4>2, <4>3
      <3>6. g = [m \in 0 .. k |-> IF m = 0 THEN base ELSE F[g[m - 1]]]
        <4>1. g = [m \in 0 .. k |-> g[m]]
          OBVIOUS
        <4> HIDE DEF g
        <4> QED
          BY <3>5, <4>1
      <3> HIDE DEF g
      <3>7. Good(k)
        BY <3>4, <3>6
      <3> QED
        BY <2>1, <3>7
    <2> QED
      BY <2>2, <2>3
  <1>2. Good(N)
    BY <1>1
  <1> QED
    BY <1>2 DEF Iteration
=============================================================================
