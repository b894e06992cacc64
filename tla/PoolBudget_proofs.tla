-------------------------- MODULE PoolBudget_proofs --------------------------
(* The budgets of a Pool, for every policy, number of goroutines and order of their  *)
(* calls: how they are assigned when the Pool is built, what is published, decided    *)
(* and trimmed while calls overtake each other, and the allocator that plans them.     *)
EXTENDS PoolControl, BudgetAllocation, SumTheorems, SequenceTheorems

(* A finite set of integers has a greatest element. *)
LEMMA MaxType ==
    ASSUME NEW S, IsFiniteSet(S), S # {}, \A x \in S : x \in Int
    PROVE  Max(S) \in S /\ \A x \in S : x <= Max(S)
  <1> DEFINE F == {s \in SUBSET S : s = {} \/ \E x \in s : \A y \in s : y <= x}
  <1>1. ASSUME NEW s \in SUBSET S, \A x \in s : s \ {x} \in F
        PROVE  s \in F
    <2> SUFFICES ASSUME s # {} PROVE \E x \in s : \A y \in s : y <= x
      OBVIOUS
    <2>1. PICK z \in s : TRUE
      OBVIOUS
    <2>2. CASE s \ {z} = {}
      BY <2>2
    <2>3. CASE s \ {z} # {}
      <3>1. PICK x \in s \ {z} : \A y \in s \ {z} : y <= x
        BY <1>1, <2>3
      <3>2. x \in Int /\ z \in Int
        OBVIOUS
      <3>3. CASE z <= x
        BY <3>1, <3>3
      <3>4. CASE x <= z
        <4>1. \A y \in s : y <= z
          BY <3>1, <3>2, <3>4
        <4> QED
          BY <4>1
      <3> QED
        BY <3>2, <3>3, <3>4
    <2> QED
      BY <2>2, <2>3
  <1>2. S \in F
    <2>1. \A s \in SUBSET S : (\A x \in s : s \ {x} \in F) => s \in F
      BY <1>1
    <2> HIDE DEF F
    <2>2. \A s \in SUBSET S : s \in F
      BY <2>1, SubsetInduction
    <2> QED
      BY <2>2
  <1>3. PICK x \in S : \A y \in S : y <= x
    BY <1>2
  <1>4. \E m \in S : \A y \in S : m >= y
    BY <1>3
  <1>5. Max(S) \in S /\ \A y \in S : Max(S) >= y
    BY <1>4 DEF Max
  <1> QED
    BY <1>5

(* The length of a sequence that is given as a function *)
LEMMA LengthOf ==
    ASSUME NEW S, NEW n \in Nat, NEW f \in [1 .. n -> S]
    PROVE  Len(f) = n
  <1>1. f \in Seq(S)
    BY SeqDef
  <1>2. DOMAIN f = 1 .. Len(f) /\ Len(f) \in Nat /\ DOMAIN f = 1 .. n
    BY <1>1
  <1> QED
    BY <1>2

-----------------------------------------------------------------------------
(* Sums that saturate *)

Saturates(g, f, S) ==
    g = [s \in SUBSET S |-> IF s = {} THEN 0 ELSE SaturatingAdd(f[Pick(s)], g[s \ {Pick(s)}])]

(* The sum unfolded; the lemmas below need no more of its definition. *)
LEMMA SaturatingUnfolded ==
    ASSUME NEW f
    PROVE  SaturatingSum(f) = (CHOOSE g : Saturates(g, f, DOMAIN f))[DOMAIN f]
  BY DEF SaturatingSum, FoldSeq, FoldFunction, FoldFunctionOnSet, MapThenFoldSet, Saturates, Pick

(* An addition that saturates *)
LEMMA SaturatingAddIs ==
    ASSUME NEW a \in Nat, NEW b \in Nat
    PROVE  /\ SaturatingAdd(a, b) = Smaller(a + b, MaxSize)
           /\ SaturatingAdd(a, Smaller(b, MaxSize)) = Smaller(a + b, MaxSize)
  BY WordAssumption DEF SaturatingAdd, Smaller

(* A saturating sum is the sum, or the largest word if that is less. *)
LEMMA SaturatingSumIs ==
    ASSUME NEW f, IsFiniteSet(DOMAIN f), \A i \in DOMAIN f : f[i] \in Nat
    PROVE  SaturatingSum(f) = Smaller(SumFunctionOnSet(f, DOMAIN f), MaxSize)
  <1> DEFINE S == DOMAIN f
             sum(s) == SumFunctionOnSet(f, s)
             g == [s \in SUBSET S |-> Smaller(sum(s), MaxSize)]
  <1>1. ASSUME NEW s \in SUBSET S, s # {}
        PROVE  /\ Pick(s) \in s /\ s \ {Pick(s)} \in SUBSET S
               /\ Smaller(sum(s), MaxSize) = SaturatingAdd(f[Pick(s)], Smaller(sum(s \ {Pick(s)}), MaxSize))
    <2>1. Pick(s) \in s /\ IsFiniteSet(s)
      BY <1>1, PickIn, FS_Subset
    <2>2. sum(s) = f[Pick(s)] + sum(s \ {Pick(s)}) /\ sum(s \ {Pick(s)}) \in Nat
      BY <2>1, SumElement
    <2>3. f[Pick(s)] \in Nat
      BY <2>1
    <2> HIDE DEF sum
    <2> QED
      BY <2>1, <2>2, <2>3, SaturatingAddIs
  <1>2. Smaller(sum({}), MaxSize) = 0
    BY SumEmpty, WordAssumption DEF Smaller
  <1>3. Saturates(g, f, S)
    <2> HIDE DEF sum
    <2>1. g = [s \in SUBSET S |-> IF s = {} THEN 0 ELSE SaturatingAdd(f[Pick(s)], g[s \ {Pick(s)}])]
      BY <1>1, <1>2
    <2> HIDE DEF g
    <2> QED
      BY <2>1 DEF Saturates
  <1> DEFINE h == CHOOSE h : Saturates(h, f, S)
  <1>4. Saturates(h, f, S)
    <2> HIDE DEF g
    <2> QED
      BY <1>3
  <1> HIDE DEF h
  <1>5. \A s \in SUBSET S : h[s] = g[s]
    <2> DEFINE F == {s \in SUBSET S : h[s] = g[s]}
    <2>1. ASSUME NEW s \in SUBSET S, \A x \in s : s \ {x} \in F PROVE s \in F
      <3> HIDE DEF g
      <3>1. h[s] = IF s = {} THEN 0 ELSE SaturatingAdd(f[Pick(s)], h[s \ {Pick(s)}])
        BY <1>4 DEF Saturates
      <3>2. g[s] = IF s = {} THEN 0 ELSE SaturatingAdd(f[Pick(s)], g[s \ {Pick(s)}])
        BY <1>3 DEF Saturates
      <3>3. s # {} => h[s \ {Pick(s)}] = g[s \ {Pick(s)}]
        BY <2>1, PickIn
      <3> QED
        BY <3>1, <3>2, <3>3
    <2>2. \A s \in SUBSET S : (\A x \in s : s \ {x} \in F) => s \in F
      BY <2>1
    <2> HIDE DEF F, g, S
    <2>3. \A s \in SUBSET S : s \in F
      BY <2>2, SubsetInduction DEF S
    <2> QED
      BY <2>3 DEF F
  <1>6. h[S] = Smaller(sum(S), MaxSize)
    BY <1>5
  <1> QED
    BY <1>6, SaturatingUnfolded DEF h

-----------------------------------------------------------------------------
(* Recursion *)

(* What a step function makes of the elements of a finite set, taken one by one *)
Folds(g, A, base, F, c, T) ==
    /\ g \in [T -> A]
    /\ \A s \in T : g[s] = IF s = {} THEN base ELSE F[<<g[s \ {c[s]}], c[s]>>]

(* Such a fold exists. *)
LEMMA FoldExists ==
    ASSUME NEW S, IsFiniteSet(S), NEW A, NEW base \in A, NEW F \in [A \X S -> A], NEW c,
           \A s \in SUBSET S : s # {} => c[s] \in s
    PROVE  \E g : Folds(g, A, base, F, c, SUBSET S)
  <1> DEFINE Good(k) == \E g : Folds(g, A, base, F, c, UpTo(k, S))
             T == {k \in Nat : ~Good(k)}
  <1>1. ASSUME T # {} PROVE FALSE
    <2>1. PICK k \in T : \A m \in T : k <= m
      <3>1. T \in SUBSET Nat
        OBVIOUS
      <3> HIDE DEF T
      <3> QED
        BY <1>1, <3>1, LeastExists
    <2>2. CASE k = 0
      <3> DEFINE g == [s \in UpTo(0, S) |-> base]
      <3>1. \A s \in UpTo(0, S) : s = {}
        BY SubsetSize DEF UpTo
      <3>2. Folds(g, A, base, F, c, UpTo(0, S))
        BY <3>1 DEF Folds
      <3> QED
        BY <2>2, <3>2
    <2>3. CASE k # 0
      <3>1. k - 1 \in Nat /\ k \in Nat /\ Good(k - 1)
        BY <2>1, <2>3
      <3>2. PICK h : Folds(h, A, base, F, c, UpTo(k - 1, S))
        BY <3>1
      <3> DEFINE g == [s \in UpTo(k, S) |-> IF s = {} THEN base ELSE F[<<h[s \ {c[s]}], c[s]>>]]
      <3>3. ASSUME NEW s \in UpTo(k, S), s # {}
            PROVE  /\ c[s] \in S /\ s \ {c[s]} \in UpTo(k - 1, S) /\ s \ {c[s]} \in UpTo(k, S)
                   /\ h[s \ {c[s]}] \in A
        <4>1. s \in SUBSET S /\ c[s] \in s /\ c[s] \in S
          BY <3>3 DEF UpTo
        <4>2. Cardinality(s \ {c[s]}) = Cardinality(s) - 1 /\ Cardinality(s) \in Nat
          BY <4>1, SubsetSize
        <4>3. Cardinality(s) <= k
          BY DEF UpTo
        <4>4. s \ {c[s]} \in UpTo(k - 1, S) /\ s \ {c[s]} \in UpTo(k, S)
          BY <3>1, <4>1, <4>2, <4>3 DEF UpTo
        <4> QED
          BY <3>2, <4>1, <4>4 DEF Folds
      <3>4. g \in [UpTo(k, S) -> A]
        BY <3>3
      <3>5. ASSUME NEW s \in UpTo(k - 1, S) PROVE s \in UpTo(k, S) /\ g[s] = h[s]
        <4>1. s \in UpTo(k, S)
          BY SubsetSize, <3>1 DEF UpTo
        <4>2. h[s] = IF s = {} THEN base ELSE F[<<h[s \ {c[s]}], c[s]>>]
          BY <3>2 DEF Folds
        <4> QED
          BY <4>1, <4>2
      <3>6. ASSUME NEW s \in UpTo(k, S)
            PROVE  g[s] = IF s = {} THEN base ELSE F[<<g[s \ {c[s]}], c[s]>>]
        <4>1. CASE s # {}
          <5>1. g[s \ {c[s]}] = h[s \ {c[s]}]
            <6> HIDE DEF g
            <6> QED
              BY <3>3, <3>5, <4>1
          <5>2. g[s] = F[<<h[s \ {c[s]}], c[s]>>]
            BY <4>1
          <5> HIDE DEF g
          <5> QED
            BY <4>1, <5>1, <5>2
        <4>2. CASE s = {}
          BY <4>2
        <4> QED
          BY <4>1, <4>2
      <3>7. Folds(g, A, base, F, c, UpTo(k, S))
        <4> HIDE DEF g
        <4> QED
          BY <3>4, <3>6 DEF Folds
      <3> HIDE DEF g
      <3> QED
        BY <2>1, <3>7
    <2> QED
      BY <2>2, <2>3
  <1>2. Cardinality(S) \in Nat
    BY FS_CardinalityType
  <1>3. Good(Cardinality(S))
    BY <1>1, <1>2
  <1>4. UpTo(Cardinality(S), S) = SUBSET S
    BY SubsetSize DEF UpTo
  <1> QED
    BY <1>3, <1>4

-----------------------------------------------------------------------------
(* A pass *)

(* A quota for one class *)
Given(s, i, caps, quota) ==
    LET part == Min({quota, caps[i] - s.assigned[i], s.remaining})
    IN  [assigned |-> [s.assigned EXCEPT ![i] = @ + part], remaining |-> s.remaining - part]
Indices(caps) == [i \in DOMAIN caps |-> i]
Walked(g, state, caps, quota) ==
    g = [s \in SUBSET DOMAIN Indices(caps) |->
            IF s = {} THEN state
            ELSE Given(g[s \ {Max(s)}], Indices(caps)[Max(s)], caps, quota)]
ShareOfPass(state, caps) == Max({1, state.remaining \div Eligible(state.assigned, caps)})

(* A pass unfolded: it is a fold over the indices of the classes. *)
LEMMA PassUnfolded ==
    ASSUME NEW state, NEW caps
    PROVE  SharePass(state, caps)
             = (CHOOSE g : Walked(g, state, caps, ShareOfPass(state, caps)))[DOMAIN Indices(caps)]
  BY DEF SharePass, FoldLeftDomain, FoldLeft, MapThenFoldSet, Given, ShareOfPass, Walked, Indices

(* The least of three, and the greater of one and another number *)
LEMMA MinOfThree ==
    ASSUME NEW a \in Int, NEW b \in Int, NEW c \in Int
    PROVE  LET m == Min({a, b, c})
           IN  /\ m \in Int /\ m \in {a, b, c} /\ m <= a /\ m <= b /\ m <= c
  <1>1. \E x \in {a, b, c} : \A y \in {a, b, c} : x <= y
    <2>1. CASE a <= b /\ a <= c
      BY <2>1
    <2>2. CASE b <= a /\ b <= c
      BY <2>2
    <2>3. CASE c <= a /\ c <= b
      BY <2>3
    <2> QED
      BY <2>1, <2>2, <2>3
  <1>2. Min({a, b, c}) \in {a, b, c} /\ \A y \in {a, b, c} : Min({a, b, c}) <= y
    BY <1>1 DEF Min
  <1> QED
    BY <1>2

LEMMA MaxOfOne ==
    ASSUME NEW a \in Nat
    PROVE  LET m == Max({1, a})
           IN  m \in Nat /\ m >= 1 /\ (a >= 1 => m = a) /\ (a = 0 => m = 1)
  <1>1. \E x \in {1, a} : \A y \in {1, a} : x >= y
    <2>1. CASE 1 >= a
      BY <2>1
    <2>2. CASE a >= 1
      BY <2>2
    <2> QED
      BY <2>1, <2>2
  <1>2. Max({1, a}) \in {1, a} /\ \A y \in {1, a} : Max({1, a}) >= y
    BY <1>1 DEF Max
  <1> QED
    BY <1>2

(* Assignments within the caps, and what is left to assign *)
States(caps) == {s \in [assigned : [DOMAIN caps -> Nat], remaining : Nat] :
                    \A i \in DOMAIN caps : s.assigned[i] <= caps[i]}
PartOf(s, i, caps, quota) == Min({quota, caps[i] - s.assigned[i], s.remaining})

(* What giving class i its part does *)
Gives(s, i, caps, quota, next, part) ==
    /\ next \in States(caps) /\ part \in Nat
    /\ part <= quota /\ part <= caps[i] - s.assigned[i] /\ part <= s.remaining
    /\ part \in {quota, caps[i] - s.assigned[i], s.remaining}
    /\ next.remaining = s.remaining - part
    /\ next.assigned[i] = s.assigned[i] + part
    /\ \A j \in DOMAIN caps \ {i} : next.assigned[j] = s.assigned[j]

(* A part is within the quota, the room and what is left. *)
LEMMA GivenType ==
    ASSUME NEW caps, \A i \in DOMAIN caps : caps[i] \in Nat, NEW s \in States(caps),
           NEW i \in DOMAIN caps, NEW quota \in Nat
    PROVE  Gives(s, i, caps, quota, Given(s, i, caps, quota), PartOf(s, i, caps, quota))
  <1> DEFINE part == PartOf(s, i, caps, quota)
             next == Given(s, i, caps, quota)
  <1>1. /\ s.assigned \in [DOMAIN caps -> Nat] /\ s.remaining \in Nat /\ s.assigned[i] \in Nat
        /\ \A j \in DOMAIN caps : s.assigned[j] <= caps[j]
    BY DEF States
  <1>2. caps[i] \in Nat /\ caps[i] - s.assigned[i] \in Nat
    BY <1>1
  <1>3. /\ part \in Int /\ part \in {quota, caps[i] - s.assigned[i], s.remaining}
        /\ part <= quota /\ part <= caps[i] - s.assigned[i] /\ part <= s.remaining
    <2> DEFINE room == caps[i] - s.assigned[i]
    <2>1. room \in Int /\ quota \in Int /\ s.remaining \in Int
      BY <1>1, <1>2
    <2>2. part = Min({quota, room, s.remaining})
      BY DEF PartOf
    <2> HIDE DEF room, part
    <2>3. /\ part \in Int /\ part \in {quota, room, s.remaining}
          /\ part <= quota /\ part <= room /\ part <= s.remaining
      BY <2>1, <2>2, MinOfThree
    <2> QED
      BY <2>3 DEF room
  <1>4. part \in Nat
    BY <1>1, <1>2, <1>3
  <1>5. next = [assigned |-> [s.assigned EXCEPT ![i] = @ + part], remaining |-> s.remaining - part]
    BY DEF Given, PartOf
  <1> HIDE DEF part, next
  <1>6. next.assigned = [s.assigned EXCEPT ![i] = @ + part] /\ next.remaining = s.remaining - part
    BY <1>5
  <1>7. /\ next.assigned[i] = s.assigned[i] + part
        /\ \A j \in DOMAIN caps \ {i} : next.assigned[j] = s.assigned[j]
        /\ next.assigned \in [DOMAIN caps -> Nat]
    BY <1>1, <1>4, <1>6
  <1>8. next.remaining \in Nat /\ \A j \in DOMAIN caps : next.assigned[j] <= caps[j]
    <2>1. s.remaining - part \in Nat
      BY <1>1, <1>3, <1>4
    <2>2. s.assigned[i] + part <= caps[i]
      BY <1>1, <1>2, <1>3, <1>4
    <2> QED
      BY <1>1, <1>6, <1>7, <2>1, <2>2
  <1>9. next \in States(caps)
    <2>1. next \in [assigned : [DOMAIN caps -> Nat], remaining : Nat]
      BY <1>5, <1>6, <1>7, <1>8
    <2> QED
      BY <1>8, <2>1 DEF States
  <1> QED
    BY <1>3, <1>4, <1>6, <1>7, <1>9 DEF part, next, Gives

(* A pass serves the classes in their order. *)
PassSteps(st, n, state, caps, quota) ==
    /\ st \in [0 .. n -> States(caps)]
    /\ st[0] = state /\ SharePass(state, caps) = st[n]
    /\ \A k \in 1 .. n : st[k] = Given(st[k - 1], k, caps, quota)

LEMMA PassInOrder ==
    ASSUME NEW n \in Nat, NEW caps \in [1 .. n -> Nat], NEW state \in States(caps), NEW quota \in Nat,
           quota = ShareOfPass(state, caps)
    PROVE  \E st : PassSteps(st, n, state, caps, quota)
  <1> DEFINE S == 1 .. n
             A == States(caps)
             F == [a \in A \X S |-> Given(a[1], a[2], caps, quota)]
             c == [s \in SUBSET S |-> Max(s)]
             Solution(g) == Folds(g, A, state, F, c, SUBSET S)
  <1>1. IsFiniteSet(S) /\ DOMAIN caps = S /\ Indices(caps) = [i \in S |-> i] /\ DOMAIN Indices(caps) = S
    BY FS_Interval DEF Indices
  <1>2. ASSUME NEW s \in SUBSET S, s # {}
        PROVE  c[s] = Max(s) /\ Max(s) \in s /\ \A x \in s : x <= Max(s)
    <2>1. IsFiniteSet(s)
      <3> HIDE DEF S
      <3> QED
        BY <1>1, FS_Subset
    <2>4. \A x \in s : x \in Int
      OBVIOUS
    <2>2. Max(s) \in s /\ \A x \in s : x <= Max(s)
      <3> HIDE DEF S, c
      <3> QED
        BY <1>2, <2>1, <2>4, MaxType
    <2>3. c[s] = Max(s)
      OBVIOUS
    <2> QED
      BY <2>2, <2>3
  <1>3. F \in [A \X S -> A]
    <2>1. ASSUME NEW a \in A, NEW i \in S PROVE Given(a, i, caps, quota) \in A
      <3>1. \A j \in DOMAIN caps : caps[j] \in Nat
        OBVIOUS
      <3> QED
        BY <1>1, <3>1, GivenType DEF Gives
    <2> HIDE DEF A, S
    <2> QED
      BY <2>1
  <1>4. \E g : Solution(g)
    <2>1. \A s \in SUBSET S : s # {} => c[s] \in s
      BY <1>2
    <2> HIDE DEF F, c, A, S
    <2> QED
      BY <1>1, <1>3, <2>1, FoldExists DEF A
  <1>5. ASSUME NEW g, Solution(g) PROVE Walked(g, state, caps, quota)
    <2>1. ASSUME NEW s \in SUBSET S
          PROVE  g[s] = IF s = {} THEN state ELSE Given(g[s \ {Max(s)}], Indices(caps)[Max(s)], caps, quota)
      <3>1. CASE s = {}
        BY <1>5, <3>1 DEF Folds
      <3>2. CASE s # {}
        <4>1. Max(s) \in S /\ s \ {Max(s)} \in SUBSET S
          BY <1>2, <3>2
        <4>2. g[s] = F[<<g[s \ {Max(s)}], Max(s)>>]
          <5> HIDE DEF F, c, S, A
          <5>1. g[s] = F[<<g[s \ {c[s]}], c[s]>>]
            BY <1>5, <3>2 DEF Folds
          <5> QED
            BY <1>2, <3>2, <5>1
        <4>3. g[s \ {Max(s)}] \in A
          <5> HIDE DEF F, c, S, A
          <5> QED
            BY <1>5, <4>1 DEF Folds
        <4>4. F[<<g[s \ {Max(s)}], Max(s)>>] = Given(g[s \ {Max(s)}], Max(s), caps, quota)
          <5> HIDE DEF S, A
          <5> QED
            BY <4>1, <4>3
        <4> QED
          BY <1>1, <3>2, <4>1, <4>2, <4>4
      <3> QED
        BY <3>1, <3>2
    <2>2. g = [s \in SUBSET S |-> g[s]]
      BY <1>5 DEF Folds
    <2>3. g = [s \in SUBSET S |-> IF s = {} THEN state
                                  ELSE Given(g[s \ {Max(s)}], Indices(caps)[Max(s)], caps, quota)]
      <3> HIDE DEF S
      <3> QED
        BY <2>1, <2>2
    <2> QED
      BY <1>1, <2>3 DEF Walked
  <1> DEFINE w == CHOOSE g : Walked(g, state, caps, quota)
  <1>6. Walked(w, state, caps, quota)
    <2> HIDE DEF Solution
    <2> QED
      BY <1>4, <1>5
  <1>7. SharePass(state, caps) = w[S]
    BY <1>1, PassUnfolded
  <1> HIDE DEF w
  <1> DEFINE st == [k \in 0 .. n |-> w[1 .. k]]
  <1>8. w[{}] = state
    <2>1. {} \in SUBSET S
      OBVIOUS
    <2> HIDE DEF S
    <2> QED
      BY <1>1, <1>6, <2>1 DEF Walked
  <1>9. ASSUME NEW k \in 1 .. n PROVE w[1 .. k] = Given(w[1 .. k - 1], k, caps, quota)
    <2>1. 1 .. k \in SUBSET S /\ 1 .. k # {} /\ k \in 1 .. k /\ k \in S
      OBVIOUS
    <2>2. Max(1 .. k) = k
      <3>1. Max(1 .. k) \in 1 .. k /\ k <= Max(1 .. k)
        BY <1>2, <2>1
      <3> QED
        BY <3>1
    <2>3. (1 .. k) \ {k} = 1 .. k - 1
      OBVIOUS
    <2>4. w[1 .. k] = Given(w[(1 .. k) \ {Max(1 .. k)}], Indices(caps)[Max(1 .. k)], caps, quota)
      <3> DEFINE s == 1 .. k
      <3> HIDE DEF s, S
      <3>1. w[s] = Given(w[s \ {Max(s)}], Indices(caps)[Max(s)], caps, quota)
        BY <1>1, <1>6, <2>1 DEF Walked, s
      <3> QED
        BY <3>1 DEF s
    <2>5. Indices(caps)[k] = k
      BY <1>1, <2>1
    <2> QED
      BY <2>2, <2>3, <2>4, <2>5
  <1>10. \A k \in 0 .. n : w[1 .. k] \in A
    <2> DEFINE T == {k \in Nat : k <= n /\ w[1 .. k] \notin A}
    <2>1. ASSUME T # {} PROVE FALSE
      <3>1. PICK k \in T : \A m \in T : k <= m
        <4>1. T \in SUBSET Nat
          OBVIOUS
        <4> HIDE DEF T
        <4> QED
          BY <2>1, <4>1, LeastExists
      <3>2. CASE k = 0
        <4>1. 1 .. 0 = {}
          OBVIOUS
        <4> QED
          BY <1>8, <3>1, <3>2, <4>1
      <3>3. CASE k # 0
        <4>1. k \in 1 .. n /\ k - 1 \in Nat /\ k - 1 <= n /\ w[1 .. k - 1] \in A
          BY <3>1, <3>3
        <4>2. \A j \in DOMAIN caps : caps[j] \in Nat
          OBVIOUS
        <4>3. Given(w[1 .. k - 1], k, caps, quota) \in A
          BY <1>1, <4>1, <4>2, GivenType DEF Gives
        <4> QED
          BY <1>9, <3>1, <4>1, <4>3
      <3> QED
        BY <3>2, <3>3
    <2> QED
      BY <2>1
  <1>11. st \in [0 .. n -> A]
    BY <1>10
  <1>12. st[0] = state
    <2>1. 1 .. 0 = {} /\ 0 \in 0 .. n
      OBVIOUS
    <2> QED
      BY <1>8, <2>1
  <1>13. st[n] = SharePass(state, caps)
    BY <1>7
  <1>14. ASSUME NEW k \in 1 .. n PROVE st[k] = Given(st[k - 1], k, caps, quota)
    <2>1. k \in 0 .. n /\ k - 1 \in 0 .. n
      OBVIOUS
    <2> QED
      BY <1>9, <2>1
  <1> HIDE DEF st
  <1>15. PassSteps(st, n, state, caps, quota)
    BY <1>11, <1>12, <1>13, <1>14 DEF PassSteps
  <1> QED
    BY <1>15

WithRoom(taken, caps) == {i \in DOMAIN caps : taken[i] < caps[i]}
ServedUpTo(k, taken, caps) == {i \in WithRoom(taken, caps) : i <= k}

(* The classes with room, and those of them that a pass has come to *)
LEMMA RoomFinite ==
    ASSUME NEW n \in Nat, NEW caps \in [1 .. n -> Nat], NEW taken
    PROVE  /\ IsFiniteSet(WithRoom(taken, caps)) /\ Eligible(taken, caps) \in Nat
           /\ Eligible(taken, caps) = Cardinality(WithRoom(taken, caps))
           /\ Eligible(taken, caps) = 0 <=> WithRoom(taken, caps) = {}
           /\ Eligible(taken, caps) <= n
  <1>1. IsFiniteSet(1 .. n) /\ Cardinality(1 .. n) = n /\ DOMAIN caps = 1 .. n
    BY FS_Interval
  <1>2. WithRoom(taken, caps) \in SUBSET (1 .. n)
    BY <1>1 DEF WithRoom
  <1>3. Eligible(taken, caps) = Cardinality(WithRoom(taken, caps))
    BY DEF Eligible, WithRoom
  <1> QED
    BY <1>1, <1>2, <1>3, SubsetSize

(* A pass comes to one class after the other. *)
LEMMA ServedNext ==
    ASSUME NEW n \in Nat, NEW caps \in [1 .. n -> Nat], NEW taken, NEW k \in 1 .. n
    PROVE  LET served(j) == Cardinality(ServedUpTo(j, taken, caps)) IN
           /\ served(k - 1) \in Nat /\ served(0) = 0 /\ served(n) = Eligible(taken, caps)
           /\ k \in WithRoom(taken, caps) => served(k) = served(k - 1) + 1
           /\ k \notin WithRoom(taken, caps) => served(k) = served(k - 1)
  <1> DEFINE W == WithRoom(taken, caps)
             U(j) == ServedUpTo(j, taken, caps)
  <1>1. IsFiniteSet(W) /\ W \subseteq 1 .. n /\ Cardinality(W) = Eligible(taken, caps)
    BY RoomFinite DEF WithRoom
  <1>2. U(k - 1) \in SUBSET W /\ U(0) = {} /\ U(n) = W
    BY <1>1 DEF ServedUpTo
  <1>3. IsFiniteSet(U(k - 1)) /\ Cardinality(U(k - 1)) \in Nat
    BY <1>1, <1>2, SubsetSize
  <1>4. k \in W => U(k) = U(k - 1) \cup {k} /\ k \notin U(k - 1)
    BY <1>1 DEF ServedUpTo
  <1>5. k \notin W => U(k) = U(k - 1)
    BY <1>1 DEF ServedUpTo
  <1>6. Cardinality({}) = 0
    BY FS_EmptySet
  <1>7. k \in W => Cardinality(U(k)) = Cardinality(U(k - 1)) + 1
    <2> SUFFICES ASSUME k \in W PROVE Cardinality(U(k)) = Cardinality(U(k - 1)) + 1
      OBVIOUS
    <2>1. PICK below, upto : below = U(k - 1) /\ upto = U(k)
      OBVIOUS
    <2> HIDE DEF U, W
    <2>2. upto = below \cup {k} /\ k \notin below /\ IsFiniteSet(below)
      BY <1>3, <1>4, <2>1
    <2>3. Cardinality(upto) = Cardinality(below) + 1
      BY <2>2, FS_AddElement
    <2> QED
      BY <2>1, <2>3
  <1> HIDE DEF U, W
  <1>8. /\ Cardinality(U(0)) = 0 /\ Cardinality(U(n)) = Eligible(taken, caps)
        /\ k \notin W => Cardinality(U(k)) = Cardinality(U(k - 1))
    BY <1>1, <1>2, <1>5, <1>6
  <1> QED
    BY <1>3, <1>7, <1>8 DEF U, W

(* After the first k classes of a pass *)
Passed(s, k, state, caps, quota) ==
    LET served == Cardinality(ServedUpTo(k, state.assigned, caps)) IN
    /\ SumFunctionOnSet(s.assigned, DOMAIN caps) + s.remaining
         = SumFunctionOnSet(state.assigned, DOMAIN caps) + state.remaining
    /\ \A j \in DOMAIN caps : s.assigned[j] >= state.assigned[j]
    /\ \A j \in DOMAIN caps : j > k => s.assigned[j] = state.assigned[j]
    /\ \/ s.remaining = 0
       \/ s.remaining = state.remaining - quota * served
       \/ \E i \in WithRoom(state.assigned, caps) : i <= k /\ s.assigned[i] = caps[i]
    /\ quota = 1 => s.remaining = 0 \/ s.remaining = state.remaining - served

(* The next class of a pass *)
LEMMA PassedNext ==
    ASSUME NEW n \in Nat, NEW caps \in [1 .. n -> Nat], NEW state \in States(caps), NEW quota \in Nat,
           quota >= 1, NEW k \in 1 .. n, NEW s \in States(caps), Passed(s, k - 1, state, caps, quota)
    PROVE  Passed(Given(s, k, caps, quota), k, state, caps, quota)
  <1>next. PICK next : next = Given(s, k, caps, quota)
    OBVIOUS
  <1>part. PICK part : part = PartOf(s, k, caps, quota)
    OBVIOUS
  <1> DEFINE served(j) == Cardinality(ServedUpTo(j, state.assigned, caps))
             W == WithRoom(state.assigned, caps)
             sum(a) == SumFunctionOnSet(a, DOMAIN caps)
  <1>1. /\ DOMAIN caps = 1 .. n
        /\ IsFiniteSet(DOMAIN caps)
        /\ k \in DOMAIN caps
        /\ \A j \in DOMAIN caps : caps[j] \in Nat
    <2>1. DOMAIN caps = 1 .. n
      OBVIOUS
    <2>2. IsFiniteSet(1 .. n)
      BY FS_Interval
    <2> QED
      BY <2>1, <2>2
  <1>2. /\ next \in States(caps) /\ part \in Nat
        /\ part <= quota /\ part <= caps[k] - s.assigned[k] /\ part <= s.remaining
        /\ part \in {quota, caps[k] - s.assigned[k], s.remaining}
        /\ next.remaining = s.remaining - part
        /\ next.assigned[k] = s.assigned[k] + part
        /\ \A j \in DOMAIN caps \ {k} : next.assigned[j] = s.assigned[j]
    <2>1. \A j \in DOMAIN caps : caps[j] \in Nat
      BY <1>1
    <2>2. k \in DOMAIN caps
      BY <1>1
    <2>3. Gives(s, k, caps, quota, next, part)
      BY <1>next, <1>part, <2>1, <2>2, GivenType
    <2> QED
      BY <2>3 DEF Gives
  <1>3. /\ s.remaining \in Nat /\ state.remaining \in Nat
        /\ \A j \in DOMAIN caps : /\ s.assigned[j] \in Nat /\ state.assigned[j] \in Nat
                                  /\ next.assigned[j] \in Nat
    BY <1>2 DEF States
  <1>4. sum(next.assigned) + next.remaining = sum(state.assigned) + state.remaining
    <2>1. sum(next.assigned) + s.assigned[k] = sum(s.assigned) + next.assigned[k]
      <3>1. \A j \in DOMAIN caps : s.assigned[j] \in Nat /\ next.assigned[j] \in Nat
        BY <1>3
      <3>2. IsFiniteSet(DOMAIN caps) /\ k \in DOMAIN caps
        BY <1>1
      <3>3. \A j \in DOMAIN caps \ {k} : next.assigned[j] = s.assigned[j]
        BY <1>2
      <3>4. PICK D, f, g, y : D = DOMAIN caps /\ f = s.assigned /\ g = next.assigned /\ y = k
        OBVIOUS
      <3>5. \A x \in D : f[x] \in Nat /\ g[x] \in Nat
        BY <3>1, <3>4
      <3>6. \A x \in D \ {y} : g[x] = f[x]
        BY <3>3, <3>4
      <3>7. IsFiniteSet(D) /\ y \in D
        BY <3>2, <3>4
      <3>8. SumFunctionOnSet(g, D) + f[y] = SumFunctionOnSet(f, D) + g[y]
        BY <3>5, <3>6, <3>7, SumChanged
      <3> QED
        BY <3>4, <3>8
    <2>2. sum(next.assigned) \in Nat /\ sum(s.assigned) \in Nat /\ sum(state.assigned) \in Nat
      BY <1>1, <1>3, SumType
    <2>3. sum(s.assigned) + s.remaining = sum(state.assigned) + state.remaining
      BY DEF Passed
    <2>4. s.assigned[k] \in Nat /\ next.assigned[k] = s.assigned[k] + part
      BY <1>1, <1>2, <1>3
    <2>5. next.remaining = s.remaining - part
      BY <1>2
    <2>8. part \in Nat
      BY <1>2
    <2>6. s.remaining \in Nat /\ state.remaining \in Nat
      BY <1>3
    <2> HIDE DEF sum
    <2>7. sum(next.assigned) = sum(s.assigned) + part
      <3>1. PICK x, y, p, q : /\ x = sum(next.assigned) /\ y = sum(s.assigned)
                              /\ p = next.assigned[k] /\ q = s.assigned[k]
        OBVIOUS
      <3>2. x \in Nat /\ y \in Nat
        BY <2>2, <3>1
      <3>3. q \in Nat /\ p = q + part
        BY <2>4, <3>1
      <3>4. x + q = y + p
        BY <2>1, <3>1
      <3>5. x = y + part
        BY <2>8, <3>2, <3>3, <3>4
      <3> QED
        BY <3>1, <3>5
    <2> QED
      BY <2>2, <2>3, <2>5, <2>6, <2>7, <2>8
  <1>5. \A j \in DOMAIN caps : next.assigned[j] >= state.assigned[j]
    <2> SUFFICES ASSUME NEW j \in DOMAIN caps PROVE next.assigned[j] >= state.assigned[j]
      OBVIOUS
    <2>1. s.assigned[j] >= state.assigned[j]
      BY DEF Passed
    <2>2. next.assigned[j] >= s.assigned[j]
      <3>1. CASE j = k
        BY <1>2, <1>3, <3>1
      <3>2. CASE j # k
        <4>1. next.assigned[j] = s.assigned[j]
          BY <1>2, <3>2
        <4>2. s.assigned[j] \in Nat
          BY <1>3
        <4> QED
          BY <4>1, <4>2
      <3> QED
        BY <3>1, <3>2
    <2> QED
      BY <1>3, <2>1, <2>2
  <1>6. \A j \in DOMAIN caps : j > k => next.assigned[j] = state.assigned[j]
    <2> SUFFICES ASSUME NEW j \in DOMAIN caps, j > k PROVE next.assigned[j] = state.assigned[j]
      OBVIOUS
    <2>1. j # k /\ j > k - 1
      BY <1>1
    <2> QED
      BY <1>2, <2>1 DEF Passed
  <1>7. s.assigned[k] = state.assigned[k]
    <2>1. k > k - 1
      OBVIOUS
    <2> QED
      BY <1>1, <2>1 DEF Passed
  <1>8. /\ served(k - 1) \in Nat
        /\ k \in W => served(k) = served(k - 1) + 1
        /\ k \notin W => served(k) = served(k - 1)
    BY ServedNext
  <1>9. /\ \/ s.remaining = 0
           \/ s.remaining = state.remaining - quota * served(k - 1)
           \/ \E i \in W : i <= k - 1 /\ s.assigned[i] = caps[i]
        /\ quota = 1 => s.remaining = 0 \/ s.remaining = state.remaining - served(k - 1)
    BY DEF Passed
  <1>10. k \notin W => part = 0
    <2> SUFFICES ASSUME k \notin W PROVE part = 0
      OBVIOUS
    <2>1. PICK has, cap : has = s.assigned[k] /\ cap = caps[k]
      OBVIOUS
    <2>2. has \in Nat /\ cap \in Nat
      BY <1>1, <1>3, <2>1
    <2>3. ~(has < cap)
      BY <1>1, <1>7, <2>1 DEF WithRoom
    <2>4. part \in Nat /\ part <= cap - has
      BY <1>2, <2>1
    <2> QED
      BY <2>2, <2>3, <2>4
  <1>11. \/ next.remaining = 0
         \/ next.remaining = state.remaining - quota * served(k)
         \/ \E i \in W : i <= k /\ next.assigned[i] = caps[i]
    <2>1. CASE s.remaining = 0
      BY <1>2, <2>1
    <2>2. ASSUME NEW i \in W, i <= k - 1, s.assigned[i] = caps[i]
          PROVE  \E j \in W : j <= k /\ next.assigned[j] = caps[j]
      <3>1. i \in DOMAIN caps /\ i # k /\ i <= k
        BY <1>1, <2>2 DEF WithRoom
      <3> QED
        BY <1>2, <2>2, <3>1
    <2>3. CASE s.remaining = state.remaining - quota * served(k - 1)
      <3>1. CASE k \notin W
        <4>1. next.remaining = s.remaining
          BY <1>2, <1>3, <1>10, <3>1
        <4> QED
          BY <1>8, <2>3, <3>1, <4>1
      <3>2. CASE k \in W /\ part = s.remaining
        BY <1>2, <1>3, <3>2
      <3>3. CASE k \in W /\ part = caps[k] - s.assigned[k]
        <4>1. next.assigned[k] = caps[k] /\ k <= k
          BY <1>1, <1>2, <1>3, <3>3
        <4> QED
          BY <3>3, <4>1
      <3>4. CASE k \in W /\ part = quota
        <4> DEFINE m == served(k - 1)
        <4>1. m \in Nat /\ served(k) = m + 1
          BY <1>8, <3>4
        <4> HIDE DEF m, served
        <4>2. quota * (m + 1) = quota * m + quota /\ quota * m \in Nat
          BY <4>1
        <4>3. next.remaining = state.remaining - quota * m - quota
          BY <1>2, <1>3, <2>3, <3>4 DEF m
        <4> DEFINE product == quota * m
        <4>4. next.remaining = state.remaining - (product + quota)
          <5>1. product \in Nat /\ next.remaining = state.remaining - product - quota
            BY <4>2, <4>3
          <5> HIDE DEF product
          <5> QED
            BY <1>3, <5>1
        <4> QED
          BY <4>1, <4>2, <4>4
      <3> QED
        BY <1>2, <3>1, <3>2, <3>3, <3>4
    <2> QED
      BY <1>9, <2>1, <2>2, <2>3
  <1>12. quota = 1 => next.remaining = 0 \/ next.remaining = state.remaining - served(k)
    <2> SUFFICES ASSUME quota = 1 PROVE next.remaining = 0 \/ next.remaining = state.remaining - served(k)
      OBVIOUS
    <2>1. CASE s.remaining = 0
      BY <1>2, <2>1
    <2>2. CASE s.remaining # 0 /\ k \notin W
      <3>1. next.remaining = s.remaining
        BY <1>2, <1>3, <1>10, <2>2
      <3> QED
        BY <1>8, <1>9, <2>2, <3>1
    <2>3. CASE s.remaining # 0 /\ k \in W
      <3>1. s.assigned[k] < caps[k] /\ caps[k] \in Nat /\ s.assigned[k] \in Nat
        BY <1>1, <1>3, <1>7, <2>3 DEF WithRoom
      <3>2. part = 1
        BY <1>2, <1>3, <2>3, <3>1
      <3>3. s.remaining = state.remaining - served(k - 1) /\ served(k) = served(k - 1) + 1
        BY <1>8, <1>9, <2>3
      <3> HIDE DEF served
      <3> QED
        BY <1>2, <1>3, <1>8, <3>2, <3>3
    <2> QED
      BY <2>1, <2>2, <2>3
  <1> QED
    BY <1>next, <1>4, <1>5, <1>6, <1>11, <1>12 DEF Passed

(* A pass keeps the sum, and either assigns all that is left, or fills a class, or   *)
(* leaves less than one unit for each class with room; the next then assigns it all. *)
PassOf(state, next, caps) ==
    /\ next \in States(caps)
    /\ SumFunctionOnSet(next.assigned, DOMAIN caps) + next.remaining
         = SumFunctionOnSet(state.assigned, DOMAIN caps) + state.remaining
    /\ state.remaining < Eligible(state.assigned, caps) => next.remaining = 0
    /\ \/ next.remaining = 0
       \/ Eligible(next.assigned, caps) < Eligible(state.assigned, caps)
       \/ next.remaining < Eligible(next.assigned, caps)

(* The quota of a pass leaves less than one unit for each class. *)
LEMMA ShareRange ==
    ASSUME NEW R \in Nat, NEW E \in Nat \ {0}
    PROVE  /\ Max({1, R \div E}) \in Nat /\ Max({1, R \div E}) >= 1
           /\ R < E => Max({1, R \div E}) = 1
           /\ R >= E => R - Max({1, R \div E}) * E < E
  <1> DEFINE q == R \div E
             m == Max({1, q})
  <1>1. q \in Nat /\ R >= q * E /\ R < (q + 1) * E
    OBVIOUS
  <1>2. (q + 1) * E = q * E + E /\ q * E \in Nat
    BY <1>1
  <1>3. R < E => q = 0
    BY <1>1
  <1>4. R >= E => q >= 1
    <2> SUFFICES ASSUME R >= E, q < 1 PROVE FALSE
      BY <1>1
    <2>1. q = 0
      BY <1>1
    <2> QED
      BY <1>1, <2>1
  <1> HIDE DEF q
  <1>5. m \in Nat /\ m >= 1 /\ (q >= 1 => m = q) /\ (q = 0 => m = 1)
    BY <1>1, MaxOfOne
  <1> HIDE DEF m
  <1>6. R - q * E < E
    BY <1>1, <1>2
  <1> QED
    BY <1>3, <1>4, <1>5, <1>6 DEF m, q

(* All classes of a pass *)
LEMMA PassedThrough ==
    ASSUME NEW n \in Nat, NEW caps \in [1 .. n -> Nat], NEW state \in States(caps),
           Eligible(state.assigned, caps) # 0, NEW quota \in Nat, quota >= 1,
           quota = ShareOfPass(state, caps)
    PROVE  SharePass(state, caps) \in States(caps) /\ Passed(SharePass(state, caps), n, state, caps, quota)
  <1>0. PICK st : PassSteps(st, n, state, caps, quota)
    BY PassInOrder
  <1>1. /\ st \in [0 .. n -> States(caps)]
        /\ st[0] = state /\ SharePass(state, caps) = st[n]
        /\ \A k \in 1 .. n : st[k] = Given(st[k - 1], k, caps, quota)
    BY <1>0 DEF PassSteps
  <1>2. Passed(state, 0, state, caps, quota)
    <2>1. 1 \in 1 .. n
      BY RoomFinite
    <2>2. Cardinality(ServedUpTo(0, state.assigned, caps)) = 0
      BY <2>1, ServedNext
    <2>3. \A j \in DOMAIN caps : state.assigned[j] \in Nat
      BY DEF States
    <2>4. \A j \in DOMAIN caps : state.assigned[j] >= state.assigned[j]
      BY <2>3
    <2>5. state.remaining \in Nat
      BY DEF States
    <2>6. state.remaining = state.remaining - quota * 0 /\ state.remaining = state.remaining - 0
      BY <2>5
    <2> QED
      BY <2>2, <2>4, <2>6 DEF Passed
  <1> DEFINE T == {k \in Nat : k <= n /\ ~Passed(st[k], k, state, caps, quota)}
  <1>3. T = {}
    <2> SUFFICES ASSUME T # {} PROVE FALSE
      OBVIOUS
    <2>1. PICK k \in T : \A m \in T : k <= m
      <3>1. T \in SUBSET Nat
        OBVIOUS
      <3> HIDE DEF T
      <3> QED
        BY <3>1, LeastExists
    <2>2. k # 0
      BY <1>1, <1>2, <2>1
    <2>3. k \in 1 .. n /\ k - 1 \in Nat /\ k - 1 \in 0 .. n /\ k - 1 \notin T
      BY <2>1, <2>2
    <2>4. Passed(st[k - 1], k - 1, state, caps, quota) /\ st[k - 1] \in States(caps)
      BY <1>1, <2>3
    <2>5. Passed(Given(st[k - 1], k, caps, quota), k, state, caps, quota)
      BY <2>3, <2>4, PassedNext
    <2> QED
      BY <1>1, <2>1, <2>3, <2>5
  <1> QED
    BY <1>1, <1>3

(* Every pass is one. *)
LEMMA PassProgress ==
    ASSUME NEW n \in Nat, NEW caps \in [1 .. n -> Nat], NEW state \in States(caps),
           Eligible(state.assigned, caps) # 0
    PROVE  PassOf(state, SharePass(state, caps), caps)
  <1>0. PICK next, quota : next = SharePass(state, caps) /\ quota = ShareOfPass(state, caps)
    OBVIOUS
  <1>1. PICK E, R : E = Eligible(state.assigned, caps) /\ R = state.remaining
    OBVIOUS
  <1>2. E \in Nat \ {0} /\ R \in Nat
    BY <1>1, RoomFinite DEF States
  <1>3. quota \in Nat /\ quota >= 1 /\ (R < E => quota = 1) /\ (R >= E => R - quota * E < E)
    BY <1>0, <1>1, <1>2, ShareRange DEF ShareOfPass
  <1>4. next \in States(caps) /\ Passed(next, n, state, caps, quota)
    BY <1>0, <1>3, PassedThrough
  <1>5. Cardinality(ServedUpTo(n, state.assigned, caps)) = E
    <2>1. n \in 1 .. n
      BY RoomFinite
    <2> QED
      BY <1>1, <2>1, ServedNext
  <1>6. /\ \A j \in DOMAIN caps : next.assigned[j] >= state.assigned[j]
        /\ \/ next.remaining = 0
           \/ next.remaining = R - quota * E
           \/ \E i \in WithRoom(state.assigned, caps) : next.assigned[i] = caps[i]
        /\ quota = 1 => next.remaining = 0 \/ next.remaining = R - E
    BY <1>1, <1>4, <1>5 DEF Passed
  <1>7. next.remaining \in Nat
    BY <1>4 DEF States
  <1>8. R < E => next.remaining = 0
    BY <1>2, <1>3, <1>6, <1>7
  <1>9. WithRoom(next.assigned, caps) \subseteq WithRoom(state.assigned, caps)
    <2> SUFFICES ASSUME NEW i \in WithRoom(next.assigned, caps) PROVE state.assigned[i] < caps[i]
      BY DEF WithRoom
    <2>1. i \in DOMAIN caps /\ next.assigned[i] < caps[i]
      BY DEF WithRoom
    <2>2. caps[i] \in Nat /\ next.assigned[i] \in Nat /\ state.assigned[i] \in Nat
      BY <1>4, <2>1 DEF States
    <2>3. next.assigned[i] >= state.assigned[i]
      BY <1>6, <2>1
    <2> QED
      BY <2>1, <2>2, <2>3
  <1>10. PICK F : F = Eligible(next.assigned, caps)
    OBVIOUS
  <1>11. /\ F \in Nat /\ F <= E
         /\ (\E i \in WithRoom(state.assigned, caps) : next.assigned[i] = caps[i]) => F < E
    <2>1. PICK V, W : V = WithRoom(next.assigned, caps) /\ W = WithRoom(state.assigned, caps)
      OBVIOUS
    <2>2. /\ IsFiniteSet(W) /\ V \in SUBSET W
          /\ F = Cardinality(V) /\ E = Cardinality(W) /\ F \in Nat
      BY <1>1, <1>9, <1>10, <2>1, RoomFinite
    <2>3. F <= E
      BY <2>2, SubsetSize
    <2>4. ASSUME NEW i \in W, next.assigned[i] = caps[i] PROVE F < E
      <3>1. i \notin V
        <4> SUFFICES ASSUME next.assigned[i] < caps[i] PROVE FALSE
          BY <2>1 DEF WithRoom
        <4>1. caps[i] \in Nat
          BY <2>1 DEF WithRoom
        <4> QED
          BY <2>4, <4>1
      <3>2. PICK U : U = W \ {i}
        OBVIOUS
      <3>3. V \in SUBSET U /\ U \in SUBSET W
        BY <2>2, <3>1, <3>2
      <3>4. IsFiniteSet(U) /\ Cardinality(U) = E - 1
        BY <2>2, <3>2, <3>3, SubsetSize
      <3>5. Cardinality(V) <= Cardinality(U)
        BY <3>3, <3>4, SubsetSize
      <3> QED
        BY <1>2, <2>2, <3>4, <3>5
    <2> QED
      BY <2>1, <2>2, <2>3, <2>4
  <1>12. next.remaining = 0 \/ F < E \/ next.remaining < F
    <2>1. CASE next.remaining = R - quota * E
      <3>1. R >= E => next.remaining < E
        BY <1>3, <2>1
      <3>2. next.remaining = 0 \/ next.remaining < E
        BY <1>2, <1>8, <3>1
      <3> QED
        BY <1>2, <1>7, <1>11, <3>2
    <2> QED
      BY <1>6, <1>11, <2>1
  <1>13. SumFunctionOnSet(next.assigned, DOMAIN caps) + next.remaining
           = SumFunctionOnSet(state.assigned, DOMAIN caps) + state.remaining
    BY <1>4 DEF Passed
  <1>14. PassOf(state, next, caps)
    BY <1>1, <1>4, <1>8, <1>10, <1>12, <1>13 DEF PassOf
  <1> QED
    BY <1>0, <1>14

-----------------------------------------------------------------------------
(* The passes *)

Done(s, caps) == s.remaining = 0 \/ Eligible(s.assigned, caps) = 0
Nothing(caps, fund) == [assigned |-> [i \in DOMAIN caps |-> 0], remaining |-> fund]
Iterates(a, caps, fund) ==
    a = [m \in 0 .. Len(caps) + 2 |->
            IF m = 0 THEN Nothing(caps, fund)
            ELSE IF Done(a[m - 1], caps) THEN a[m - 1] ELSE SharePass(a[m - 1], caps)]

(* The initial assignments unfolded: the last of an iteration of passes *)
LEMMA PassesUnfolded ==
    ASSUME NEW policy
    PROVE  InitialAssignments(policy)
             = (CHOOSE a : Iterates(a, Caps(policy), Fundable(policy)))[Len(Caps(policy)) + 2].assigned
  BY DEF InitialAssignments, Iterates, Done, Nothing

(* What m passes over n classes have come to: they are done, or the next one is the   *)
(* last, or each of them has filled a class.                                         *)
Reached(s, m, n, caps, fund) ==
    /\ s \in States(caps)
    /\ SumFunctionOnSet(s.assigned, DOMAIN caps) + s.remaining = fund
    /\ \/ Done(s, caps)
       \/ s.remaining < Eligible(s.assigned, caps) /\ m <= n
       \/ Eligible(s.assigned, caps) + m <= n

(* The sum of zeros *)
LEMMA SumOfNone ==
    ASSUME NEW S, IsFiniteSet(S), NEW f, \A x \in S : f[x] = 0
    PROVE  SumFunctionOnSet(f, S) = 0
  <1>1. \A x \in S : f[x] \in Nat
    OBVIOUS
  <1>2. PICK g, k : g = f /\ k = 0
    OBVIOUS
  <1>3. \A x \in S : f[x] \in Nat /\ g[x] = f[x] * k
    BY <1>2
  <1>4. k \in Nat
    BY <1>2
  <1>5. SumFunctionOnSet(g, S) = SumFunctionOnSet(f, S) * k
    BY <1>3, <1>4, SumScaled
  <1>6. SumFunctionOnSet(f, S) \in Nat
    BY <1>1, SumType
  <1> QED
    BY <1>2, <1>5, <1>6

(* The domain of the caps *)
LEMMA DomainOf ==
    ASSUME NEW n \in Nat, NEW caps \in [1 .. n -> Nat]
    PROVE  /\ DOMAIN caps = 1 .. n /\ IsFiniteSet(DOMAIN caps)
           /\ \A j \in DOMAIN caps : caps[j] \in Nat
  <1>1. DOMAIN caps = 1 .. n
    OBVIOUS
  <1>2. IsFiniteSet(1 .. n)
    BY FS_Interval
  <1> QED
    BY <1>1, <1>2

(* Before the first pass *)
LEMMA NothingReached ==
    ASSUME NEW n \in Nat, NEW caps \in [1 .. n -> Nat], NEW fund \in Nat
    PROVE  Reached(Nothing(caps, fund), 0, n, caps, fund)
  <1>1. PICK D : D = DOMAIN caps
    OBVIOUS
  <1>2. IsFiniteSet(D) /\ \A j \in D : caps[j] \in Nat
    BY <1>1, DomainOf
  <1>3. PICK f : f = [i \in D |-> 0]
    OBVIOUS
  <1>4. f \in [D -> Nat] /\ \A i \in D : f[i] = 0 /\ f[i] <= caps[i]
    BY <1>2, <1>3
  <1>5. PICK s : s = Nothing(caps, fund)
    OBVIOUS
  <1>6. s = [assigned |-> f, remaining |-> fund]
    BY <1>1, <1>3, <1>5 DEF Nothing
  <1>7. s.assigned = f /\ s.remaining = fund
    BY <1>6
  <1>8. s \in States(caps)
    <2>1. s \in [assigned : [D -> Nat], remaining : Nat]
      BY <1>4, <1>6
    <2> QED
      BY <1>1, <1>4, <1>7, <2>1 DEF States
  <1>9. SumFunctionOnSet(f, D) = 0
    BY <1>2, <1>4, SumOfNone
  <1>10. PICK E : E = Eligible(f, caps)
    OBVIOUS
  <1>11. E \in Nat /\ E <= n
    BY <1>10, RoomFinite
  <1>12. E + 0 <= n
    BY <1>11
  <1>13. Reached(s, 0, n, caps, fund)
    BY <1>1, <1>7, <1>8, <1>9, <1>10, <1>12 DEF Reached
  <1> QED
    BY <1>5, <1>13

(* One pass more *)
LEMMA PassReaches ==
    ASSUME NEW n \in Nat, NEW caps \in [1 .. n -> Nat], NEW fund \in Nat, NEW m \in Nat,
           NEW s, Reached(s, m, n, caps, fund)
    PROVE  Reached(IF Done(s, caps) THEN s ELSE SharePass(s, caps), m + 1, n, caps, fund)
  <1>1. CASE Done(s, caps)
    BY <1>1 DEF Reached
  <1>2. CASE ~Done(s, caps)
    <2>1. PICK next : next = SharePass(s, caps)
      OBVIOUS
    <2>2. PICK E, F : E = Eligible(s.assigned, caps) /\ F = Eligible(next.assigned, caps)
      OBVIOUS
    <2>3. s \in States(caps) /\ E # 0
      BY <1>2, <2>2 DEF Reached, Done
    <2>4. PassOf(s, next, caps)
      BY <2>1, <2>2, <2>3, PassProgress
    <2>5. next \in States(caps) /\ next.remaining \in Nat /\ s.remaining \in Nat /\ E \in Nat /\ F \in Nat
      BY <2>2, <2>3, <2>4, RoomFinite DEF PassOf, States
    <2>6. /\ s.remaining < E => next.remaining = 0
          /\ next.remaining = 0 \/ F < E \/ next.remaining < F
      BY <2>2, <2>4 DEF PassOf
    <2>7. (s.remaining < E /\ m <= n) \/ E + m <= n
      BY <1>2, <2>2 DEF Reached
    <2>8. next.remaining = 0 \/ (next.remaining < F /\ m + 1 <= n) \/ F + (m + 1) <= n
      BY <2>3, <2>5, <2>6, <2>7
    <2>9. SumFunctionOnSet(next.assigned, DOMAIN caps) + next.remaining = fund
      BY <2>4 DEF Reached, PassOf
    <2>10. Reached(next, m + 1, n, caps, fund)
      BY <2>2, <2>5, <2>8, <2>9 DEF Reached, Done
    <2> QED
      BY <1>2, <2>1, <2>10
  <1> QED
    BY <1>1, <1>2

(* After the last pass *)
LEMMA PassesReach ==
    ASSUME NEW n \in Nat, NEW caps \in [1 .. n -> Nat], NEW fund \in Nat,
           NEW a, Iterates(a, caps, fund)
    PROVE  Reached(a[n + 2], n + 2, n, caps, fund)
  <1>1. Len(caps) = n
    BY LengthOf
  <1>2. a[0] = Nothing(caps, fund)
    BY <1>1 DEF Iterates
  <1>3. ASSUME NEW m \in 1 .. n + 2
        PROVE  a[m] = IF Done(a[m - 1], caps) THEN a[m - 1] ELSE SharePass(a[m - 1], caps)
    BY <1>1 DEF Iterates
  <1> DEFINE T == {m \in Nat : m <= n + 2 /\ ~Reached(a[m], m, n, caps, fund)}
  <1>4. T = {}
    <2> SUFFICES ASSUME T # {} PROVE FALSE
      OBVIOUS
    <2>1. PICK m \in T : \A k \in T : m <= k
      <3>1. T \in SUBSET Nat
        OBVIOUS
      <3> HIDE DEF T
      <3> QED
        BY <3>1, LeastExists
    <2>2. m # 0
      BY <1>2, <2>1, NothingReached
    <2>3. PICK k : k = m - 1
      OBVIOUS
    <2>4. k \in Nat /\ k + 1 = m /\ m \in 1 .. n + 2 /\ k \notin T /\ k <= n + 2
      BY <2>1, <2>2, <2>3
    <2>5. Reached(a[k], k, n, caps, fund)
      BY <2>4
    <2>6. Reached(IF Done(a[k], caps) THEN a[k] ELSE SharePass(a[k], caps), m, n, caps, fund)
      BY <2>4, <2>5, PassReaches
    <2> QED
      BY <1>3, <2>1, <2>3, <2>4, <2>6
  <1> QED
    BY <1>4

(* All that is to be assigned is. *)
LEMMA ReachedAll ==
    ASSUME NEW n \in Nat, NEW caps \in [1 .. n -> Nat], NEW fund \in Nat,
           fund <= SumFunctionOnSet(caps, DOMAIN caps), NEW s, Reached(s, n + 2, n, caps, fund)
    PROVE  SumFunctionOnSet(s.assigned, DOMAIN caps) = fund
  <1>1. PICK D, f, E : D = DOMAIN caps /\ f = s.assigned /\ E = Eligible(f, caps)
    OBVIOUS
  <1>2. IsFiniteSet(D) /\ \A j \in D : caps[j] \in Nat
    BY <1>1, DomainOf
  <1>3. s.remaining \in Nat /\ \A j \in D : f[j] \in Nat /\ f[j] <= caps[j]
    BY <1>1 DEF Reached, States
  <1>4. E \in Nat
    BY <1>1, RoomFinite
  <1>5. Done(s, caps)
    <2>1. Done(s, caps) \/ (s.remaining < E /\ n + 2 <= n) \/ E + (n + 2) <= n
      BY <1>1 DEF Reached
    <2> QED
      BY <1>4, <2>1
  <1>6. SumFunctionOnSet(f, D) \in Nat /\ SumFunctionOnSet(f, D) + s.remaining = fund
    BY <1>1, <1>2, <1>3, SumType DEF Reached
  <1>7. CASE s.remaining = 0
    BY <1>1, <1>6, <1>7
  <1>8. CASE E = 0
    <2>1. WithRoom(f, caps) = {}
      BY <1>1, <1>8, RoomFinite
    <2>2. \A j \in D : ~(f[j] < caps[j])
      BY <1>1, <2>1 DEF WithRoom
    <2>3. \A j \in D : f[j] = caps[j]
      BY <1>2, <1>3, <2>2
    <2>4. SumFunctionOnSet(f, D) = SumFunctionOnSet(caps, D)
      BY <1>2, <2>3, SumAgrees
    <2>5. fund <= SumFunctionOnSet(f, D)
      BY <1>1, <2>4
    <2> QED
      BY <1>1, <1>3, <1>6, <2>5
  <1> QED
    BY <1>1, <1>5, <1>7, <1>8 DEF Done

(* There is such an iteration. *)
LEMMA IteratesExists ==
    ASSUME NEW n \in Nat, NEW caps \in [1 .. n -> Nat], NEW fund \in Nat
    PROVE  \E a : Iterates(a, caps, fund)
  <1> DEFINE A == States(caps)
             F == [s \in A |-> IF Done(s, caps) THEN s ELSE SharePass(s, caps)]
             base == Nothing(caps, fund)
  <1>1. Len(caps) = n
    BY LengthOf
  <1>2. base \in A
    BY NothingReached DEF Reached
  <1>3. F \in [A -> A]
    <2>1. ASSUME NEW s \in A, ~Done(s, caps) PROVE SharePass(s, caps) \in A
      BY <2>1, PassProgress DEF PassOf, Done
    <2> HIDE DEF A
    <2> QED
      BY <2>1
  <1>4. n + 2 \in Nat
    OBVIOUS
  <1>0. PICK h : Iteration(h, n + 2, A, base, F)
    <2> HIDE DEF F, A, base
    <2> QED
      BY <1>2, <1>3, <1>4, IterationExists
  <1>5. h \in [0 .. n + 2 -> A] /\ h = [m \in 0 .. n + 2 |-> IF m = 0 THEN base ELSE F[h[m - 1]]]
    BY <1>0 DEF Iteration
  <1>6. ASSUME NEW m \in 0 .. n + 2, m # 0
        PROVE  F[h[m - 1]] = IF Done(h[m - 1], caps) THEN h[m - 1] ELSE SharePass(h[m - 1], caps)
    <2>1. m - 1 \in 0 .. n + 2
      BY <1>6
    <2>2. h[m - 1] \in A
      BY <1>5, <2>1
    <2> HIDE DEF A
    <2> QED
      BY <2>2
  <1>7. h = [m \in 0 .. n + 2 |-> IF m = 0 THEN base
                                 ELSE IF Done(h[m - 1], caps) THEN h[m - 1] ELSE SharePass(h[m - 1], caps)]
    <2> HIDE DEF F, A, base
    <2> QED
      BY <1>5, <1>6
  <1>8. Iterates(h, caps, fund)
    BY <1>1, <1>7 DEF Iterates
  <1> QED
    BY <1>8

(* The initial assignments stay within the caps and come to all that may be funded. *)
LEMMA AssignmentsAreExact ==
    ASSUME NEW policy, NEW n \in Nat, Caps(policy) \in [1 .. n -> Nat], policy.retention.soft \in Nat
    PROVE  /\ InitialAssignments(policy) \in [1 .. n -> Nat]
           /\ \A i \in 1 .. n : InitialAssignments(policy)[i] <= Caps(policy)[i]
           /\ SaturatingSum(InitialAssignments(policy)) = Fundable(policy)
  <1>1. PICK caps, fund, D : caps = Caps(policy) /\ fund = Fundable(policy) /\ D = DOMAIN caps
    OBVIOUS
  <1>2. /\ caps \in [1 .. n -> Nat] /\ D = 1 .. n
        /\ IsFiniteSet(D)
        /\ \A j \in D : caps[j] \in Nat
    BY <1>1, DomainOf
  <1>3. PICK whole : whole = SumFunctionOnSet(caps, D)
    OBVIOUS
  <1>4. whole \in Nat
    BY <1>2, <1>3, SumType
  <1>5. fund = Smaller(policy.retention.soft, Smaller(whole, MaxSize))
    BY <1>1, <1>2, <1>3, SaturatingSumIs DEF Fundable
  <1>6. fund \in Nat /\ fund <= whole /\ fund <= MaxSize
    BY <1>4, <1>5, WordAssumption DEF Smaller
  <1>7. PICK a : a = CHOOSE b : Iterates(b, caps, fund)
    OBVIOUS
  <1>8. Iterates(a, caps, fund)
    BY <1>2, <1>6, <1>7, IteratesExists
  <1>9. PICK s, f : s = a[n + 2] /\ f = s.assigned
    OBVIOUS
  <1>10. Reached(s, n + 2, n, caps, fund)
    BY <1>2, <1>6, <1>8, <1>9, PassesReach
  <1>11. SumFunctionOnSet(f, D) = fund
    BY <1>1, <1>2, <1>3, <1>6, <1>9, <1>10, ReachedAll
  <1>12. f \in [1 .. n -> Nat] /\ \A i \in 1 .. n : f[i] <= caps[i]
    BY <1>1, <1>2, <1>9, <1>10 DEF Reached, States
  <1>13. InitialAssignments(policy) = f
    <2>1. Len(caps) = n
      BY <1>2, LengthOf
    <2> QED
      BY <1>1, <1>7, <1>9, <2>1, PassesUnfolded
  <1>14. SaturatingSum(f) = Smaller(fund, MaxSize)
    <2>1. DOMAIN f = D /\ \A i \in DOMAIN f : f[i] \in Nat
      BY <1>2, <1>12
    <2> QED
      BY <1>2, <1>11, <2>1, SaturatingSumIs
  <1>15. Smaller(fund, MaxSize) = fund
    BY <1>6, WordAssumption DEF Smaller
  <1> QED
    BY <1>1, <1>12, <1>13, <1>14, <1>15

-----------------------------------------------------------------------------
(* What a call that waits for controlMu asks for *)
Asked(c, classes, shards) ==
    /\ c.pc = "lock" /\ c.op \in {"policy", "pressure", "trim"} /\ "pc" \in DOMAIN c
    /\ c.op = "policy" => TypedPolicy(c.policy)
    /\ c.op = "pressure" => c.signal \in Signals
    /\ c.op = "trim" => /\ c.plan \in Plans /\ c.plan.buffers > 0 /\ c.plan.bytes > 0
                        /\ c.classes \subseteq classes /\ c.shards \subseteq shards
                        /\ c.shards # {} => c.classes # {}

(* A call that holds controlMu to publish a policy, and one that holds it to trim *)
Publishing(c) ==
    /\ {"policy", "old", "planned", "class"} \subseteq DOMAIN c \/ c.pc = "publish"
    /\ TypedPolicy(c.policy) /\ PolicyValid(c.policy)
    /\ c.old.generation \in Nat
TrimsWithin(c, classes, shards) ==
    /\ {"plan", "trimmedBuffers", "trimmedBytes", "candidates", "class", "shards",
        "visitedClasses", "visitedShards"} \subseteq DOMAIN c
    /\ c.plan.buffers \in Nat /\ c.plan.bytes \in Nat
    /\ c.trimmedBuffers \in Nat /\ c.trimmedBytes \in Nat
    /\ c.trimmedBuffers <= c.plan.buffers /\ c.trimmedBytes <= c.plan.bytes
    /\ c.candidates \subseteq classes /\ c.shards \subseteq shards
    /\ c.pc = "trimShards" => c.class \in classes

Positions == {"idle", "get", "probe", "put", "retain", "gate", "lock", "assign", "publish",
              "trim", "trimShards", "drain", "follow"}
Shaped(c, classes, shards) ==
    /\ c.pc \in Positions /\ "pc" \in DOMAIN c
    /\ c.pc \in {"put", "retain"} => c.capacity \in Nat
    /\ c.pc = "gate" => Asked(c.then, classes, shards)
    /\ c.pc = "lock" => Asked(c, classes, shards)
    /\ c.pc \in {"assign", "publish"} => Publishing(c)
    /\ c.pc \in {"trim", "trimShards"} => TrimsWithin(c, classes, shards)

PoolTypes ==
    /\ runtime.generation \in Nat /\ classGeneration \in [Classes -> Nat]
    /\ stored \in [Classes -> [Shards -> Seq(Nat)]]
    /\ DOMAIN call = Threads /\ DOMAIN live = Threads
    /\ \A t \in Threads : Shaped(call[t], Classes, Shards)

(* The holder of controlMu is the call in a critical section of several steps, and it  *)
(* still publishes on the snapshot it loaded.                                     *)
ControlHeld ==
    /\ \A t \in Threads :
          controlMu = t <=> call[t].pc \in {"assign", "publish", "trim", "trimShards"}
    /\ \A t \in Threads : call[t].pc \in {"assign", "publish"} => call[t].old = runtime

(* A return has been admitted, or will be judged, by a snapshot that was in force.      *)
Admitting(past, c) == PlanReturn(past.policy, past.pressure.level, c.capacity, c.class).reason = "none"
JudgedLive ==
    \A t \in Threads :
        /\ call[t].pc = "put" => call[t].held \in live[t]
        /\ call[t].pc = "retain" => \E past \in live[t] : Admitting(past, call[t])

InProgress == {t \in Threads : call[t].pc \in {"put", "retain"}}
Accounts ==
    /\ counters \in [puts : Nat, retains : Nat, ownerDrops : Nat, classDrops : Nat]
    /\ refusals \in Nat /\ IsFiniteSet(InProgress)
    /\ ReturnsAccounted

(* The budgets of the policy in force, once they have been assigned *)
SamePlan(c) ==
    /\ runtime.policy.classes = c.policy.classes
    /\ c.pc = "assign" => /\ c.planned \in Plannable(c.policy) /\ c.class \in Classes
                          /\ \A i \in Classes : i < c.class => target[i] = c.planned[i]
    /\ c.pc = "publish" => target \in Plannable(c.policy)
BudgetsAssigned ==
    /\ DOMAIN target = Classes /\ runtime.policy.classes = config.policy.classes
    /\ \A t \in Threads : call[t].pc \in {"assign", "publish"} => SamePlan(call[t])
    /\ NoBudgetsUnderWay => BudgetsOf(runtime.policy)

-----------------------------------------------------------------------------
(* Operators *)

LEMMA BytesType ==
    ASSUME NEW stack \in Seq(Nat)
    PROVE  Bytes(stack) \in Nat /\ (stack = <<>> => Bytes(stack) = 0)
  <1>1. Bytes(stack) = SumFunctionOnSet(stack, DOMAIN stack)
    BY DEF Bytes, FoldSeq, FoldFunction, SumFunctionOnSet
  <1>2. DOMAIN stack = 1 .. Len(stack) /\ Len(stack) \in Nat /\ \A i \in DOMAIN stack : stack[i] \in Nat
    OBVIOUS
  <1>3. IsFiniteSet(DOMAIN stack)
    BY <1>2, FS_Interval
  <1>4. stack = <<>> => DOMAIN stack = {}
    OBVIOUS
  <1> QED
    BY <1>1, <1>2, <1>3, <1>4, SumType, SumEmpty

LEMMA UppermostType ==
    ASSUME NEW stack \in Seq(Nat), NEW n \in 0 .. Len(stack)
    PROVE  /\ Uppermost(stack, n) \in Seq(Nat) /\ SubSeq(stack, 1, Len(stack) - n) \in Seq(Nat)
           /\ Uppermost(stack, 0) = <<>>
  BY DEF Uppermost

(* What is trimmed from a stack is a part of it and within both limits. *)
LEMMA TrimmedWithin ==
    ASSUME NEW stack \in Seq(Nat), NEW buffers \in Nat, NEW bytes \in Nat
    PROVE  /\ TrimmedFrom(stack, buffers, bytes) \in 0 .. Len(stack)
           /\ TrimmedFrom(stack, buffers, bytes) <= buffers
           /\ Bytes(Uppermost(stack, TrimmedFrom(stack, buffers, bytes))) \in Nat
           /\ Bytes(Uppermost(stack, TrimmedFrom(stack, buffers, bytes))) <= bytes
  <1> DEFINE S == {n \in 0 .. Len(stack) : n <= buffers /\ Bytes(Uppermost(stack, n)) <= bytes}
             m == TrimmedFrom(stack, buffers, bytes)
  <1>1. Len(stack) \in Nat
    OBVIOUS
  <1>2. S \subseteq 0 .. Len(stack) /\ IsFiniteSet(S)
    <2>1. S \subseteq 0 .. Len(stack)
      OBVIOUS
    <2>2. IsFiniteSet(0 .. Len(stack))
      BY <1>1, FS_Interval
    <2> HIDE DEF S
    <2> QED
      BY <2>1, <2>2, FS_Subset
  <1>3. 0 \in S
    <2>1. 0 \in 0 .. Len(stack)
      BY <1>1
    <2>2. Bytes(Uppermost(stack, 0)) = 0
      BY <2>1, UppermostType, BytesType
    <2> QED
      BY <2>1, <2>2
  <1>4. m = Max(S)
    BY DEF TrimmedFrom
  <1>5. m \in S
    <2>1. \A x \in S : x \in Int
      OBVIOUS
    <2> HIDE DEF S, m
    <2> QED
      BY <1>2, <1>3, <1>4, <2>1, MaxType
  <1>6. Bytes(Uppermost(stack, m)) \in Nat
    BY <1>5, UppermostType, BytesType
  <1> QED
    BY <1>5, <1>6

(* Generations grow with each publication. *)
LEMMA GenerationGrows ==
    ASSUME NEW current \in Nat, NEW wanted \in Nat
    PROVE  /\ PublicationGeneration(current, wanted) \in Nat
           /\ PublicationGeneration(current, wanted) > current
  BY DEF PublicationGeneration

LEMMA EffectiveTyped ==
    /\ \A policy \in Policies : TypedPolicy(EffectivePolicy(policy))
    /\ \A c \in Configs : TypedPolicy(EffectivePolicy(c.policy))
  <1>1. DefaultShards \in {1, 2, 4, 8, 16, 32}
    <2>1. \E p \in {1, 2, 4, 8, 16, 32} : p < 2 * Procs /\ (p >= Procs \/ p = 32)
      BY ProcsAssumption
    <2> QED
      BY <2>1 DEF DefaultShards
  <1>2. DefaultShards \in Nat
    BY <1>1
  <1>3. DefaultPolicy.classes \in Seq(Nat)
    BY DEF DefaultPolicy, Policy, DoublingSizes
  <1>4. {DefaultPolicy.trim.buffers, DefaultPolicy.trim.bytes} \subseteq Nat
    BY DEF DefaultPolicy, Policy, DefaultTrim, TrimsAlways, TrimPolicy, MiB, KiB
  <1>5. DefaultPolicy.shards.shards \in Int
    BY <1>2 DEF DefaultPolicy, Policy, DefaultShardPolicy, ShardPolicy
  <1>6. \A field \in {"soft", "classBytes", "classBuffers", "shardBytes", "shardBuffers"} :
           DefaultPolicy.retention[field] \in Nat
    <2>1. DefaultPolicy.retention = DefaultRetention
      BY DEF DefaultPolicy, Policy
    <2>2. /\ DefaultRetention.soft = 32 * MiB /\ DefaultRetention.classBytes = 16 * MiB
          /\ DefaultRetention.classBuffers = DefaultShards * 32
          /\ DefaultRetention.shardBytes = 4 * MiB /\ DefaultRetention.shardBuffers = 32
      BY DEF DefaultRetention, RetentionPolicy
    <2>3. MiB \in Nat /\ DefaultShards * 32 \in Nat
      BY <1>2 DEF MiB, KiB
    <2> QED
      BY <2>1, <2>2, <2>3
  <1>7. TypedPolicy(DefaultPolicy)
    BY <1>3, <1>4, <1>5, <1>6 DEF TypedPolicy
  <1> QED
    BY <1>7, ControlAssumption DEF EffectivePolicy

-----------------------------------------------------------------------------
(* What calls are and hold *)

LEMMA ConfigKept ==
    ASSUME UNCHANGED config
    PROVE  Classes' = Classes /\ Shards' = Shards /\ NumShards' = NumShards
           /\ \A i : Size(i)' = Size(i)
  BY DEF Classes, Shards, NumShards, Size

(* The step of one call leaves the others where they are. *)
LEMMA CallMoves ==
    ASSUME DOMAIN call = Threads, NEW t \in Threads, NEW c, call' = [call EXCEPT ![t] = c]
    PROVE  /\ DOMAIN call' = Threads /\ call'[t] = c
           /\ \A u \in Threads \ {t} : call'[u] = call[u]
  OBVIOUS

LEMMA TypesKept ==
    ASSUME PoolTypes, NEW t \in Threads, NEW c, Shaped(c, Classes, Shards),
           call' = [call EXCEPT ![t] = c], config' = config, DOMAIN live' = Threads,
           runtime'.generation \in Nat, classGeneration' \in [Classes -> Nat],
           stored' \in [Classes -> [Shards -> Seq(Nat)]]
    PROVE  PoolTypes'
  <1>1. Classes' = Classes /\ Shards' = Shards
    BY ConfigKept
  <1>2. /\ DOMAIN call' = Threads /\ call'[t] = c
        /\ \A u \in Threads \ {t} : call'[u] = call[u]
    BY CallMoves DEF PoolTypes
  <1>3. \A u \in Threads : Shaped(call'[u], Classes, Shards)
    BY <1>2 DEF PoolTypes
  <1> QED
    BY <1>1, <1>2, <1>3 DEF PoolTypes

(* The same for a step that changes no more than calls *)
LEMMA TypesKeptByCall ==
    ASSUME PoolTypes, NEW t \in Threads, NEW c, Shaped(c, Classes, Shards),
           call' = [call EXCEPT ![t] = c], DOMAIN live' = Threads,
           UNCHANGED <<config, runtime, classGeneration, stored>>
    PROVE  PoolTypes'
  BY TypesKept DEF PoolTypes

LEMMA Beginning ==
    ASSUME PoolTypes, NEW t \in Threads, NEW c, Begin(t, c)
    PROVE  call' = [call EXCEPT ![t] = c] /\ DOMAIN live' = Threads /\ call[t] = Idle
  BY DEF Begin, PoolTypes

LEMMA Going ==
    ASSUME PoolTypes, NEW t \in Threads, NEW c, Goto(t, c)
    PROVE  call' = [call EXCEPT ![t] = c] /\ DOMAIN live' = Threads /\ live' = live
  BY DEF Goto, PoolTypes

LEMMA Returning ==
    ASSUME PoolTypes, NEW t \in Threads, Return(t)
    PROVE  call' = [call EXCEPT ![t] = Idle] /\ DOMAIN live' = Threads
  BY DEF Return, PoolTypes

LEMMA IdleShaped == Shaped(Idle, Classes, Shards)
  BY DEF Shaped, Idle, Positions

LEMMA StoredKept ==
    ASSUME PoolTypes, NEW i, NEW s, NEW e,
           i \in Classes /\ s \in Shards => e \in Seq(Nat)
    PROVE  [stored EXCEPT ![i][s] = e] \in [Classes -> [Shards -> Seq(Nat)]]
  BY DEF PoolTypes

-----------------------------------------------------------------------------

LEMMA InitTypes == Init => PoolTypes
  <1> SUFFICES ASSUME Init PROVE PoolTypes
    OBVIOUS
  <1>1. runtime.generation \in Nat
    BY DEF Init, Snapshot, InitialGeneration
  <1>2. stored \in [Classes -> [Shards -> Seq(Nat)]]
    BY DEF Init
  <1>3. \A t \in Threads : Shaped(call[t], Classes, Shards)
    BY IdleShaped DEF Init
  <1> QED
    BY <1>1, <1>2, <1>3 DEF Init, PoolTypes

LEMMA StartGetTypes == ASSUME PoolTypes, NEW t \in Threads, NEW size \in Sizes, StartGet(t, size) PROVE PoolTypes'
  <1> DEFINE c == [pc |-> "get", plan |-> PlanGet(runtime.policy, size),
                   fallback |-> FallbackShards(runtime.policy, NumShards)]
  <1>1. Begin(t, c)
    BY DEF StartGet
  <1>2. Shaped(c, Classes, Shards)
    BY DEF Shaped, Positions
  <1> HIDE DEF c
  <1> QED
    BY <1>1, <1>2, Beginning, TypesKeptByCall DEF StartGet, budgets

LEMMA EnterGetTypes == ASSUME PoolTypes, NEW t \in Threads, EnterGet(t) PROVE PoolTypes'
  <1>1. CASE Return(t)
    BY <1>1, Returning, IdleShaped, TypesKeptByCall DEF EnterGet, budgets
  <1>2. CASE ~Return(t)
    <2>1. PICK primary \in Shards :
             Goto(t, [pc |-> "probe", class |-> call[t].plan.class, primary |-> primary,
                      offset |-> 0, fallback |-> call[t].fallback])
      BY <1>2 DEF EnterGet, Pass
    <2> DEFINE c == [pc |-> "probe", class |-> call[t].plan.class, primary |-> primary,
                     offset |-> 0, fallback |-> call[t].fallback]
    <2>2. Shaped(c, Classes, Shards)
      BY DEF Shaped, Positions
    <2>3. Goto(t, c)
      BY <2>1
    <2> HIDE DEF c
    <2> QED
      BY <2>2, <2>3, Going, TypesKeptByCall DEF EnterGet, budgets
  <1> QED
    BY <1>1, <1>2

LEMMA ProbeTypes == ASSUME PoolTypes, NEW t \in Threads, Probe(t) PROVE PoolTypes'
  <1> DEFINE i == call[t].class
             s == ProbedShard(call[t].primary, call[t].offset, NumShards)
  <1>1. call[t].pc = "probe" /\ UNCHANGED <<config, runtime, classGeneration>>
    BY DEF Probe, budgets
  <1>2. CASE stored[i][s] # <<>> /\ stored' = [stored EXCEPT ![i][s] = Front(@)] /\ Return(t)
    <2>1. stored' = [stored EXCEPT ![i][s] = Front(stored[i][s])]
      BY <1>2
    <2>2. i \in Classes /\ s \in Shards => Front(stored[i][s]) \in Seq(Nat)
      BY <1>2 DEF PoolTypes, Front
    <2> HIDE DEF i, s
    <2>3. stored' \in [Classes -> [Shards -> Seq(Nat)]]
      BY <2>1, <2>2, StoredKept
    <2> QED
      BY <1>1, <1>2, <2>3, Returning, IdleShaped, TypesKept DEF PoolTypes
  <1>3. CASE UNCHANGED stored /\ Return(t)
    BY <1>1, <1>3, Returning, IdleShaped, TypesKeptByCall
  <1>4. CASE UNCHANGED stored /\ Goto(t, [call[t] EXCEPT !.offset = @ + 1])
    <2> DEFINE c == [call[t] EXCEPT !.offset = @ + 1]
    <2>1. c.pc = "probe" /\ "pc" \in DOMAIN c
      BY <1>1 DEF PoolTypes, Shaped
    <2>2. Goto(t, c)
      BY <1>4
    <2> HIDE DEF c
    <2>3. Shaped(c, Classes, Shards)
      BY <2>1 DEF Shaped, Positions
    <2> QED
      BY <1>1, <1>4, <2>2, <2>3, Going, TypesKeptByCall
  <1> QED
    BY <1>2, <1>3, <1>4 DEF Probe

LEMMA StartPutTypes ==
    ASSUME PoolTypes, NEW t \in Threads, NEW capacity \in Capacities, NEW origin,
           StartPut(t, capacity, origin)
    PROVE  PoolTypes'
  <1> DEFINE c == [pc |-> "put", capacity |-> capacity, origin |-> origin, held |-> LoadedByPut]
  <1>1. Begin(t, c)
    BY DEF StartPut
  <1>2. Shaped(c, Classes, Shards)
    BY ControlAssumption DEF Shaped, Positions
  <1> HIDE DEF c
  <1> QED
    BY <1>1, <1>2, Beginning, TypesKeptByCall DEF StartPut, budgets

LEMMA EnterPutTypes == ASSUME PoolTypes, NEW t \in Threads, EnterPut(t) PROVE PoolTypes'
  <1>1. CASE Return(t)
    BY <1>1, Returning, IdleShaped, TypesKeptByCall DEF EnterPut, budgets
  <1>2. CASE ~Return(t)
    <2>1. PICK s, k :
             Goto(t, [pc |-> "retain", capacity |-> call[t].capacity, class |-> k, shard |-> s])
      BY <1>2 DEF EnterPut
    <2> DEFINE c == [pc |-> "retain", capacity |-> call[t].capacity, class |-> k, shard |-> s]
    <2>2. call[t].capacity \in Nat
      BY DEF EnterPut, PoolTypes, Shaped
    <2>3. Shaped(c, Classes, Shards)
      BY <2>2 DEF Shaped, Positions
    <2>4. Goto(t, c)
      BY <2>1
    <2> HIDE DEF c
    <2> QED
      BY <2>3, <2>4, Going, TypesKeptByCall DEF EnterPut, budgets
  <1> QED
    BY <1>1, <1>2

LEMMA RetainTypes == ASSUME PoolTypes, NEW t \in Threads, Retain(t) PROVE PoolTypes'
  <1> DEFINE i == call[t].class
             s == call[t].shard
             e == Append(stored[i][s], call[t].capacity)
  <1>1. call[t].capacity \in Nat
    BY DEF Retain, PoolTypes, Shaped
  <1>2. stored' = stored \/ stored' = [stored EXCEPT ![i][s] = e]
    BY DEF Retain
  <1>3. i \in Classes /\ s \in Shards => e \in Seq(Nat)
    <2>1. ASSUME i \in Classes, s \in Shards PROVE stored[i][s] \in Seq(Nat)
      <3> HIDE DEF i, s
      <3> QED
        BY <2>1 DEF PoolTypes
    <2>2. \A stack \in Seq(Nat), n \in Nat : Append(stack, n) \in Seq(Nat)
      OBVIOUS
    <2> QED
      BY <1>1, <2>1, <2>2
  <1>4. Return(t) /\ UNCHANGED <<config, runtime, classGeneration>>
    BY DEF Retain, budgets
  <1> HIDE DEF i, s, e
  <1>5. [stored EXCEPT ![i][s] = e] \in [Classes -> [Shards -> Seq(Nat)]]
    BY <1>3, StoredKept
  <1>6. stored' \in [Classes -> [Shards -> Seq(Nat)]]
    BY <1>2, <1>5 DEF PoolTypes
  <1> QED
    BY <1>4, <1>6, Returning, IdleShaped, TypesKept DEF PoolTypes

LEMMA StartPolicyTypes ==
    ASSUME PoolTypes, NEW t \in Threads, NEW policy \in Policies, StartPolicy(t, policy)
    PROVE  PoolTypes'
  <1> DEFINE then == [pc |-> "lock", op |-> "policy", policy |-> EffectivePolicy(policy),
                      initial |-> runtime]
             c == [pc |-> "gate", then |-> then]
  <1>1. Begin(t, c)
    BY DEF StartPolicy
  <1>2. Asked(then, Classes, Shards)
    <2>1. TypedPolicy(EffectivePolicy(policy))
      BY EffectiveTyped
    <2> QED
      BY <2>1 DEF Asked
  <1> HIDE DEF then
  <1>3. Shaped(c, Classes, Shards)
    BY <1>2 DEF Shaped, Positions
  <1> HIDE DEF c
  <1> QED
    BY <1>1, <1>3, Beginning, TypesKeptByCall DEF StartPolicy, budgets

LEMMA StartPressureTypes ==
    ASSUME PoolTypes, NEW t \in Threads, NEW signal \in Signals, StartPressure(t, signal)
    PROVE  PoolTypes'
  <1> DEFINE then == [pc |-> "lock", op |-> "pressure", signal |-> signal]
             c == [pc |-> "gate", then |-> then]
  <1>1. Begin(t, c)
    BY DEF StartPressure
  <1>2. Asked(then, Classes, Shards)
    BY DEF Asked
  <1> HIDE DEF then
  <1>3. Shaped(c, Classes, Shards)
    BY <1>2 DEF Shaped, Positions
  <1> HIDE DEF c
  <1> QED
    BY <1>1, <1>3, Beginning, TypesKeptByCall DEF StartPressure, budgets

LEMMA StartTrimTypes ==
    ASSUME PoolTypes, NEW t \in Threads, NEW plan \in Plans, NEW classes \in SUBSET Classes,
           NEW shards \in SUBSET Shards, shards # {} => classes # {},
           StartTrim(t, plan, classes, shards)
    PROVE  PoolTypes'
  <1> DEFINE then == [pc |-> "lock", op |-> "trim", plan |-> plan, classes |-> classes,
                      shards |-> shards]
             c == [pc |-> "gate", then |-> then]
  <1>1. Begin(t, c)
    BY DEF StartTrim
  <1>2. Asked(then, Classes, Shards)
    BY DEF Asked, StartTrim
  <1> HIDE DEF then
  <1>3. Shaped(c, Classes, Shards)
    BY <1>2 DEF Shaped, Positions
  <1> HIDE DEF c
  <1> QED
    BY <1>1, <1>3, Beginning, TypesKeptByCall DEF StartTrim, budgets

LEMMA EnterControlTypes == ASSUME PoolTypes, NEW t \in Threads, EnterControl(t) PROVE PoolTypes'
  <1>1. CASE Return(t)
    BY <1>1, Returning, IdleShaped, TypesKeptByCall DEF EnterControl, budgets
  <1>2. CASE Goto(t, call[t].then)
    <2>1. Asked(call[t].then, Classes, Shards)
      BY DEF EnterControl, PoolTypes, Shaped
    <2>2. Shaped(call[t].then, Classes, Shards)
      BY <2>1 DEF Shaped, Asked, Positions
    <2> QED
      BY <1>2, <2>2, Going, TypesKeptByCall DEF EnterControl, budgets
  <1> QED
    BY <1>1, <1>2 DEF EnterControl, Pass

LEMMA AskedOf ==
    ASSUME PoolTypes, NEW t \in Threads, call[t].pc = "lock"
    PROVE  Asked(call[t], Classes, Shards)
  BY DEF PoolTypes, Shaped

LEMMA PlanPolicyTypes == ASSUME PoolTypes, NEW t \in Threads, PlanPolicy(t) PROVE PoolTypes'
  <1>1. PICK planned \in Plannable(PlannedFor(runtime, call[t].policy)) :
           Goto(t, [pc |-> "assign", policy |-> call[t].policy, old |-> runtime,
                    planned |-> planned, class |-> 1])
    BY DEF PlanPolicy, LoadedUnderLock
  <1> DEFINE c == [pc |-> "assign", policy |-> call[t].policy, old |-> runtime,
                   planned |-> planned, class |-> 1]
  <1>2. TypedPolicy(call[t].policy)
    BY AskedOf DEF PlanPolicy, Asked
  <1>3. PolicyValid(call[t].policy)
    BY DEF PlanPolicy, UpdateRejection
  <1>4. Shaped(c, Classes, Shards)
    BY <1>2, <1>3 DEF Shaped, Positions, Publishing, PoolTypes
  <1>5. Goto(t, c)
    BY <1>1
  <1> HIDE DEF c
  <1> QED
    BY <1>4, <1>5, Going, TypesKeptByCall DEF PlanPolicy, budgets

LEMMA AssignTypes == ASSUME PoolTypes, NEW t \in Threads, Assign(t) PROVE PoolTypes'
  <1> DEFINE i == call[t].class
             g == call[t].old.generation
             next == [pc |-> "publish", policy |-> call[t].policy, old |-> call[t].old]
             c == IF i < Len(call[t].planned) THEN [call[t] EXCEPT !.class = i + 1] ELSE next
  <1>1. /\ call[t].pc = "assign" /\ Publishing(call[t]) /\ "pc" \in DOMAIN call[t]
        /\ {"policy", "old", "planned", "class"} \subseteq DOMAIN call[t]
    BY DEF Assign, PoolTypes, Shaped, Publishing
  <1>2. Goto(t, c)
    BY DEF Assign
  <1>3. g \in Nat /\ g + 1 \in Nat
    BY <1>1 DEF Publishing
  <1>4. classGeneration' \in [Classes -> Nat]
    <2>1. classGeneration' = [classGeneration EXCEPT ![i] = PublicationGeneration(classGeneration[i], g + 1)]
      BY DEF Assign
    <2>2. i \in Classes => PublicationGeneration(classGeneration[i], g + 1) \in Nat
      BY <1>3, GenerationGrows DEF PoolTypes
    <2> HIDE DEF i, g
    <2> QED
      BY <2>1, <2>2 DEF PoolTypes
  <1>5. Shaped(c, Classes, Shards)
    <2>1. CASE i < Len(call[t].planned)
      <3> DEFINE d == [call[t] EXCEPT !.class = i + 1]
      <3>1. d.pc = "assign" /\ "pc" \in DOMAIN d /\ d.policy = call[t].policy /\ d.old = call[t].old
            /\ {"policy", "old", "planned", "class"} \subseteq DOMAIN d
        BY <1>1
      <3>2. c = d
        BY <2>1
      <3> HIDE DEF d
      <3>3. Shaped(d, Classes, Shards)
        BY <1>1, <3>1 DEF Shaped, Positions, Publishing
      <3> QED
        BY <3>2, <3>3
    <2>2. CASE ~(i < Len(call[t].planned))
      <3>1. Shaped(next, Classes, Shards)
        BY <1>1 DEF Shaped, Positions, Publishing
      <3> QED
        BY <2>2, <3>1
    <2> QED
      BY <2>1, <2>2
  <1> HIDE DEF c
  <1> QED
    BY <1>2, <1>4, <1>5, Going, TypesKept DEF Assign, PoolTypes

(* A plan of zero is not trimmed by; a trim that starts has trimmed nothing. *)
LEMMA TrimmingShaped ==
    ASSUME NEW plan, NEW candidates \in SUBSET Classes, NEW class, NEW shards \in SUBSET Shards,
           NEW at \in {"trim", "trimShards"}, at = "trimShards" => class \in Classes,
           plan.buffers \in Nat, plan.bytes \in Nat
    PROVE  /\ Shaped(Trimming(at, plan, candidates, class, shards), Classes, Shards)
           /\ Trimming(at, plan, candidates, class, shards).pc = at
  BY DEF Trimming, Shaped, Positions, TrimsWithin

(* A policy under which a contraction trims has positive limits. *)
LEMMA PlanOfPolicy ==
    ASSUME NEW old, NEW policy, TypedPolicy(policy), PolicyValid(policy), NeedsTrim(old, policy)
    PROVE  TrimPlanOf(policy).buffers \in Nat /\ TrimPlanOf(policy).bytes \in Nat
  BY DEF TypedPolicy, TrimPlanOf, TrimPlan

LEMMA ClassGenerations ==
    ASSUME PoolTypes, NEW policy, TypedPolicy(policy), PolicyValid(policy),
           config.policy.classes = policy.classes
    PROVE  Max({classGeneration[i] : i \in Classes}) \in Nat
  <1> DEFINE S == {classGeneration[i] : i \in Classes}
  <1>1. Classes = 1 .. Len(policy.classes) /\ Len(policy.classes) \in Nat
    BY DEF Classes, TypedPolicy
  <1>2. policy.classes # <<>>
    BY DEF PolicyValid, ClassesValid
  <1>3. Classes # {}
    <2> DEFINE sizes == policy.classes
    <2>1. sizes \in Seq(Nat) /\ sizes # <<>>
      BY <1>2 DEF TypedPolicy
    <2>2. Classes = 1 .. Len(sizes)
      BY <1>1
    <2> HIDE DEF sizes
    <2>3. 1 \in 1 .. Len(sizes)
      BY <2>1
    <2> QED
      BY <2>2, <2>3
  <1>4. IsFiniteSet(Classes)
    BY <1>1, FS_Interval
  <1>5. IsFiniteSet(S)
    <2>1. classGeneration \in Surjection(Classes, S)
      BY DEF PoolTypes, Surjection
    <2> HIDE DEF S
    <2> QED
      BY <1>4, <2>1, FS_Surjection
  <1>6. S # {} /\ \A x \in S : x \in Nat
    BY <1>3 DEF PoolTypes
  <1>7. \A x \in S : x \in Int
    BY <1>6
  <1> HIDE DEF S
  <1>8. Max(S) \in S
    BY <1>5, <1>6, <1>7, MaxType
  <1>9. Max(S) \in Nat
    BY <1>6, <1>8
  <1> QED
    BY <1>9 DEF S

LEMMA PublishPolicyTypes ==
    ASSUME PoolTypes, NEW t \in Threads, PublishPolicy(t)
    PROVE  PoolTypes' /\ runtime'.generation > call[t].old.generation
  <1> DEFINE policy == call[t].policy
             old == call[t].old
             generation == PublicationGeneration(old.generation, Max({classGeneration[i] : i \in Classes}))
             trims == NeedsTrim(old.policy, policy)
             c == IF trims THEN TrimClasses(TrimPlanOf(policy), FilledClasses) ELSE Idle
  <1>1. TypedPolicy(policy) /\ PolicyValid(policy) /\ old.generation \in Nat
    BY DEF PublishPolicy, PoolTypes, Shaped, Publishing
  <1>2. /\ Publish(Snapshot(generation, policy, old.pressure))
        /\ call' = [call EXCEPT ![t] = c]
    BY DEF PublishPolicy
  <1>3. /\ config.policy.classes = policy.classes
        /\ runtime' = Snapshot(generation, policy, old.pressure)
        /\ DOMAIN live' = Threads
    BY <1>2 DEF Publish, RuntimeCompatible, Snapshot
  <1>4. generation \in Nat /\ generation > old.generation
    BY <1>1, <1>3, ClassGenerations, GenerationGrows
  <1>5. runtime'.generation = generation
    BY <1>3 DEF Snapshot
  <1>6. Shaped(c, Classes, Shards)
    <2>1. CASE trims
      <3>1. TrimPlanOf(policy).buffers \in Nat /\ TrimPlanOf(policy).bytes \in Nat
        BY <1>1, <2>1, PlanOfPolicy
      <3>2. FilledClasses \in SUBSET Classes
        BY DEF FilledClasses
      <3>3. Shaped(Trimming("trim", TrimPlanOf(policy), FilledClasses, 1, {}), Classes, Shards)
        BY <3>1, <3>2, TrimmingShaped
      <3> QED
        BY <2>1, <3>3 DEF TrimClasses
    <2>2. CASE ~trims
      BY <2>2, IdleShaped
    <2> QED
      BY <2>1, <2>2
  <1>7. UNCHANGED <<config, classGeneration, stored>>
    BY DEF PublishPolicy, budgets
  <1> HIDE DEF c, generation
  <1> QED
    BY <1>2, <1>3, <1>4, <1>5, <1>6, <1>7, TypesKept DEF PoolTypes

LEMMA ApplyPressureTypes ==
    ASSUME PoolTypes, NEW t \in Threads, ApplyPressure(t)
    PROVE  PoolTypes' /\ runtime'.generation > runtime.generation
  <1> DEFINE wanted == call[t].signal.generation
             generation == PublicationGeneration(runtime.generation, wanted)
  <1>1. call[t].signal \in Signals
    BY AskedOf DEF ApplyPressure, Asked
  <1>2. wanted \in Nat
    BY <1>1, ControlAssumption
  <1>3. generation \in Nat /\ generation > runtime.generation
    BY <1>2, GenerationGrows DEF PoolTypes
  <1>4. PICK signal : Publish(Snapshot(generation, runtime.policy, signal))
    BY DEF ApplyPressure
  <1>5. runtime'.generation = generation /\ DOMAIN live' = Threads
    BY <1>4 DEF Publish, Snapshot
  <1>6. call' = [call EXCEPT ![t] = Idle] /\ UNCHANGED <<config, classGeneration, stored>>
    BY DEF ApplyPressure, budgets
  <1> HIDE DEF generation
  <1> QED
    BY <1>3, <1>5, <1>6, IdleShaped, TypesKept DEF PoolTypes

LEMMA LockTrimTypes == ASSUME PoolTypes, NEW t \in Threads, LockTrim(t) PROVE PoolTypes'
  <1> DEFINE asked == call[t]
             whole == [asked.plan EXCEPT !.classes = 0, !.shards = 0]
             c == IF asked.shards # {}
                  THEN Trimming("trimShards", whole, {}, CHOOSE i \in asked.classes : TRUE, asked.shards)
                  ELSE IF asked.classes # {} THEN TrimClasses(whole, asked.classes)
                  ELSE TrimClasses(asked.plan, FilledClasses)
  <1>1. /\ asked.plan \in Plans /\ asked.plan.buffers > 0 /\ asked.plan.bytes > 0
        /\ asked.classes \in SUBSET Classes /\ asked.shards \in SUBSET Shards
        /\ asked.shards # {} => asked.classes # {}
    BY AskedOf DEF LockTrim, Asked
  <1>2. /\ asked.plan.buffers \in Nat /\ asked.plan.bytes \in Nat
        /\ whole.buffers \in Nat /\ whole.bytes \in Nat
    <2>1. asked.plan \in [buffers : Int, bytes : Nat, classes : Int, shards : Int]
      BY <1>1, ControlAssumption
    <2>2. whole.buffers = asked.plan.buffers /\ whole.bytes = asked.plan.bytes
      BY <2>1
    <2>3. asked.plan.buffers \in Int /\ asked.plan.bytes \in Nat
      BY <2>1
    <2>4. asked.plan.buffers \in Nat
      BY <1>1, <2>3
    <2> QED
      BY <2>2, <2>3, <2>4
  <1>3. Shaped(c, Classes, Shards)
    <2> HIDE DEF whole, asked
    <2>1. CASE asked.shards # {}
      <3>1. (CHOOSE i \in asked.classes : TRUE) \in Classes
        BY <1>1, <2>1
      <3>2. {} \in SUBSET Classes
        OBVIOUS
      <3>3. Shaped(Trimming("trimShards", whole, {}, CHOOSE i \in asked.classes : TRUE, asked.shards),
                   Classes, Shards)
        BY <1>1, <1>2, <3>1, <3>2, TrimmingShaped
      <3> QED
        BY <2>1, <3>3
    <2>2. CASE asked.shards = {} /\ asked.classes # {}
      <3>1. {} \in SUBSET Shards
        OBVIOUS
      <3>2. Shaped(TrimClasses(whole, asked.classes), Classes, Shards)
        BY <1>1, <1>2, <3>1, TrimmingShaped DEF TrimClasses
      <3> QED
        BY <2>2, <3>2
    <2>3. CASE asked.shards = {} /\ asked.classes = {}
      <3>1. {} \in SUBSET Shards /\ FilledClasses \in SUBSET Classes
        BY DEF FilledClasses
      <3>2. Shaped(TrimClasses(asked.plan, FilledClasses), Classes, Shards)
        BY <1>2, <3>1, TrimmingShaped DEF TrimClasses
      <3> QED
        BY <2>3, <3>2
    <2> QED
      BY <2>1, <2>2, <2>3
  <1>4. Goto(t, c)
    BY DEF LockTrim
  <1> HIDE DEF c, asked, whole
  <1> QED
    BY <1>3, <1>4, Going, TypesKeptByCall DEF LockTrim, budgets

LEMMA TrimOf ==
    ASSUME PoolTypes, NEW t \in Threads, call[t].pc \in {"trim", "trimShards"}
    PROVE  TrimsWithin(call[t], Classes, Shards) /\ "pc" \in DOMAIN call[t]
  BY DEF PoolTypes, Shaped

LEMMA TrimClassTypes == ASSUME PoolTypes, NEW t \in Threads, TrimClass(t) PROVE PoolTypes'
  <1>1. CASE Return(t)
    BY <1>1, Returning, IdleShaped, TypesKeptByCall DEF TrimClass, budgets
  <1>2. CASE ~Return(t)
    <2>1. PICK i \in call[t].candidates :
             Goto(t, [call[t] EXCEPT !.pc = "trimShards", !.candidates = @ \ {i}, !.class = i,
                                     !.shards = Filled(i), !.visitedClasses = @ + 1,
                                     !.visitedShards = 0])
      BY <1>2 DEF TrimClass
    <2> DEFINE c == [call[t] EXCEPT !.pc = "trimShards", !.candidates = @ \ {i}, !.class = i,
                                    !.shards = Filled(i), !.visitedClasses = @ + 1,
                                    !.visitedShards = 0]
    <2>2. TrimsWithin(call[t], Classes, Shards) /\ "pc" \in DOMAIN call[t]
      BY TrimOf DEF TrimClass
    <2>3. i \in Classes /\ Filled(i) \subseteq Shards
      BY <2>2 DEF TrimsWithin, Filled
    <2>4. /\ DOMAIN c = DOMAIN call[t] /\ c.pc = "trimShards" /\ c.plan = call[t].plan
          /\ c.trimmedBuffers = call[t].trimmedBuffers /\ c.trimmedBytes = call[t].trimmedBytes
          /\ c.candidates = call[t].candidates \ {i} /\ c.class = i /\ c.shards = Filled(i)
      BY <2>2 DEF TrimsWithin
    <2>5. Goto(t, c)
      BY <2>1
    <2> HIDE DEF c
    <2>6. Shaped(c, Classes, Shards)
      BY <2>2, <2>3, <2>4 DEF Shaped, Positions, TrimsWithin
    <2> QED
      BY <2>5, <2>6, Going, TypesKeptByCall DEF TrimClass, budgets
  <1> QED
    BY <1>1, <1>2

LEMMA TrimShardTypes == ASSUME PoolTypes, NEW t \in Threads, TrimShard(t) PROVE PoolTypes'
  <1>1. /\ TrimsWithin(call[t], Classes, Shards) /\ "pc" \in DOMAIN call[t]
        /\ call[t].pc = "trimShards" /\ call[t].class \in Classes
        /\ UNCHANGED <<config, runtime, classGeneration>>
    BY TrimOf DEF TrimShard, budgets, TrimsWithin
  <1>2. CASE UNCHANGED stored /\ Goto(t, [call[t] EXCEPT !.pc = "trim"])
    <2> DEFINE c == [call[t] EXCEPT !.pc = "trim"]
    <2>1. /\ DOMAIN c = DOMAIN call[t] /\ c.pc = "trim" /\ c.plan = call[t].plan
          /\ c.trimmedBuffers = call[t].trimmedBuffers /\ c.trimmedBytes = call[t].trimmedBytes
          /\ c.candidates = call[t].candidates /\ c.shards = call[t].shards
      BY <1>1 DEF TrimsWithin
    <2>2. Goto(t, c)
      BY <1>2
    <2> HIDE DEF c
    <2>3. Shaped(c, Classes, Shards)
      BY <1>1, <2>1 DEF Shaped, Positions, TrimsWithin
    <2> QED
      BY <1>1, <1>2, <2>2, <2>3, Going, TypesKeptByCall
  <1>3. ASSUME ~LimitsReached(call[t]), NEW s \in call[t].shards,
               LET stack == stored[call[t].class][s]
                   n == TrimmedFrom(stack, Left(call[t]).buffers, Left(call[t]).bytes) IN
               /\ stored' = [stored EXCEPT ![call[t].class][s] = SubSeq(@, 1, Len(@) - n)]
               /\ Goto(t, [call[t] EXCEPT !.shards = @ \ {s}, !.visitedShards = @ + 1,
                                          !.trimmedBuffers = @ + n,
                                          !.trimmedBytes = @ + Bytes(Uppermost(stack, n))])
        PROVE  PoolTypes'
    <2> DEFINE k == call[t].class
               stack == stored[k][s]
               buffers == call[t].plan.buffers - call[t].trimmedBuffers
               bytes == call[t].plan.bytes - call[t].trimmedBytes
               n == TrimmedFrom(stack, buffers, bytes)
               m == Bytes(Uppermost(stack, n))
               e == SubSeq(stack, 1, Len(stack) - n)
               c == [call[t] EXCEPT !.shards = @ \ {s}, !.visitedShards = @ + 1,
                                    !.trimmedBuffers = @ + n, !.trimmedBytes = @ + m]
    <2>1. k \in Classes /\ s \in Shards /\ stack \in Seq(Nat)
      <3>1. s \in Shards
        BY <1>1 DEF TrimsWithin
      <3> QED
        BY <1>1, <3>1 DEF PoolTypes
    <2>2. /\ call[t].plan.buffers \in Nat /\ call[t].trimmedBuffers \in Nat
          /\ call[t].plan.bytes \in Nat /\ call[t].trimmedBytes \in Nat
          /\ call[t].trimmedBuffers <= call[t].plan.buffers
          /\ call[t].trimmedBytes <= call[t].plan.bytes
      BY <1>1 DEF TrimsWithin
    <2>3. buffers \in Nat /\ bytes \in Nat
      BY <2>2
    <2>4. n \in 0 .. Len(stack) /\ n <= buffers /\ m \in Nat /\ m <= bytes /\ n \in Nat
      <3> HIDE DEF buffers, bytes, stack
      <3>1. n \in 0 .. Len(stack) /\ n <= buffers /\ m \in Nat /\ m <= bytes
        BY <2>1, <2>3, TrimmedWithin
      <3> QED
        BY <3>1
    <2>5. e \in Seq(Nat)
      <3> HIDE DEF stack, n
      <3> QED
        BY <2>1, <2>4, UppermostType
    <2>6. /\ stored' = [stored EXCEPT ![k][s] = e] /\ Goto(t, c)
      BY <1>3 DEF Left
    <2>7. stored' \in [Classes -> [Shards -> Seq(Nat)]]
      <3> HIDE DEF k, e
      <3> QED
        BY <2>5, <2>6, StoredKept
    <2>8. /\ DOMAIN c = DOMAIN call[t] /\ c.pc = "trimShards" /\ c.plan = call[t].plan
          /\ c.candidates = call[t].candidates /\ c.shards = call[t].shards \ {s}
          /\ c.class = call[t].class
          /\ c.trimmedBuffers = call[t].trimmedBuffers + n
          /\ c.trimmedBytes = call[t].trimmedBytes + m
      <3> HIDE DEF n, m
      <3> QED
        BY <1>1 DEF TrimsWithin
    <2>9. /\ c.trimmedBuffers \in Nat /\ c.trimmedBuffers <= c.plan.buffers
          /\ c.trimmedBytes \in Nat /\ c.trimmedBytes <= c.plan.bytes
      <3>1. /\ call[t].trimmedBuffers + n \in Nat /\ call[t].trimmedBytes + m \in Nat
            /\ call[t].trimmedBuffers + n <= call[t].plan.buffers
            /\ call[t].trimmedBytes + m <= call[t].plan.bytes
        <4> HIDE DEF n, m
        <4>1. PICK x, y, v, w : /\ x = call[t].trimmedBuffers /\ y = call[t].plan.buffers
                                /\ v = call[t].trimmedBytes /\ w = call[t].plan.bytes
          OBVIOUS
        <4>2. x \in Nat /\ y \in Nat /\ v \in Nat /\ w \in Nat
          BY <2>2, <4>1
        <4>3. n \in Nat /\ n <= y - x
          BY <2>4, <4>1
        <4>4. m \in Nat /\ m <= w - v
          BY <2>4, <4>1
        <4>5. x + n \in Nat /\ v + m \in Nat /\ x + n <= y /\ v + m <= w
          BY <4>2, <4>3, <4>4
        <4> QED
          BY <4>1, <4>5
      <3> HIDE DEF n, m, c
      <3> QED
        BY <2>8, <3>1
    <2> HIDE DEF c
    <2>10. Shaped(c, Classes, Shards)
      BY <1>1, <2>8, <2>9 DEF Shaped, Positions, TrimsWithin
    <2> QED
      BY <1>1, <2>6, <2>7, <2>10, Going, TypesKept DEF PoolTypes
  <1> QED
    BY <1>2, <1>3 DEF TrimShard

LEMMA CloseTypes ==
    ASSUME PoolTypes, NEW t \in Threads, StartClose(t) \/ FinishClose(t) \/ FollowClose(t)
    PROVE  PoolTypes'
  <1>1. CASE StartClose(t)
    <2> DEFINE c == [pc |-> IF Open THEN "drain" ELSE "follow"]
    <2>1. Begin(t, c)
      BY <1>1 DEF StartClose
    <2>2. Shaped(c, Classes, Shards)
      BY DEF Shaped, Positions
    <2> HIDE DEF c
    <2> QED
      BY <1>1, <2>1, <2>2, Beginning, TypesKeptByCall DEF StartClose, budgets
  <1>2. CASE FinishClose(t)
    <2>1. stored' \in [Classes -> [Shards -> Seq(Nat)]]
      BY <1>2 DEF FinishClose, PoolTypes
    <2> QED
      BY <1>2, <2>1, Returning, IdleShaped, TypesKept DEF FinishClose, PoolTypes, budgets
  <1>3. CASE FollowClose(t)
    BY <1>3, Returning, IdleShaped, TypesKeptByCall DEF FollowClose, budgets
  <1> QED
    BY <1>1, <1>2, <1>3

LEMMA TypesStep == ASSUME PoolTypes, [Next]_vars PROVE PoolTypes'
  <1>1. ASSUME UNCHANGED vars PROVE PoolTypes'
    <2>1. Classes' = Classes /\ Shards' = Shards
      BY <1>1, ConfigKept DEF vars
    <2> QED
      BY <1>1, <2>1 DEF PoolTypes, vars, budgets
  <1>2. ASSUME NEW t \in Threads, Call(t) PROVE PoolTypes'
    <2>1. ASSUME NEW plan \in Plans, NEW i \in Classes,
                 StartTrim(t, plan, {}, {}) \/ StartTrim(t, plan, {i}, {})
                   \/ \E s \in Shards : StartTrim(t, plan, {i}, {s})
          PROVE  PoolTypes'
      <3>1. {} \in SUBSET Classes /\ {} \in SUBSET Shards /\ {i} \in SUBSET Classes /\ {i} # {}
        OBVIOUS
      <3>2. \A s \in Shards : {s} \in SUBSET Shards
        OBVIOUS
      <3> QED
        BY <2>1, <3>1, <3>2, StartTrimTypes
    <2>2. ASSUME NEW plan \in Plans, StartTrim(t, plan, {}, {}) PROVE PoolTypes'
      BY <2>2, StartTrimTypes
    <2> QED
      BY <1>2, <2>1, <2>2, StartGetTypes, StartPutTypes, StartPolicyTypes, StartPressureTypes,
         CloseTypes DEF Call
  <1>3. ASSUME NEW t \in Threads, Step(t) PROVE PoolTypes'
    BY <1>3, EnterGetTypes, ProbeTypes, EnterPutTypes, RetainTypes, EnterControlTypes,
       PlanPolicyTypes, AssignTypes, PublishPolicyTypes, ApplyPressureTypes, LockTrimTypes,
       TrimClassTypes, TrimShardTypes, CloseTypes DEF Step
  <1> QED
    BY <1>1, <1>2, <1>3 DEF Next, Rest

(* What a trim has taken so far stays within its plan. *)
LEMMA TypesHold == Spec => []PoolTypes
  <1>1. Init => PoolTypes
    BY InitTypes
  <1>2. PoolTypes /\ [Next]_vars => PoolTypes'
    BY TypesStep
  <1> QED
    BY <1>1, <1>2, PTL DEF Spec

(* A trim never removes more than its plan allows, over all the classes and shards it  *)
(* visits while returns refill them (pool_trim.go:158, 241-248).                     *)
THEOREM TrimsStayWithinPlan == Spec => []TrimsWithinPlan
  <1>1. PoolTypes => TrimsWithinPlan
    BY TrimOf DEF TrimsWithinPlan, TrimsWithin
  <1> QED
    BY <1>1, TypesHold, PTL

-----------------------------------------------------------------------------
(* controlMu *)

Critical == {"assign", "publish", "trim", "trimShards"}

(* A step of one call keeps what is known of the holder, if the call holds controlMu   *)
(* exactly in a critical section and nobody who is publishing sees another snapshot.    *)
LEMMA HeldKept ==
    ASSUME PoolTypes, ControlHeld, NEW t \in Threads, NEW c, call' = [call EXCEPT ![t] = c],
           controlMu' = t <=> c.pc \in Critical,
           \A u \in Threads \ {t} : controlMu' = u <=> controlMu = u,
           c.pc \in {"assign", "publish"} => c.old = runtime',
           runtime' = runtime \/ \A u \in Threads \ {t} : controlMu # u
    PROVE  ControlHeld'
  <1>1. call'[t] = c /\ \A u \in Threads \ {t} : call'[u] = call[u]
    BY CallMoves DEF PoolTypes
  <1>2. ASSUME NEW u \in Threads PROVE controlMu' = u <=> call'[u].pc \in Critical
    <2>1. CASE u = t
      BY <1>1, <2>1
    <2>2. CASE u # t
      BY <1>1, <2>2 DEF ControlHeld, Critical
    <2> QED
      BY <2>1, <2>2
  <1>3. ASSUME NEW u \in Threads, call'[u].pc \in {"assign", "publish"} PROVE call'[u].old = runtime'
    <2>1. CASE u = t
      BY <1>1, <1>3, <2>1
    <2>2. CASE u # t
      <3>1. call'[u] = call[u] /\ call[u].old = runtime /\ controlMu = u
        BY <1>1, <1>3, <2>2 DEF ControlHeld
      <3> QED
        BY <2>2, <3>1
    <2> QED
      BY <2>1, <2>2
  <1> QED
    BY <1>2, <1>3 DEF ControlHeld, Critical

(* A call that neither holds nor takes controlMu *)
LEMMA HeldByOthers ==
    ASSUME PoolTypes, ControlHeld, NEW t \in Threads, NEW c, call' = [call EXCEPT ![t] = c],
           call[t].pc \notin Critical, c.pc \notin Critical, UNCHANGED <<controlMu, runtime>>
    PROVE  ControlHeld'
  <1>1. controlMu # t
    BY DEF ControlHeld, Critical
  <1>2. c.pc \notin {"assign", "publish"}
    BY DEF Critical
  <1> QED
    BY <1>1, <1>2, HeldKept

(* A call that takes it, and one that goes on holding it *)
LEMMA HeldTaken ==
    ASSUME PoolTypes, ControlHeld, NEW t \in Threads, NEW c, call' = [call EXCEPT ![t] = c],
           Lock(t), c.pc \in Critical, c.pc \in {"assign", "publish"} => c.old = runtime,
           UNCHANGED runtime
    PROVE  ControlHeld'
  <1>1. controlMu = NoThread /\ controlMu' = t /\ NoThread \notin Threads
    BY ControlAssumption DEF Lock
  <1> QED
    BY <1>1, HeldKept
LEMMA HeldOn ==
    ASSUME PoolTypes, ControlHeld, NEW t \in Threads, NEW c, call' = [call EXCEPT ![t] = c],
           call[t].pc \in Critical, c.pc \in Critical,
           c.pc \in {"assign", "publish"} => c.old = runtime, UNCHANGED <<controlMu, runtime>>
    PROVE  ControlHeld'
  <1>1. controlMu = t
    BY DEF ControlHeld, Critical
  <1> QED
    BY <1>1, HeldKept

LEMMA InitHeld == Init => ControlHeld
  BY ControlAssumption DEF Init, ControlHeld, Idle

(* The steps of calls that are in no critical section *)
Outside(t) ==
    \/ Call(t) \/ EnterGet(t) \/ Probe(t) \/ EnterPut(t) \/ Retain(t) \/ EnterControl(t)
    \/ FinishClose(t) \/ FollowClose(t)
InReturn(at) == at \in {"put", "retain"}
OfReturn(t) ==
    \/ \E capacity \in Capacities : \E origin : StartPut(t, capacity, origin)
    \/ EnterPut(t)
    \/ Retain(t)
Silent(t, c) == ~InReturn(call[t].pc) /\ ~InReturn(c.pc) /\ UNCHANGED <<counters, refusals>>
Inert(t) == \E c : /\ call' = [call EXCEPT ![t] = c] /\ c.pc \notin Critical
                   /\ call[t].pc \notin Critical
                   /\ OfReturn(t) \/ Silent(t, c)
                   /\ UNCHANGED <<controlMu, runtime, config, classGeneration, target>>
                   /\ PoolTypes'
LEMMA Begun ==
    ASSUME PoolTypes, NEW t \in Threads, NEW c, Begin(t, c), c.pc \notin Critical, PoolTypes',
           OfReturn(t) \/ Silent(t, c),
           UNCHANGED <<controlMu, runtime, config, classGeneration, target>>
    PROVE  Inert(t)
  <1>1. call' = [call EXCEPT ![t] = c] /\ call[t].pc \notin Critical
    BY DEF Begin, Idle, Critical
  <1> QED
    BY <1>1 DEF Inert
LEMMA Gone ==
    ASSUME PoolTypes, NEW t \in Threads, NEW c, Goto(t, c), c.pc \notin Critical, PoolTypes',
           call[t].pc \notin Critical, OfReturn(t) \/ Silent(t, c),
           UNCHANGED <<controlMu, runtime, config, classGeneration, target>>
    PROVE  Inert(t)
  BY Going DEF Inert
LEMMA GoneHome ==
    ASSUME PoolTypes, NEW t \in Threads, Return(t), PoolTypes', call[t].pc \notin Critical,
           OfReturn(t) \/ Silent(t, Idle),
           UNCHANGED <<controlMu, runtime, config, classGeneration, target>>
    PROVE  Inert(t)
  <1>1. call' = [call EXCEPT ![t] = Idle] /\ Idle.pc \notin Critical
    BY DEF Return, Idle, Critical
  <1> QED
    BY <1>1 DEF Inert

LEMMA OutsideInert ==
    ASSUME PoolTypes, NEW t \in Threads, Outside(t), PoolTypes'
    PROVE  Inert(t)
  <1>1. CASE Call(t)
    <2>1. ASSUME NEW size \in Sizes, StartGet(t, size) PROVE Inert(t)
      <3> DEFINE c == [pc |-> "get", plan |-> PlanGet(runtime.policy, size),
                       fallback |-> FallbackShards(runtime.policy, NumShards)]
      <3>1. Begin(t, c) /\ c.pc \notin Critical /\ Silent(t, c)
        BY <2>1 DEF StartGet, Critical, Silent, InReturn, Begin, Idle
      <3> HIDE DEF c
      <3> QED
        BY <2>1, <3>1, Begun DEF StartGet, budgets
    <2>2. ASSUME NEW capacity \in Capacities, NEW origin, StartPut(t, capacity, origin)
          PROVE  Inert(t)
      <3> DEFINE c == [pc |-> "put", capacity |-> capacity, origin |-> origin,
                       held |-> LoadedByPut]
      <3>1. Begin(t, c) /\ c.pc \notin Critical
        BY <2>2 DEF StartPut, Critical
      <3> HIDE DEF c
      <3> QED
        BY <2>2, <3>1, Begun DEF StartPut, budgets, OfReturn
    <2>3. ASSUME NEW then, Begin(t, [pc |-> "gate", then |-> then]),
                 UNCHANGED <<controlMu, runtime, config, budgets, counters, refusals>>
          PROVE  Inert(t)
      <3> DEFINE c == [pc |-> "gate", then |-> then]
      <3>1. Begin(t, c) /\ c.pc \notin Critical /\ Silent(t, c)
        BY <2>3 DEF Critical, Silent, InReturn, Begin, Idle
      <3> HIDE DEF c
      <3> QED
        BY <2>3, <3>1, Begun DEF budgets
    <2>4. ASSUME StartClose(t) PROVE Inert(t)
      <3> DEFINE c == [pc |-> IF Open THEN "drain" ELSE "follow"]
      <3>1. Begin(t, c) /\ c.pc \notin Critical /\ Silent(t, c)
        BY <2>4 DEF StartClose, Critical, Silent, InReturn, Begin, Idle
      <3> HIDE DEF c
      <3> QED
        BY <2>4, <3>1, Begun DEF StartClose, budgets
    <2> QED
      BY <1>1, <2>1, <2>2, <2>3, <2>4 DEF Call, StartPolicy, StartPressure, StartTrim
  <1>2. CASE EnterGet(t)
    <2>1. /\ call[t].pc \notin Critical /\ ~InReturn(call[t].pc)
          /\ UNCHANGED <<controlMu, runtime, config, budgets, counters, refusals>>
      BY <1>2 DEF EnterGet, Critical, InReturn
    <2>2. CASE Return(t)
      <3>1. Silent(t, Idle)
        BY <2>1 DEF Silent, Idle, InReturn
      <3> QED
        BY <2>1, <2>2, <3>1, GoneHome DEF budgets
    <2>3. ASSUME NEW primary, NEW class, NEW fallback,
                 Goto(t, [pc |-> "probe", class |-> class, primary |-> primary,
                          offset |-> 0, fallback |-> fallback])
          PROVE  Inert(t)
      <3> DEFINE c == [pc |-> "probe", class |-> class, primary |-> primary,
                       offset |-> 0, fallback |-> fallback]
      <3>1. Goto(t, c) /\ c.pc \notin Critical /\ Silent(t, c)
        BY <2>1, <2>3 DEF Critical, Silent, InReturn
      <3> HIDE DEF c
      <3> QED
        BY <2>1, <3>1, Gone DEF budgets
    <2> QED
      BY <1>2, <2>2, <2>3 DEF EnterGet, Pass
  <1>3. CASE Probe(t)
    <2>1. /\ call[t].pc \notin Critical /\ ~InReturn(call[t].pc)
          /\ UNCHANGED <<controlMu, runtime, config, budgets, counters, refusals>>
      BY <1>3 DEF Probe, Critical, InReturn
    <2>2. CASE Return(t)
      <3>1. Silent(t, Idle)
        BY <2>1 DEF Silent, Idle, InReturn
      <3> QED
        BY <2>1, <2>2, <3>1, GoneHome DEF budgets
    <2>3. CASE Goto(t, [call[t] EXCEPT !.offset = @ + 1])
      <3> DEFINE c == [call[t] EXCEPT !.offset = @ + 1]
      <3>1. Goto(t, c) /\ c.pc = call[t].pc
        BY <1>3, <2>3 DEF Probe, PoolTypes, Shaped
      <3> HIDE DEF c
      <3>2. Silent(t, c)
        BY <2>1, <3>1 DEF Silent
      <3> QED
        BY <2>1, <3>1, <3>2, Gone DEF budgets
    <2> QED
      BY <1>3, <2>2, <2>3 DEF Probe
  <1>4. CASE EnterPut(t)
    <2>1. call[t].pc \notin Critical /\ UNCHANGED <<controlMu, runtime, config, budgets>>
      BY <1>4 DEF EnterPut, Critical
    <2>2. CASE Return(t)
      BY <1>4, <2>1, <2>2, GoneHome DEF budgets, OfReturn
    <2>3. ASSUME NEW s, NEW class,
                 Goto(t, [pc |-> "retain", capacity |-> call[t].capacity,
                          class |-> class, shard |-> s])
          PROVE  Inert(t)
      <3> DEFINE c == [pc |-> "retain", capacity |-> call[t].capacity,
                       class |-> class, shard |-> s]
      <3>1. Goto(t, c) /\ c.pc \notin Critical
        BY <2>3 DEF Critical
      <3> HIDE DEF c
      <3> QED
        BY <1>4, <2>1, <3>1, Gone DEF budgets, OfReturn
    <2> QED
      BY <1>4, <2>2, <2>3 DEF EnterPut
  <1>5. CASE Retain(t) \/ FinishClose(t) \/ FollowClose(t)
    <2>1. /\ call[t].pc \notin Critical /\ Return(t)
          /\ UNCHANGED <<controlMu, runtime, config, budgets>>
          /\ OfReturn(t) \/ Silent(t, Idle)
      BY <1>5 DEF Retain, FinishClose, FollowClose, Critical, OfReturn, Silent, InReturn, Idle
    <2> QED
      BY <2>1, GoneHome DEF budgets
  <1>6. CASE EnterControl(t)
    <2>1. /\ call[t].pc \notin Critical /\ ~InReturn(call[t].pc)
          /\ UNCHANGED <<controlMu, runtime, config, budgets, counters, refusals>>
      BY <1>6 DEF EnterControl, Critical, InReturn
    <2>2. CASE Return(t)
      <3>1. Silent(t, Idle)
        BY <2>1 DEF Silent, Idle, InReturn
      <3> QED
        BY <2>1, <2>2, <3>1, GoneHome DEF budgets
    <2>3. CASE Goto(t, call[t].then)
      <3>1. call[t].then.pc = "lock"
        BY <1>6 DEF EnterControl, PoolTypes, Shaped, Asked
      <3>2. call[t].then.pc \notin Critical /\ Silent(t, call[t].then)
        BY <2>1, <3>1 DEF Critical, Silent, InReturn
      <3> QED
        BY <2>1, <2>3, <3>2, Gone DEF budgets
    <2> QED
      BY <1>6, <2>2, <2>3 DEF EnterControl, Pass
  <1> QED
    BY <1>1, <1>2, <1>3, <1>4, <1>5, <1>6 DEF Outside

(* The steps of one call, and the rest *)
LEMMA StepsOfCalls ==
    ASSUME [Next]_vars, ~UNCHANGED vars
    PROVE  \E t \in Threads :
              \/ Outside(t) \/ PlanPolicy(t) \/ Assign(t) \/ PublishPolicy(t)
              \/ ApplyPressure(t) \/ LockTrim(t) \/ TrimClass(t) \/ TrimShard(t)
  BY DEF Next, Step, Outside, Rest

(* A trim goes on under controlMu until it returns. *)
LEMMA TrimMoves ==
    ASSUME PoolTypes, NEW t \in Threads, LockTrim(t) \/ TrimClass(t) \/ TrimShard(t)
    PROVE  \E c : /\ call' = [call EXCEPT ![t] = c]
                  /\ \/ c.pc \in {"trim", "trimShards"} /\ (Lock(t) \/ UNCHANGED controlMu)
                     \/ c = Idle /\ controlMu' = NoThread
  <1> DEFINE Moves == \E c : /\ call' = [call EXCEPT ![t] = c]
                             /\ \/ c.pc \in {"trim", "trimShards"} /\ (Lock(t) \/ UNCHANGED controlMu)
                                \/ c = Idle /\ controlMu' = NoThread
  <1>1. ASSUME NEW c, Goto(t, c), c.pc \in {"trim", "trimShards"}, Lock(t) \/ UNCHANGED controlMu
        PROVE  Moves
    BY <1>1 DEF Goto
  <1>2. ASSUME LockTrim(t) PROVE Moves
    <2>1. PICK at, plan, candidates, class, shards :
             at \in {"trim", "trimShards"} /\ Goto(t, Trimming(at, plan, candidates, class, shards))
      <3>1. \/ \E plan, class, shards : Goto(t, Trimming("trimShards", plan, {}, class, shards))
            \/ \E plan, candidates : Goto(t, Trimming("trim", plan, candidates, 1, {}))
        BY <1>2 DEF LockTrim, TrimClasses
      <3> QED
        BY <3>1
    <2> DEFINE c == Trimming(at, plan, candidates, class, shards)
    <2>2. Goto(t, c) /\ c.pc \in {"trim", "trimShards"}
      BY <2>1 DEF Trimming
    <2> HIDE DEF c, Moves
    <2> QED
      BY <1>1, <1>2, <2>2 DEF LockTrim
  <1>3. ASSUME TrimClass(t) PROVE Moves
    <2>1. TrimsWithin(call[t], Classes, Shards) /\ "pc" \in DOMAIN call[t]
      BY <1>3, TrimOf DEF TrimClass
    <2>2. CASE controlMu' = NoThread /\ Return(t)
      BY <2>2 DEF Return
    <2>3. ASSUME UNCHANGED controlMu, NEW i, NEW candidates, NEW shards, NEW visited,
                 Goto(t, [call[t] EXCEPT !.pc = "trimShards", !.candidates = candidates, !.class = i,
                                         !.shards = shards, !.visitedClasses = visited,
                                         !.visitedShards = 0])
          PROVE  Moves
      <3> DEFINE c == [call[t] EXCEPT !.pc = "trimShards", !.candidates = candidates, !.class = i,
                                      !.shards = shards, !.visitedClasses = visited,
                                      !.visitedShards = 0]
      <3>1. Goto(t, c) /\ c.pc = "trimShards"
        BY <2>1, <2>3
      <3> HIDE DEF c, Moves
      <3> QED
        BY <1>1, <2>3, <3>1
    <2> HIDE DEF Moves
    <2> QED
      BY <1>3, <2>2, <2>3 DEF TrimClass
  <1>4. ASSUME TrimShard(t) PROVE Moves
    <2>1. /\ TrimsWithin(call[t], Classes, Shards) /\ "pc" \in DOMAIN call[t]
          /\ call[t].pc = "trimShards" /\ UNCHANGED controlMu
      BY <1>4, TrimOf DEF TrimShard
    <2>2. CASE Goto(t, [call[t] EXCEPT !.pc = "trim"])
      <3>1. [call[t] EXCEPT !.pc = "trim"].pc = "trim"
        BY <2>1
      <3> HIDE DEF Moves
      <3> QED
        BY <1>1, <2>1, <2>2, <3>1
    <2>3. ASSUME NEW s, NEW v, NEW n, NEW m,
                 Goto(t, [call[t] EXCEPT !.shards = s, !.visitedShards = v,
                                         !.trimmedBuffers = n, !.trimmedBytes = m])
          PROVE  Moves
      <3>1. [call[t] EXCEPT !.shards = s, !.visitedShards = v, !.trimmedBuffers = n,
                            !.trimmedBytes = m].pc = "trimShards"
        BY <2>1
      <3> HIDE DEF Moves
      <3> QED
        BY <1>1, <2>1, <2>3, <3>1
    <2> HIDE DEF Moves
    <2> QED
      BY <1>4, <2>2, <2>3 DEF TrimShard
  <1> QED
    BY <1>2, <1>3, <1>4

LEMMA HeldStep ==
    ASSUME PoolTypes, PoolTypes', ControlHeld, [Next]_vars
    PROVE  ControlHeld'
  <1>1. CASE UNCHANGED vars
    BY <1>1 DEF vars, ControlHeld
  <1>2. ASSUME NEW t \in Threads, Outside(t) PROVE ControlHeld'
    <2>1. Inert(t)
      BY <1>2, OutsideInert
    <2> QED
      BY <2>1, HeldByOthers DEF Inert
  <1>3. ASSUME NEW t \in Threads, PlanPolicy(t) PROVE ControlHeld'
    <2>1. PICK planned :
             Goto(t, [pc |-> "assign", policy |-> call[t].policy, old |-> runtime,
                      planned |-> planned, class |-> 1])
      BY <1>3 DEF PlanPolicy, LoadedUnderLock
    <2> DEFINE c == [pc |-> "assign", policy |-> call[t].policy, old |-> runtime,
                     planned |-> planned, class |-> 1]
    <2>2. Goto(t, c) /\ c.pc \in Critical /\ c.old = runtime
      BY <2>1 DEF Critical
    <2> HIDE DEF c
    <2> QED
      BY <1>3, <2>2, Going, HeldTaken DEF PlanPolicy
  <1>4. ASSUME NEW t \in Threads, Assign(t) PROVE ControlHeld'
    <2>1. /\ call[t].pc = "assign" /\ call[t].pc \in Critical /\ "pc" \in DOMAIN call[t]
          /\ {"policy", "old", "planned", "class"} \subseteq DOMAIN call[t]
          /\ call[t].old = runtime /\ UNCHANGED <<controlMu, runtime>>
      BY <1>4 DEF Assign, Critical, PoolTypes, Shaped, Publishing, ControlHeld
    <2>2. CASE Goto(t, [call[t] EXCEPT !.class = call[t].class + 1])
      <3> DEFINE c == [call[t] EXCEPT !.class = call[t].class + 1]
      <3>1. Goto(t, c) /\ c.pc = "assign" /\ c.old = runtime
        BY <2>1, <2>2
      <3> HIDE DEF c
      <3> QED
        BY <2>1, <3>1, Going, HeldOn
    <2>3. CASE Goto(t, [pc |-> "publish", policy |-> call[t].policy, old |-> call[t].old])
      <3> DEFINE c == [pc |-> "publish", policy |-> call[t].policy, old |-> call[t].old]
      <3>1. Goto(t, c) /\ c.pc \in Critical /\ c.old = runtime
        BY <2>1, <2>3 DEF Critical
      <3> HIDE DEF c
      <3> QED
        BY <2>1, <3>1, Going, HeldOn
    <2> QED
      BY <1>4, <2>2, <2>3 DEF Assign
  <1>5. ASSUME NEW t \in Threads, PublishPolicy(t) PROVE ControlHeld'
    <2>1. call[t].pc = "publish" /\ controlMu = t
      BY <1>5 DEF PublishPolicy, ControlHeld
    <2> DEFINE trims == NeedsTrim(call[t].old.policy, call[t].policy)
               c == IF trims THEN TrimClasses(TrimPlanOf(call[t].policy), FilledClasses) ELSE Idle
    <2>2. /\ call' = [call EXCEPT ![t] = c] /\ controlMu' = IF trims THEN t ELSE NoThread
          /\ c.pc = IF trims THEN "trim" ELSE "idle"
      BY <1>5 DEF PublishPolicy, TrimClasses, Trimming, Idle
    <2> HIDE DEF c, trims
    <2>3. /\ controlMu' = t <=> c.pc \in Critical
          /\ c.pc \notin {"assign", "publish"}
      BY <2>2, ControlAssumption DEF Critical
    <2>4. \A u \in Threads \ {t} : controlMu # u /\ controlMu' # u
      BY <2>1, <2>2, ControlAssumption
    <2> QED
      BY <2>2, <2>3, <2>4, HeldKept
  <1>6. ASSUME NEW t \in Threads, ApplyPressure(t) PROVE ControlHeld'
    <2>1. /\ call[t].pc \notin Critical /\ controlMu = NoThread /\ controlMu' = NoThread
          /\ call' = [call EXCEPT ![t] = Idle] /\ Idle.pc \notin Critical
      BY <1>6 DEF ApplyPressure, Critical, Idle
    <2>2. \A u \in Threads : controlMu # u /\ controlMu' # u
      BY <2>1, ControlAssumption
    <2>3. Idle.pc \notin {"assign", "publish"}
      BY DEF Idle
    <2> QED
      BY <2>1, <2>2, <2>3, HeldKept
  <1>7. ASSUME NEW t \in Threads, LockTrim(t) \/ TrimClass(t) \/ TrimShard(t) PROVE ControlHeld'
    <2>1. PICK c : /\ call' = [call EXCEPT ![t] = c]
                   /\ \/ c.pc \in {"trim", "trimShards"} /\ (Lock(t) \/ UNCHANGED controlMu)
                      \/ c = Idle /\ controlMu' = NoThread
      BY <1>7, TrimMoves
    <2>2. UNCHANGED runtime /\ (call[t].pc \in Critical \/ Lock(t))
      <3>1. LockTrim(t) => UNCHANGED runtime /\ Lock(t)
        BY DEF LockTrim
      <3>2. TrimClass(t) \/ TrimShard(t) => UNCHANGED runtime /\ call[t].pc \in Critical
        BY DEF TrimClass, TrimShard, Critical
      <3> QED
        BY <1>7, <3>1, <3>2
    <2>3. CASE c.pc \in {"trim", "trimShards"}
      <3>1. c.pc \in Critical /\ c.pc \notin {"assign", "publish"}
        BY <2>3 DEF Critical
      <3>2. c # Idle
        BY <2>3 DEF Idle
      <3>3. CASE Lock(t)
        BY <2>1, <2>2, <3>1, <3>3, HeldTaken
      <3>4. CASE ~Lock(t)
        <4>1. UNCHANGED <<controlMu, runtime>> /\ call[t].pc \in Critical
          BY <2>1, <2>2, <2>3, <3>2, <3>4
        <4> QED
          BY <2>1, <3>1, <4>1, HeldOn
      <3> QED
        BY <3>3, <3>4
    <2>4. CASE c = Idle /\ controlMu' = NoThread
      <3>1. Idle.pc \notin Critical /\ Idle.pc \notin {"assign", "publish"}
        BY DEF Idle, Critical
      <3>2. controlMu \in {t, NoThread}
        BY <2>2 DEF ControlHeld, Critical, Lock
      <3>3. controlMu' # t /\ \A u \in Threads \ {t} : controlMu # u /\ controlMu' # u
        BY <2>4, <3>2, ControlAssumption
      <3> QED
        BY <2>1, <2>4, <3>1, <3>3, HeldKept
    <2> QED
      BY <2>1, <2>3, <2>4
  <1> QED
    BY <1>1, <1>2, <1>3, <1>4, <1>5, <1>6, <1>7, StepsOfCalls

LEMMA ControlHolds == Spec => [](PoolTypes /\ ControlHeld)
  <1>1. Init => PoolTypes /\ ControlHeld
    BY InitTypes, InitHeld
  <1>2. (PoolTypes /\ ControlHeld) /\ [Next]_vars => (PoolTypes /\ ControlHeld)'
    BY TypesStep, HeldStep
  <1> QED
    BY <1>1, <1>2, PTL DEF Spec

(* The snapshot changes with a publication only. *)
LEMMA RuntimeMoves ==
    ASSUME PoolTypes, PoolTypes', [Next]_vars
    PROVE  UNCHANGED runtime \/ \E t \in Threads : PublishPolicy(t) \/ ApplyPressure(t)
  <1>1. CASE UNCHANGED vars
    BY <1>1 DEF vars
  <1>2. \A t \in Threads : Outside(t) => UNCHANGED runtime
    BY OutsideInert DEF Inert
  <1>3. \A t \in Threads : PlanPolicy(t) \/ Assign(t) \/ LockTrim(t) \/ TrimClass(t) \/ TrimShard(t)
                             => UNCHANGED runtime
    BY DEF PlanPolicy, Assign, LockTrim, TrimClass, TrimShard
  <1> QED
    BY <1>1, <1>2, <1>3, StepsOfCalls

(* Each control operation replaces its half of the snapshot only, however many of      *)
(* them wait for controlMu, and the generation grows with each of them               *)
(* (pool_policy_update.go:131, pool_pressure.go:41).                                 *)
THEOREM UpdatesAreKept == Spec => UpdatesKept
  <1> DEFINE Kept ==
        /\ runtime'.policy # runtime.policy =>
              \E t \in Threads : call[t].pc = "publish" /\ call[t].policy = runtime'.policy
        /\ runtime'.pressure # runtime.pressure =>
              \E t \in Threads : call[t].pc = "lock" /\ call[t].op = "pressure"
        /\ runtime' # runtime => runtime'.generation > runtime.generation
  <1>1. PoolTypes /\ ControlHeld /\ [Next]_vars => [Kept]_vars
    <2> SUFFICES ASSUME PoolTypes, ControlHeld, [Next]_vars PROVE Kept
      OBVIOUS
    <2>1. CASE UNCHANGED runtime
      BY <2>1
    <2>2. ASSUME NEW t \in Threads, PublishPolicy(t) PROVE Kept
      <3>1. call[t].pc = "publish" /\ call[t].old = runtime
        BY <2>2 DEF PublishPolicy, ControlHeld
      <3>2. runtime'.policy = call[t].policy /\ runtime'.pressure = call[t].old.pressure
        BY <2>2 DEF PublishPolicy, Publish, Snapshot
      <3>3. runtime'.generation > runtime.generation
        BY <2>2, <3>1, PublishPolicyTypes
      <3> QED
        BY <3>1, <3>2, <3>3
    <2>3. ASSUME NEW t \in Threads, ApplyPressure(t) PROVE Kept
      <3>1. call[t].pc = "lock" /\ call[t].op = "pressure"
        BY <2>3 DEF ApplyPressure
      <3>2. runtime'.policy = runtime.policy
        BY <2>3 DEF ApplyPressure, Publish, Snapshot
      <3>3. runtime'.generation > runtime.generation
        BY <2>3, ApplyPressureTypes
      <3> QED
        BY <3>1, <3>2, <3>3
    <2> QED
      BY <2>1, <2>2, <2>3, RuntimeMoves, TypesStep
  <1> QED
    BY <1>1, ControlHolds, PTL DEF Spec, UpdatesKept

-----------------------------------------------------------------------------
(* Returns *)

(* Only its own begin and end change what is recorded of a call, except that each        *)
(* snapshot that is published is added to those a put has lived under.                *)
LEMMA LiveMoves ==
    ASSUME PoolTypes, [Next]_vars, NEW u \in Threads
    PROVE  live[u] \subseteq live'[u] \/ call'[u] = Idle \/ call[u] = Idle
  <1>1. CASE UNCHANGED vars
    BY <1>1 DEF vars
  <1>2. ASSUME NEW t \in Threads, NEW c, Begin(t, c) PROVE live[u] \subseteq live'[u] \/ call[u] = Idle
    <2>1. CASE u = t
      BY <1>2, <2>1 DEF Begin
    <2>2. CASE u # t
      BY <1>2, <2>2 DEF Begin, PoolTypes
    <2> QED
      BY <2>1, <2>2
  <1>3. ASSUME NEW t \in Threads, Return(t) PROVE live[u] \subseteq live'[u] \/ call'[u] = Idle
    <2>1. CASE u = t
      BY <1>3, <2>1 DEF Return, PoolTypes
    <2>2. CASE u # t
      BY <1>3, <2>2 DEF Return, PoolTypes
    <2> QED
      BY <2>1, <2>2
  <1>4. ASSUME NEW t, NEW c, Goto(t, c) PROVE live[u] \subseteq live'[u]
    BY <1>4 DEF Goto
  <1>5. ASSUME NEW snapshot, Publish(snapshot) PROVE live[u] \subseteq live'[u]
    BY <1>5 DEF Publish
  <1>6. ASSUME NEW t \in Threads, Call(t) PROVE live[u] \subseteq live'[u] \/ call[u] = Idle
    BY <1>2, <1>6 DEF Call, StartGet, StartPut, StartPolicy, StartPressure, StartTrim, StartClose
  <1>7. ASSUME NEW t \in Threads, Step(t) PROVE live[u] \subseteq live'[u] \/ call'[u] = Idle
    <2>1. (\E c : Goto(t, c)) \/ Return(t) \/ (\E snapshot : Publish(snapshot))
      <3>1. EnterGet(t) \/ Probe(t) \/ EnterPut(t) \/ Retain(t) \/ EnterControl(t)
              => (\E c : Goto(t, c)) \/ Return(t)
        BY DEF EnterGet, Probe, EnterPut, Retain, EnterControl, Pass
      <3>2. PlanPolicy(t) \/ Assign(t) \/ LockTrim(t) \/ TrimClass(t) \/ TrimShard(t)
              \/ FinishClose(t) \/ FollowClose(t) => (\E c : Goto(t, c)) \/ Return(t)
        BY DEF PlanPolicy, Assign, LockTrim, TrimClass, TrimShard, FinishClose, FollowClose
      <3>3. PublishPolicy(t) \/ ApplyPressure(t) => \E snapshot : Publish(snapshot)
        BY DEF PublishPolicy, ApplyPressure
      <3> QED
        BY <1>7, <3>1, <3>2, <3>3 DEF Step
    <2> QED
      BY <1>3, <1>4, <1>5, <2>1
  <1> QED
    BY <1>1, <1>6, <1>7 DEF Next, Rest

(* A return goes on to a class only from a snapshot that admits it. *)
LEMMA EnterPutAdmits ==
    ASSUME NEW policy, NEW level, NEW capacity, NEW class,
           DropReason(PlanReturn(policy, level, capacity, class)) = "none"
    PROVE  LET outcome == PlanReturn(policy, level, capacity, class)
           IN  outcome.reason = "none" /\ outcome.class = class
  <1> DEFINE outcome == PlanReturn(policy, level, capacity, class)
             pressured == PressureReturn(policy, level, capacity)
  <1>1. outcome.reason = "none"
    BY DEF DropReason
  <1>2. \/ outcome = Refused("returned_buffers_disabled", "drop")
        \/ outcome = Refused("invalid_policy", "error")
        \/ pressured.reason # "none" /\ outcome = pressured
        \/ \E action : outcome = Refused("oversized", action)
        \/ \E action : outcome = Refused("unsupported_class", action)
        \/ outcome = Offered(class)
    <2> HIDE DEF pressured
    <2>1. CASE policy.admission.returned = "drop"
      BY <2>1 DEF PlanReturn
    <2>2. CASE policy.admission.returned # "drop" /\ policy.admission.returned \notin ReturnedBufferPolicies
      BY <2>2 DEF PlanReturn
    <2>3. CASE policy.admission.returned # "drop" /\ policy.admission.returned \in ReturnedBufferPolicies
      BY <2>3 DEF PlanReturn, pressured
    <2> QED
      BY <2>1, <2>2, <2>3
  <1> HIDE DEF pressured, outcome
  <1>3. outcome = Offered(class)
    BY <1>1, <1>2 DEF Refused
  <1> QED
    BY <1>3 DEF Offered, outcome

(* The steps of other calls are silent about returns. *)
LEMMA StepsOfReturns ==
    ASSUME PoolTypes, PoolTypes', ControlHeld, ControlHeld', [Next]_vars, ~UNCHANGED vars
    PROVE  \E t \in Threads : \E c : /\ call' = [call EXCEPT ![t] = c]
                                     /\ OfReturn(t) \/ Silent(t, c)
  <1>1. PICK t \in Threads :
              \/ Outside(t) \/ PlanPolicy(t) \/ Assign(t) \/ PublishPolicy(t)
              \/ ApplyPressure(t) \/ LockTrim(t) \/ TrimClass(t) \/ TrimShard(t)
    BY StepsOfCalls
  <1>2. CASE Outside(t)
    BY <1>2, OutsideInert DEF Inert
  <1>3. CASE PublishPolicy(t)
    <2>1. PICK c : call' = [call EXCEPT ![t] = c] /\ c.pc \in {"trim", "idle"}
      <3> DEFINE trims == NeedsTrim(call[t].old.policy, call[t].policy)
                 c == IF trims THEN TrimClasses(TrimPlanOf(call[t].policy), FilledClasses) ELSE Idle
      <3>1. call' = [call EXCEPT ![t] = c]
        BY <1>3 DEF PublishPolicy
      <3>2. c.pc \in {"trim", "idle"}
        BY DEF TrimClasses, Trimming, Idle
      <3> QED
        BY <3>1, <3>2
    <2>2. call[t].pc = "publish" /\ UNCHANGED <<counters, refusals>>
      BY <1>3 DEF PublishPolicy
    <2> QED
      BY <2>1, <2>2 DEF Silent, InReturn
  <1>4. CASE ApplyPressure(t)
    <2>1. /\ call' = [call EXCEPT ![t] = Idle] /\ call[t].pc = "lock"
          /\ UNCHANGED <<counters, refusals>>
      BY <1>4 DEF ApplyPressure
    <2>2. Silent(t, Idle)
      BY <2>1 DEF Silent, InReturn, Idle
    <2> QED
      BY <2>1, <2>2
  <1>5. CASE PlanPolicy(t) \/ Assign(t) \/ LockTrim(t) \/ TrimClass(t) \/ TrimShard(t)
    <2>1. (\E c : Goto(t, c)) \/ Return(t)
      BY <1>5 DEF PlanPolicy, Assign, LockTrim, TrimClass, TrimShard
    <2>2. call' = [call EXCEPT ![t] = call'[t]]
      <3>1. PICK c : call' = [call EXCEPT ![t] = c]
        BY <2>1 DEF Goto, Return
      <3>2. call'[t] = c
        BY <3>1 DEF PoolTypes
      <3> QED
        BY <3>1, <3>2
    <2>3. call[t].pc \in Critical \cup {"lock"} /\ UNCHANGED <<counters, refusals>>
      BY <1>5 DEF PlanPolicy, Assign, LockTrim, TrimClass, TrimShard, Critical
    <2>4. controlMu' = t \/ Return(t)
      <3>1. PlanPolicy(t) \/ LockTrim(t) => controlMu' = t
        BY DEF PlanPolicy, LockTrim, Lock
      <3>2. Assign(t) \/ TrimClass(t) \/ TrimShard(t) => controlMu = t
        BY DEF Assign, TrimClass, TrimShard, ControlHeld
      <3>3. Assign(t) \/ TrimClass(t) \/ TrimShard(t) => UNCHANGED controlMu \/ Return(t)
        BY DEF Assign, TrimClass, TrimShard
      <3> QED
        BY <1>5, <3>1, <3>2, <3>3
    <2>5. call'[t].pc \in Critical \cup {"idle"}
      <3>1. controlMu' = t => call'[t].pc \in Critical
        BY DEF ControlHeld, Critical
      <3>2. Return(t) => call'[t].pc = "idle"
        BY DEF Return, Idle, PoolTypes
      <3> QED
        BY <2>4, <3>1, <3>2
    <2>6. Silent(t, call'[t])
      BY <2>3, <2>5 DEF Silent, InReturn, Critical
    <2> QED
      BY <2>2, <2>6
  <1> QED
    BY <1>1, <1>2, <1>3, <1>4, <1>5

LEMMA JudgedStep ==
    ASSUME PoolTypes, PoolTypes', ControlHeld, ControlHeld', JudgedLive, [Next]_vars
    PROVE  JudgedLive'
  <1> DEFINE Judged(u) == /\ call[u].pc = "put" => call[u].held \in live[u]
                          /\ call[u].pc = "retain" => \E past \in live[u] : Admitting(past, call[u])
  <1>1. ASSUME NEW u \in Threads, call'[u] = call[u] PROVE Judged(u)'
    <2>1. Judged(u)
      BY DEF JudgedLive
    <2>2. CASE call[u] = Idle
      BY <1>1, <2>2 DEF Idle
    <2>3. CASE live[u] \subseteq live'[u]
      BY <1>1, <2>1, <2>3 DEF Admitting
    <2> QED
      BY <1>1, <2>2, <2>3, LiveMoves
  <1>2. ASSUME NEW t \in Threads, NEW capacity, NEW origin, StartPut(t, capacity, origin)
        PROVE  Judged(t)'
    <2> DEFINE c == [pc |-> "put", capacity |-> capacity, origin |-> origin, held |-> runtime]
    <2>1. call'[t] = c /\ live'[t] = {runtime}
      BY <1>2 DEF StartPut, Begin, LoadedByPut, PoolTypes
    <2> QED
      BY <2>1
  <1>3. ASSUME NEW t \in Threads, EnterPut(t) PROVE Judged(t)'
    <2> DEFINE class == ClassOf(call[t].capacity, call[t].origin)
               outcome == PlanReturn(call[t].held.policy, call[t].held.pressure.level,
                                     call[t].capacity, class)
    <2>1. CASE Return(t)
      BY <2>1 DEF Return, Idle, PoolTypes
    <2>2. ASSUME DropReason(outcome) = "none", NEW s,
                 Goto(t, [pc |-> "retain", capacity |-> call[t].capacity, class |-> outcome.class,
                          shard |-> s])
          PROVE  Judged(t)'
      <3> DEFINE c == [pc |-> "retain", capacity |-> call[t].capacity, class |-> outcome.class,
                       shard |-> s]
      <3>1. call'[t] = c /\ live' = live
        BY <2>2 DEF Goto, PoolTypes
      <3>2. outcome.reason = "none" /\ outcome.class = class
        <4> HIDE DEF class
        <4> QED
          BY <2>2, EnterPutAdmits
      <3>3. call'[t].pc = "retain" /\ call'[t].capacity = call[t].capacity /\ call'[t].class = class
        <4> HIDE DEF outcome, class
        <4> QED
          BY <3>1, <3>2
      <3>4. call[t].held \in live[t]
        BY <1>3 DEF EnterPut, JudgedLive
      <3>5. Admitting(call[t].held, call'[t])
        <4> HIDE DEF class
        <4> QED
          BY <3>2, <3>3 DEF Admitting
      <3> HIDE DEF c, class, outcome
      <3>6. \E past \in live'[t] : Admitting(past, call'[t])
        BY <3>1, <3>4, <3>5
      <3> QED
        BY <3>3, <3>6 DEF Admitting
    <2> QED
      BY <1>3, <2>1, <2>2 DEF EnterPut
  <1>4. ASSUME NEW t \in Threads, Retain(t) PROVE Judged(t)'
    BY <1>4 DEF Retain, Return, Idle, PoolTypes
  <1>5. \A u \in Threads : Judged(u)'
    <2>1. CASE UNCHANGED vars
      BY <1>1, <2>1 DEF vars
    <2>2. CASE ~UNCHANGED vars
      <3>1. PICK t \in Threads : \E d : /\ call' = [call EXCEPT ![t] = d]
                                        /\ OfReturn(t) \/ Silent(t, d)
        BY <2>2, StepsOfReturns
      <3>4. PICK c : call' = [call EXCEPT ![t] = c] /\ (OfReturn(t) \/ Silent(t, c))
        BY <3>1
      <3>2. call'[t] = c /\ \A u \in Threads \ {t} : call'[u] = call[u]
        BY <3>4, CallMoves DEF PoolTypes
      <3>3. Judged(t)'
        BY <1>2, <1>3, <1>4, <3>4, <3>2 DEF OfReturn, Silent, InReturn
      <3> HIDE DEF Judged
      <3> QED
        BY <1>1, <3>2, <3>3
    <2> QED
      BY <2>1, <2>2
  <1> QED
    BY <1>5 DEF JudgedLive

(* A buffer is retained only if a policy and pressure that were in force at some time  *)
(* during the call admit it, although the call decides before it passes the gate, and   *)
(* any number of publications and trims may pass it by (pool_put.go:99).             *)
THEOREM RetentionIsAdmitted == Spec => RetainedUnderLivePolicy
  <1> DEFINE Both == PoolTypes /\ ControlHeld
  <1>1. Init => JudgedLive
    BY DEF Init, JudgedLive, Idle
  <1>2. Both /\ Both' /\ JudgedLive /\ [Next]_vars => JudgedLive'
    BY JudgedStep
  <1>3. Spec => []Both
    BY ControlHolds
  <1>4. Spec => []JudgedLive
    <2> HIDE DEF Both
    <2> QED
      BY <1>1, <1>2, <1>3, PTL DEF Spec
  <1>5. JudgedLive =>
          [\A t \in Threads : call[t].pc = "retain" /\ counters'.retains > counters.retains =>
             \E past \in live[t] :
                PlanReturn(past.policy, past.pressure.level, call[t].capacity,
                           call[t].class).reason = "none"]_vars
    BY DEF JudgedLive, Admitting
  <1> QED
    BY <1>4, <1>5, PTL DEF RetainedUnderLivePolicy

(* A call that starts or ends its return adds itself to those in progress or leaves. *)
LEMMA ProgressMoves ==
    ASSUME PoolTypes, IsFiniteSet(InProgress), NEW t \in Threads, NEW c,
           call' = [call EXCEPT ![t] = c]
    PROVE  /\ IsFiniteSet(InProgress') /\ Cardinality(InProgress) \in Nat
           /\ InReturn(call[t].pc) <=> InReturn(c.pc) =>
                 Cardinality(InProgress') = Cardinality(InProgress)
           /\ ~InReturn(call[t].pc) /\ InReturn(c.pc) =>
                 Cardinality(InProgress') = Cardinality(InProgress) + 1
           /\ InReturn(call[t].pc) /\ ~InReturn(c.pc) =>
                 Cardinality(InProgress') = Cardinality(InProgress) - 1
  <1>1. call'[t] = c /\ \A u \in Threads \ {t} : call'[u] = call[u]
    BY CallMoves DEF PoolTypes
  <1>2. Cardinality(InProgress) \in Nat
    BY FS_CardinalityType
  <1>3. t \in InProgress <=> InReturn(call[t].pc)
    BY DEF InProgress, InReturn
  <1>4. CASE InReturn(call[t].pc) <=> InReturn(c.pc)
    <2>1. InProgress' = InProgress
      BY <1>1, <1>4 DEF InProgress, InReturn
    <2> QED
      BY <1>2, <1>4, <2>1
  <1>5. CASE ~InReturn(call[t].pc) /\ InReturn(c.pc)
    <2>1. InProgress' = InProgress \cup {t} /\ t \notin InProgress
      BY <1>1, <1>5 DEF InProgress, InReturn
    <2>2. IsFiniteSet(InProgress') /\ Cardinality(InProgress') = Cardinality(InProgress) + 1
      BY <2>1, FS_AddElement
    <2> QED
      BY <1>2, <1>5, <2>2
  <1>6. CASE InReturn(call[t].pc) /\ ~InReturn(c.pc)
    <2>1. InProgress' = InProgress \ {t} /\ t \in InProgress
      BY <1>1, <1>6 DEF InProgress, InReturn
    <2>2. IsFiniteSet(InProgress') /\ Cardinality(InProgress') = Cardinality(InProgress) - 1
      BY <2>1, FS_RemoveElement
    <2> QED
      BY <1>2, <1>6, <2>2
  <1> QED
    BY <1>4, <1>5, <1>6

LEMMA AccountsStep ==
    ASSUME PoolTypes, PoolTypes', ControlHeld, ControlHeld', Accounts, [Next]_vars
    PROVE  Accounts'
  <1> DEFINE inside == Cardinality(InProgress)
  <1>1. /\ counters \in [puts : Nat, retains : Nat, ownerDrops : Nat, classDrops : Nat]
        /\ refusals \in Nat /\ IsFiniteSet(InProgress) /\ inside \in Nat
        /\ counters.puts = counters.retains + counters.ownerDrops + counters.classDrops
                             + refusals + inside
    <2>1. inside \in Nat
      BY FS_CardinalityType DEF Accounts
    <2> QED
      BY <2>1 DEF Accounts, ReturnsAccounted, PutsInProgress, InProgress
  <1>2. ASSUME counters' \in [puts : Nat, retains : Nat, ownerDrops : Nat, classDrops : Nat],
               refusals' \in Nat, IsFiniteSet(InProgress'),
               counters'.puts = counters'.retains + counters'.ownerDrops + counters'.classDrops
                                  + refusals' + Cardinality(InProgress')
        PROVE  Accounts'
    BY <1>2 DEF Accounts, ReturnsAccounted, PutsInProgress, InProgress
  <1>3. CASE UNCHANGED vars
    BY <1>3 DEF vars, Accounts, ReturnsAccounted, PutsInProgress, InProgress
  <1>4. ASSUME NEW t \in Threads, NEW c, call' = [call EXCEPT ![t] = c], Silent(t, c)
        PROVE  Accounts'
    <2>1. IsFiniteSet(InProgress') /\ Cardinality(InProgress') = inside
      BY <1>1, <1>4, ProgressMoves DEF Silent
    <2>2. counters' = counters /\ refusals' = refusals
      BY <1>4 DEF Silent
    <2> HIDE DEF inside
    <2> QED
      BY <1>1, <1>2, <2>1, <2>2
  <1>5. ASSUME NEW t \in Threads, NEW capacity, NEW origin, StartPut(t, capacity, origin)
        PROVE  Accounts'
    <2> DEFINE c == [pc |-> "put", capacity |-> capacity, origin |-> origin, held |-> LoadedByPut]
    <2>1. /\ call' = [call EXCEPT ![t] = c] /\ InReturn(c.pc) /\ ~InReturn(call[t].pc)
          /\ counters' = [counters EXCEPT !.puts = @ + 1] /\ refusals' = refusals
      <3>1. Begin(t, c) /\ counters' = [counters EXCEPT !.puts = @ + 1] /\ refusals' = refusals
        BY <1>5 DEF StartPut, Counted
      <3>2. InReturn(c.pc)
        BY DEF InReturn
      <3> HIDE DEF c
      <3>3. call' = [call EXCEPT ![t] = c] /\ call[t] = Idle
        BY <3>1 DEF Begin
      <3>4. ~InReturn(call[t].pc)
        BY <3>3 DEF InReturn, Idle
      <3> QED
        BY <3>1, <3>2, <3>3, <3>4
    <2> HIDE DEF c
    <2>2. IsFiniteSet(InProgress') /\ Cardinality(InProgress') = inside + 1
      BY <1>1, <2>1, ProgressMoves
    <2> HIDE DEF inside
    <2>3. /\ counters' \in [puts : Nat, retains : Nat, ownerDrops : Nat, classDrops : Nat]
          /\ counters'.puts = counters.puts + 1 /\ counters'.retains = counters.retains
          /\ counters'.ownerDrops = counters.ownerDrops
          /\ counters'.classDrops = counters.classDrops
      BY <1>1, <2>1
    <2>4. counters'.puts = counters'.retains + counters'.ownerDrops + counters'.classDrops
                             + refusals' + Cardinality(InProgress')
      BY <1>1, <2>1, <2>2, <2>3
    <2> QED
      BY <1>1, <1>2, <2>1, <2>2, <2>3, <2>4
  <1>6. ASSUME NEW t \in Threads, Return(t), InReturn(call[t].pc),
               \/ \E field \in {"ownerDrops", "retains", "classDrops"} :
                     counters' = [counters EXCEPT ![field] = @ + 1] /\ refusals' = refusals
               \/ counters' = counters /\ refusals' = refusals + 1
        PROVE  Accounts'
    <2>1. call' = [call EXCEPT ![t] = Idle] /\ ~InReturn(Idle.pc)
      BY <1>6 DEF Return, Idle, InReturn
    <2>2. IsFiniteSet(InProgress') /\ Cardinality(InProgress') = inside - 1
      BY <1>1, <1>6, <2>1, ProgressMoves
    <2> HIDE DEF inside
    <2>3. CASE counters' = counters /\ refusals' = refusals + 1
      BY <1>1, <1>2, <2>2, <2>3
    <2>4. ASSUME NEW field \in {"ownerDrops", "retains", "classDrops"},
                 counters' = [counters EXCEPT ![field] = @ + 1], refusals' = refusals
          PROVE  Accounts'
      <3>1. /\ counters' \in [puts : Nat, retains : Nat, ownerDrops : Nat, classDrops : Nat]
            /\ counters'.puts = counters.puts
        BY <1>1, <2>4
      <3>2. counters'.retains + counters'.ownerDrops + counters'.classDrops
              = counters.retains + counters.ownerDrops + counters.classDrops + 1
        BY <1>1, <2>4
      <3>3. counters'.puts = counters'.retains + counters'.ownerDrops + counters'.classDrops
                               + refusals' + Cardinality(InProgress')
        BY <1>1, <2>2, <2>4, <3>1, <3>2
      <3> QED
        BY <1>1, <1>2, <2>2, <2>4, <3>1, <3>3
    <2> QED
      BY <1>6, <2>3, <2>4
  <1>7. ASSUME NEW t \in Threads, EnterPut(t) PROVE Accounts'
    <2>1. InReturn(call[t].pc)
      BY <1>7 DEF EnterPut, InReturn
    <2>2. CASE Return(t)
      <3>1. \/ counters' = [counters EXCEPT !["ownerDrops"] = @ + 1] /\ refusals' = refusals
            \/ counters' = counters /\ refusals' = refusals + 1
            \/ \E s, k, capacity :
                  /\ Goto(t, [pc |-> "retain", capacity |-> capacity, class |-> k, shard |-> s])
        BY <1>7 DEF EnterPut, Counted
      <3>2. ~\E s, k, capacity :
                Goto(t, [pc |-> "retain", capacity |-> capacity, class |-> k, shard |-> s])
        BY <2>2 DEF Return, Goto, Idle, PoolTypes
      <3> QED
        BY <1>6, <2>1, <2>2, <3>1, <3>2
    <2>3. CASE ~Return(t)
      <3>1. PICK s, k, capacity :
               /\ Goto(t, [pc |-> "retain", capacity |-> capacity, class |-> k, shard |-> s])
        BY <1>7, <2>3 DEF EnterPut
      <3> DEFINE c == [pc |-> "retain", capacity |-> capacity, class |-> k, shard |-> s]
      <3>2. call' = [call EXCEPT ![t] = c] /\ InReturn(c.pc)
        BY <3>1 DEF Goto, InReturn
      <3>3. counters' = counters /\ refusals' = refusals
        BY <1>7, <2>3 DEF EnterPut
      <3> HIDE DEF c
      <3>4. IsFiniteSet(InProgress') /\ Cardinality(InProgress') = inside
        BY <1>1, <2>1, <3>2, ProgressMoves
      <3> HIDE DEF inside
      <3> QED
        BY <1>1, <1>2, <3>3, <3>4
    <2> QED
      BY <2>2, <2>3
  <1>8. ASSUME NEW t \in Threads, Retain(t) PROVE Accounts'
    <2>1. InReturn(call[t].pc) /\ Return(t) /\ refusals' = refusals
      BY <1>8 DEF Retain, InReturn
    <2>2. \/ counters' = [counters EXCEPT !["retains"] = @ + 1]
          \/ counters' = [counters EXCEPT !["classDrops"] = @ + 1]
      BY <1>8 DEF Retain, Counted, ClassDrop
    <2> QED
      BY <1>6, <2>1, <2>2
  <1> QED
    BY <1>3, <1>4, <1>5, <1>7, <1>8, StepsOfReturns DEF OfReturn

LEMMA InitAccounts == Init => Accounts
  <1> SUFFICES ASSUME Init PROVE Accounts
    OBVIOUS
  <1>1. InProgress = {}
    BY DEF Init, InProgress, Idle
  <1>2. IsFiniteSet(InProgress) /\ Cardinality(InProgress) = 0
    BY <1>1, FS_EmptySet
  <1> QED
    BY <1>2 DEF Init, Accounts, ReturnsAccounted, PutsInProgress, InProgress

(* Each return is counted as retained or as dropped exactly once, by its owner or by   *)
(* the class, except those that a closed Pool refused with an error                  *)
(* (pool_put.go:97, 101-117, 427).                                                  *)
THEOREM EachReturnCounted == Spec => []ReturnsAccounted
  <1> DEFINE Both == PoolTypes /\ ControlHeld
  <1>1. Init => Accounts
    BY InitAccounts
  <1>2. Both /\ Both' /\ Accounts /\ [Next]_vars => Accounts'
    BY AccountsStep
  <1>3. Spec => []Both
    BY ControlHolds
  <1>4. Accounts => ReturnsAccounted
    BY DEF Accounts
  <1> HIDE DEF Both
  <1> QED
    BY <1>1, <1>2, <1>3, <1>4, PTL DEF Spec

-----------------------------------------------------------------------------
(* Budgets *)

(* A policy that may be published has the classes of the Pool, at least one. *)
LEMMA ClassRange ==
    ASSUME NEW policy, TypedPolicy(policy), PolicyValid(policy), config.policy.classes = policy.classes
    PROVE  /\ Len(policy.classes) \in Nat /\ Len(policy.classes) >= 1
           /\ Classes = 1 .. Len(policy.classes) /\ DOMAIN policy.classes = Classes
  <1> DEFINE sizes == policy.classes
  <1>1. sizes \in Seq(Nat) /\ sizes # <<>>
    BY DEF TypedPolicy, PolicyValid, ClassesValid
  <1>2. Classes = DOMAIN sizes
    BY DEF Classes
  <1> HIDE DEF sizes
  <1>3. DOMAIN sizes = 1 .. Len(sizes) /\ Len(sizes) \in Nat /\ Len(sizes) >= 1
    BY <1>1
  <1> QED
    BY <1>2, <1>3 DEF sizes

(* Budgets that were planned for a policy are budgets of it. *)
LEMMA PlannedBudgets ==
    ASSUME NEW policy, target \in Plannable(policy), DOMAIN policy.classes = Classes
    PROVE  BudgetsOf(policy) /\ DOMAIN target = Classes
  BY DEF Plannable, BudgetsOf

(* A step that leaves the budgets and the policy alone *)
LEMMA BudgetsKept ==
    ASSUME PoolTypes, BudgetsAssigned, NEW t \in Threads, NEW c, call' = [call EXCEPT ![t] = c],
           call[t].pc \notin {"assign", "publish"}, c.pc \notin {"assign", "publish"},
           UNCHANGED <<target, config>>, runtime'.policy = runtime.policy
    PROVE  BudgetsAssigned'
  <1>1. call'[t] = c /\ \A u \in Threads \ {t} : call'[u] = call[u]
    BY CallMoves DEF PoolTypes
  <1>2. Classes' = Classes
    BY DEF Classes
  <1>3. NoBudgetsUnderWay' = NoBudgetsUnderWay
    BY <1>1 DEF NoBudgetsUnderWay
  <1>4. BudgetsOf(runtime.policy)' = BudgetsOf(runtime.policy)
    BY <1>2 DEF BudgetsOf
  <1>5. ASSUME NEW u \in Threads, call'[u].pc \in {"assign", "publish"} PROVE SamePlan(call[u])'
    <2>1. u # t /\ call'[u] = call[u]
      BY <1>1, <1>5
    <2>2. SamePlan(call[u])
      BY <1>5, <2>1 DEF BudgetsAssigned
    <2> QED
      BY <1>2, <2>1, <2>2 DEF SamePlan
  <1> QED
    BY <1>2, <1>3, <1>4, <1>5 DEF BudgetsAssigned

(* The steps of the call that publishes: nobody else does at the time. *)
LEMMA BudgetsMove ==
    ASSUME PoolTypes, ControlHeld', NEW t \in Threads, NEW c, call' = [call EXCEPT ![t] = c],
           c.pc \in {"assign", "publish"}, DOMAIN target' = Classes', SamePlan(c)',
           (runtime.policy.classes = config.policy.classes)'
    PROVE  BudgetsAssigned'
  <1>1. call'[t] = c
    BY CallMoves DEF PoolTypes
  <1>2. controlMu' = t
    BY <1>1 DEF ControlHeld
  <1>3. \A u \in Threads : call'[u].pc \in {"assign", "publish"} => u = t
    BY <1>2 DEF ControlHeld
  <1>4. ~NoBudgetsUnderWay'
    BY <1>1 DEF NoBudgetsUnderWay
  <1>5. \A u \in Threads : call'[u].pc \in {"assign", "publish"} => SamePlan(call[u])'
    BY <1>1, <1>3 DEF SamePlan
  <1> QED
    BY <1>4, <1>5 DEF BudgetsAssigned

(* The call that publishes is the only one in a critical section. *)
LEMMA PublishingEnds ==
    ASSUME PoolTypes, ControlHeld, ControlHeld', NEW t \in Threads, PublishPolicy(t)
    PROVE  \A u \in Threads : call'[u].pc \notin {"assign", "publish"}
  <1>1. call[t].pc = "publish" /\ controlMu = t
    BY DEF PublishPolicy, ControlHeld
  <1>2. controlMu' \in {t, NoThread} /\ call'[t].pc \in {"trim", "idle"}
    <2> DEFINE trims == NeedsTrim(call[t].old.policy, call[t].policy)
               c == IF trims THEN TrimClasses(TrimPlanOf(call[t].policy), FilledClasses) ELSE Idle
    <2>1. call'[t] = c /\ controlMu' \in {t, NoThread}
      BY DEF PublishPolicy, PoolTypes
    <2>2. c.pc \in {"trim", "idle"}
      BY DEF TrimClasses, Trimming, Idle
    <2> QED
      BY <2>1, <2>2
  <1> QED
    BY <1>2, ControlAssumption DEF ControlHeld

LEMMA BudgetsStep ==
    ASSUME PoolTypes, PoolTypes', ControlHeld, ControlHeld', BudgetsAssigned, [Next]_vars
    PROVE  BudgetsAssigned'
  <1>1. CASE UNCHANGED vars
    <2>1. Classes' = Classes
      BY <1>1, ConfigKept DEF vars
    <2> QED
      BY <1>1, <2>1 DEF vars, budgets, BudgetsAssigned, SamePlan, NoBudgetsUnderWay, BudgetsOf
  <1>2. ASSUME NEW t \in Threads, Outside(t) PROVE BudgetsAssigned'
    <2>1. Inert(t)
      BY <1>2, OutsideInert
    <2>2. PICK c : /\ call' = [call EXCEPT ![t] = c] /\ c.pc \notin Critical
                   /\ call[t].pc \notin Critical /\ UNCHANGED <<runtime, config, target>>
      BY <2>1 DEF Inert
    <2>3. c.pc \notin {"assign", "publish"} /\ call[t].pc \notin {"assign", "publish"}
      BY <2>2 DEF Critical
    <2> QED
      BY <2>2, <2>3, BudgetsKept
  <1>3. ASSUME NEW t \in Threads, PlanPolicy(t) PROVE BudgetsAssigned'
    <2>1. PICK planned \in Plannable(call[t].policy) :
             Goto(t, [pc |-> "assign", policy |-> call[t].policy, old |-> runtime,
                      planned |-> planned, class |-> 1])
      BY <1>3 DEF PlanPolicy, LoadedUnderLock, PlannedFor
    <2>10. PICK c : c = [pc |-> "assign", policy |-> call[t].policy, old |-> runtime,
                         planned |-> planned, class |-> 1]
      OBVIOUS
    <2>2. /\ c.pc = "assign" /\ c.policy = call[t].policy /\ c.planned = planned /\ c.class = 1
          /\ Goto(t, c)
      BY <2>1, <2>10
    <2>3. UNCHANGED <<runtime, config, target>>
      BY <1>3 DEF PlanPolicy, budgets
    <2>4. TypedPolicy(call[t].policy) /\ PolicyValid(call[t].policy)
      BY <1>3, AskedOf DEF PlanPolicy, UpdateRejection, Asked
    <2>5. call[t].policy.classes = runtime.policy.classes
      BY <1>3 DEF PlanPolicy, LoadedUnderLock, UpdateRejection, ShapeChanged
    <2>6. /\ runtime.policy.classes = config.policy.classes
          /\ DOMAIN target = Classes /\ Classes' = Classes
      BY <2>3 DEF BudgetsAssigned, Classes
    <2>7. 1 \in Classes /\ \A i \in Classes : ~(i < 1)
      <3>1. /\ Classes = 1 .. Len(call[t].policy.classes) /\ Len(call[t].policy.classes) \in Nat
            /\ Len(call[t].policy.classes) >= 1
        BY <2>4, <2>5, <2>6, ClassRange
      <3> QED
        BY <3>1
    <2>8. SamePlan(c)'
      BY <2>1, <2>2, <2>3, <2>5, <2>6, <2>7 DEF SamePlan
    <2>9. call' = [call EXCEPT ![t] = c] /\ c.pc \in {"assign", "publish"}
      BY <2>2, Going
    <2> QED
      BY <2>3, <2>6, <2>8, <2>9, BudgetsMove
  <1>4. ASSUME NEW t \in Threads, Assign(t) PROVE BudgetsAssigned'
    <2> DEFINE i == call[t].class
               policy == call[t].policy
               planned == call[t].planned
               n == Len(policy.classes)
    <2>1. /\ call[t].pc = "assign" /\ "pc" \in DOMAIN call[t]
          /\ {"policy", "old", "planned", "class"} \subseteq DOMAIN call[t]
          /\ TypedPolicy(policy) /\ PolicyValid(policy)
      BY <1>4 DEF Assign, PoolTypes, Shaped, Publishing
    <2>2. /\ UNCHANGED <<runtime, config>> /\ Classes' = Classes
          /\ target' = [target EXCEPT ![i] = planned[i]]
      BY <1>4 DEF Assign, Classes
    <2>3. /\ runtime.policy.classes = config.policy.classes /\ DOMAIN target = Classes
          /\ runtime.policy.classes = policy.classes /\ planned \in Plannable(policy)
          /\ i \in Classes /\ \A j \in Classes : j < i => target[j] = planned[j]
      BY <2>1 DEF BudgetsAssigned, SamePlan
    <2>4. n \in Nat /\ n >= 1 /\ Classes = 1 .. n /\ DOMAIN policy.classes = Classes
      BY <2>1, <2>3, ClassRange
    <2>5. planned \in [1 .. n -> 0 .. Fundable(policy)] /\ Len(planned) = n /\ DOMAIN planned = Classes
      <3>1. planned \in [1 .. n -> 0 .. Fundable(policy)]
        BY <2>3, <2>4 DEF Plannable
      <3> HIDE DEF planned, n, policy
      <3> QED
        BY <2>4, <3>1, LengthOf
    <2> HIDE DEF i, planned, policy, n
    <2>6. DOMAIN target' = Classes' /\ (runtime.policy.classes = config.policy.classes)'
      BY <2>2, <2>3
    <2>7. \A j \in Classes : j <= i => target'[j] = planned[j]
      BY <2>2, <2>3, <2>4
    <2>8. CASE i < n
      <3>6. PICK c : c = [call[t] EXCEPT !.class = i + 1]
        OBVIOUS
      <3>1. Goto(t, c)
        BY <1>4, <2>5, <2>8, <3>6 DEF Assign, i, planned
      <3>2. c.pc = "assign" /\ c.policy = policy /\ c.planned = planned /\ c.class = i + 1
        BY <2>1, <3>6 DEF policy, planned
      <3>3. i + 1 \in Classes /\ \A j \in Classes : j < i + 1 => target'[j] = planned[j]
        BY <2>3, <2>4, <2>7, <2>8
      <3>4. SamePlan(c)'
        BY <2>2, <2>3, <3>2, <3>3 DEF SamePlan
      <3>5. call' = [call EXCEPT ![t] = c] /\ c.pc \in {"assign", "publish"}
        BY <3>1, <3>2, Going
      <3> QED
        BY <2>6, <3>4, <3>5, BudgetsMove
    <2>9. CASE ~(i < n)
      <3>6. PICK c : c = [pc |-> "publish", policy |-> policy, old |-> call[t].old]
        OBVIOUS
      <3>1. Goto(t, c)
        BY <1>4, <2>5, <2>9, <3>6 DEF Assign, i, planned, policy
      <3>2. c.pc = "publish" /\ c.policy = policy
        BY <3>6
      <3>3. target' = planned
        <4>1. \A j \in Classes : target'[j] = planned[j]
          BY <2>3, <2>4, <2>7, <2>9
        <4>2. DOMAIN target' = DOMAIN planned
          BY <2>2, <2>3, <2>5
        <4>3. target' = [j \in Classes |-> target'[j]] /\ planned = [j \in Classes |-> planned[j]]
          BY <2>2, <2>3, <2>5
        <4> QED
          BY <4>1, <4>3
      <3>4. SamePlan(c)'
        BY <2>2, <2>3, <3>2, <3>3 DEF SamePlan
      <3>5. call' = [call EXCEPT ![t] = c] /\ c.pc \in {"assign", "publish"}
        BY <3>1, <3>2, Going
      <3> QED
        BY <2>6, <3>4, <3>5, BudgetsMove
    <2> QED
      BY <2>8, <2>9
  <1>5. ASSUME NEW t \in Threads, PublishPolicy(t) PROVE BudgetsAssigned'
    <2>1. /\ call[t].pc = "publish" /\ controlMu = t /\ SamePlan(call[t])
          /\ TypedPolicy(call[t].policy) /\ PolicyValid(call[t].policy)
      BY <1>5 DEF PublishPolicy, ControlHeld, BudgetsAssigned, PoolTypes, Shaped, Publishing
    <2>2. /\ runtime'.policy = call[t].policy /\ config.policy.classes = call[t].policy.classes
          /\ UNCHANGED <<config, target>> /\ Classes' = Classes
      BY <1>5 DEF PublishPolicy, Publish, RuntimeCompatible, Snapshot, budgets, Classes
    <2>3. BudgetsOf(call[t].policy) /\ DOMAIN target = Classes
      <3>1. DOMAIN call[t].policy.classes = Classes
        BY <2>2 DEF Classes
      <3>2. target \in Plannable(call[t].policy)
        BY <2>1 DEF SamePlan
      <3> QED
        BY <3>1, <3>2, PlannedBudgets
    <2>4. \A u \in Threads : call'[u].pc \notin {"assign", "publish"}
      BY <1>5, PublishingEnds
    <2>5. BudgetsOf(runtime.policy)'
      BY <2>2, <2>3 DEF BudgetsOf
    <2> QED
      BY <2>2, <2>3, <2>4, <2>5 DEF BudgetsAssigned
  <1>6. ASSUME NEW t \in Threads, ApplyPressure(t) PROVE BudgetsAssigned'
    <2>1. /\ call' = [call EXCEPT ![t] = Idle] /\ call[t].pc = "lock"
          /\ UNCHANGED <<target, config>> /\ runtime'.policy = runtime.policy
      BY <1>6 DEF ApplyPressure, Publish, Snapshot, budgets
    <2>2. Idle.pc = "idle"
      BY DEF Idle
    <2> QED
      BY <2>1, <2>2, BudgetsKept
  <1>7. ASSUME NEW t \in Threads, LockTrim(t) \/ TrimClass(t) \/ TrimShard(t) PROVE BudgetsAssigned'
    <2>1. PICK c : call' = [call EXCEPT ![t] = c] /\ (c.pc \in {"trim", "trimShards"} \/ c = Idle)
      BY <1>7, TrimMoves
    <2>2. c.pc \notin {"assign", "publish"}
      BY <2>1 DEF Idle
    <2>3. call[t].pc \notin {"assign", "publish"} /\ UNCHANGED <<target, config, runtime>>
      BY <1>7 DEF LockTrim, TrimClass, TrimShard, budgets
    <2> QED
      BY <2>1, <2>2, <2>3, BudgetsKept
  <1> QED
    BY <1>1, <1>2, <1>3, <1>4, <1>5, <1>6, <1>7, StepsOfCalls

(* A policy whose classes and limits are numbers has caps that are. *)
LEMMA MinOfNaturals ==
    ASSUME NEW S \in SUBSET Nat, S # {}
    PROVE  Min(S) \in S
  <1>1. \E x \in S : \A y \in S : x <= y
    BY LeastExists
  <1> QED
    BY <1>1 DEF Min

(* A saturating product is a number. *)
LEMMA ProductType ==
    ASSUME NEW l \in Nat, NEW r \in Nat
    PROVE  SaturatingProduct(l, r) \in Nat
  BY WordAssumption DEF SaturatingProduct

(* The static caps of a policy *)
LEMMA CapsType ==
    ASSUME NEW policy, TypedPolicy(policy), policy.shards.shards > 0
    PROVE  /\ Len(policy.classes) \in Nat /\ DOMAIN policy.classes = 1 .. Len(policy.classes)
           /\ Caps(policy) \in [1 .. Len(policy.classes) -> Nat]
  <1>1. PICK sizes, r, n : sizes = policy.classes /\ r = policy.retention /\ n = policy.shards.shards
    OBVIOUS
  <1>2. sizes \in Seq(Nat) /\ n \in Nat
    BY <1>1 DEF TypedPolicy
  <1>3. /\ r.classBytes \in Nat /\ r.classBuffers \in Nat
        /\ r.shardBytes \in Nat /\ r.shardBuffers \in Nat
    BY <1>1 DEF TypedPolicy
  <1>4. ASSUME NEW size \in Nat PROVE StaticBudgetCap(policy, size) \in Nat
    <2>1. PICK a, b, c, d : /\ a = r.classBytes /\ b = SaturatingProduct(r.classBuffers, size)
                            /\ c = SaturatingProduct(n, r.shardBytes)
                            /\ d = SaturatingProduct(n, SaturatingProduct(r.shardBuffers, size))
      OBVIOUS
    <2>2. a \in Nat /\ b \in Nat /\ c \in Nat /\ d \in Nat
      BY <1>2, <1>3, <2>1, ProductType
    <2>3. StaticBudgetCap(policy, size) = Min({a, b, c, d})
      BY <1>1, <2>1 DEF StaticBudgetCap
    <2>4. {a, b, c, d} \in SUBSET Nat /\ {a, b, c, d} # {}
      BY <2>2
    <2>5. Min({a, b, c, d}) \in {a, b, c, d}
      BY <2>4, MinOfNaturals
    <2> QED
      BY <2>2, <2>3, <2>5
  <1>5. DOMAIN sizes = 1 .. Len(sizes) /\ Len(sizes) \in Nat /\ \A i \in DOMAIN sizes : sizes[i] \in Nat
    BY <1>2
  <1>6. Caps(policy) \in [DOMAIN sizes -> Nat]
    BY <1>1, <1>4, <1>5 DEF Caps
  <1> QED
    BY <1>1, <1>5, <1>6

(* A Pool starts with the budgets of its policy. *)
LEMMA InitBudgets == Init => BudgetsAssigned
  <1> SUFFICES ASSUME Init PROVE BudgetsAssigned
    OBVIOUS
  <1>1. PICK c \in Configs : config = Normalized(c)
    BY DEF Init
  <1>2. PICK policy : policy = config.policy
    OBVIOUS
  <1>3. policy = EffectivePolicy(c.policy)
    BY <1>1, <1>2 DEF Normalized, PoolConfig
  <1>4. TypedPolicy(policy) /\ policy.shards.shards > 0
    BY <1>3, EffectiveTyped, ControlAssumption
  <1>5. PICK n : n = Len(policy.classes)
    OBVIOUS
  <1>6. n \in Nat /\ Classes = 1 .. n /\ Caps(policy) \in [1 .. n -> Nat]
    BY <1>2, <1>4, <1>5, CapsType DEF Classes
  <1>7. policy.retention.soft \in Nat
    BY <1>4 DEF TypedPolicy
  <1>8. target = InitialAssignments(policy) /\ runtime.policy = policy
    BY <1>2 DEF Init, Snapshot
  <1>9. /\ InitialAssignments(policy) \in [1 .. n -> Nat]
        /\ \A i \in 1 .. n : InitialAssignments(policy)[i] <= Caps(policy)[i]
        /\ SaturatingSum(InitialAssignments(policy)) = Fundable(policy)
    BY <1>6, <1>7, AssignmentsAreExact
  <1>10. DOMAIN target = Classes /\ BudgetsOf(runtime.policy)
    BY <1>6, <1>8, <1>9 DEF BudgetsOf
  <1>11. \A t \in Threads : call[t].pc \notin {"assign", "publish"}
    BY DEF Init, Idle
  <1> QED
    BY <1>2, <1>8, <1>10, <1>11 DEF BudgetsAssigned

(* A policy becomes visible only when every class has its budgets, and the budgets of a  *)
(* visible policy change only on the way to the next one: for every configuration a Pool *)
(* may be built from, and every policy published later ("Pool never exposes a new        *)
(* effective policy without the corresponding local class budgets and shard credits       *)
(* already in force", pool_policy_update.go:95).                                       *)
THEOREM PoliciesAreFunded == Spec => BudgetsPrecedePolicy
  <1> DEFINE All == PoolTypes /\ ControlHeld
             Funded == NoBudgetsUnderWay' \/ runtime'.policy # runtime.policy => BudgetsOf(runtime.policy)'
  <1>1. All /\ All' /\ BudgetsAssigned /\ [Next]_vars => BudgetsAssigned'
    BY BudgetsStep
  <1>2. All /\ All' /\ BudgetsAssigned /\ BudgetsAssigned' /\ [Next]_vars => Funded
    <2> SUFFICES ASSUME PoolTypes, PoolTypes', ControlHeld, ControlHeld', BudgetsAssigned,
                        BudgetsAssigned', [Next]_vars
                 PROVE  Funded
      OBVIOUS
    <2>1. CASE NoBudgetsUnderWay'
      BY <2>1 DEF BudgetsAssigned
    <2>2. CASE runtime'.policy # runtime.policy
      <3>1. \A t \in Threads : ~ApplyPressure(t)
        BY <2>2 DEF ApplyPressure, Publish, Snapshot
      <3>2. PICK t \in Threads : PublishPolicy(t)
        BY <2>2, <3>1, RuntimeMoves
      <3>3. NoBudgetsUnderWay'
        BY <3>2, PublishingEnds DEF NoBudgetsUnderWay
      <3> QED
        BY <3>3 DEF BudgetsAssigned
    <2> QED
      BY <2>1, <2>2
  <1>3. Init => BudgetsAssigned
    BY InitBudgets
  <1>4. Spec => []All
    BY ControlHolds
  <1> HIDE DEF All
  <1>5. All /\ All' /\ BudgetsAssigned /\ BudgetsAssigned' /\ [Next]_vars => [Funded]_vars
    BY <1>2
  <1> QED
    BY <1>1, <1>3, <1>4, <1>5, PTL DEF Spec, BudgetsPrecedePolicy

-----------------------------------------------------------------------------
(* The children a reduction pass has still to visit *)
Remaining(k) == {i \in Reducible : i >= k}

(* The shares that a reduction pass has still to take do not exceed the excess, so  *)
(* the total stays above the parent until it meets it.                            *)
SharesFit == share = 1 \/ share * Cardinality(Remaining(index)) <= total - parent

Phases ==
    /\ pc \in {"reducePass", "decide"} => index = 1
    /\ pc \in {"reducePass", "reduce"} => total > parent
    /\ pc = "reduce" => share > 0 /\ SharesFit
    /\ pc = "decide" /\ total > parent => Reducible = {}
    /\ pc \in {"weigh", "give"} => remainder > 0
    /\ ~report.feasible => pc = "done"

(* What the sum is at each position, unless it was cut *)
Sums ==
    /\ pc \in {"total", "reducePass", "reduce", "decide"} => exact >= total
    /\ pc \in {"total", "reducePass", "reduce", "decide"} => cut \/ exact = total
    /\ pc \in {"weigh", "give"} => cut \/ exact + remainder = parent
    /\ pc = "recount" => cut \/ exact <= parent
    /\ pc = "done" => cut \/ ~report.feasible \/ exact <= parent

IInv == AllocationTypes /\ BoundsKept /\ Phases /\ Sums

(* What the ghost sum and the report say of the assignments *)
TotalCounted ==
    /\ exact = SumFunctionOnSet(assigned, IF pc = "total" THEN 1 .. index - 1 ELSE Children)
    /\ pc = "give" => total = 0
    /\ pc = "recount" /\ ~cut => total = SumFunctionOnSet(assigned, 1 .. index - 1)
    /\ pc = "done" /\ ~cut => report.assigned = exact /\ report.feasible = (exact <= parent)

NoneHasRoom == \A i \in Children : ~HasRoom(i)
AllAtMinimum == \A i \in Children : assigned[i] = MinBytes(i)

(* Why a loop may stop: a pass of the distribution with a weight changes something,  *)
(* and without one nobody has room.                                              *)
Settled ==
    /\ pc = "weigh" => (totalWeight = 0 <=> \A i \in 1 .. index - 1 : Weights[i] = 0)
    /\ pc = "give" => changed \/ \E i \in index .. NumChildren : weights[i] > 0 /\ HasRoom(i)
    /\ pc = "recount" => cut \/ exact = parent \/ NoneHasRoom
    /\ pc = "done" => \/ cut \/ exact = parent
                      \/ AllAtMinimum /\ exact > parent
                      \/ NoneHasRoom /\ exact <= parent

(* Nothing exceeds its base before the distribution, and a pass that gives to a       *)
(* child without a score finds no room with the others.                          *)
Unscored ==
    /\ pc \in {"total", "reducePass", "reduce", "decide"} =>
           \A i \in Children : assigned[i] <= Start(i)
    /\ pc = "give" =>
           \A i, j \in Children :
               input[i].score = 0 /\ weights[i] > 0 /\ input[j].score > 0 => ~HasRoom(j)

Balance == TotalCounted /\ Settled
Order == Unscored /\ ScoresComeFirst

-----------------------------------------------------------------------------
(* Operators *)

LEMMA Quotient ==
    ASSUME NEW a \in Nat, NEW b \in Nat \ {0}
    PROVE  a \div b \in Nat /\ (a \div b) * b <= a
  BY SMT

LEMMA Product == ASSUME NEW a \in Nat, NEW b \in Nat PROVE a * b \in Nat
  BY SMT

LEMMA WordType == Word \subseteq Nat /\ 0 \in Word /\ MaxWord \in Word /\ 1 \in Word
  BY AllocationAssumption DEF Word

LEMMA WordSumType ==
    ASSUME NEW a \in Word, NEW b \in Nat
    PROVE  WordSum(a, b) \in Word /\ WordSum(a, b) <= a + b
  BY AllocationAssumption DEF Word, WordSum, Lesser

(* A weighted share is at most what is shared out. *)
LEMMA WeightedShareType ==
    ASSUME NEW n \in Word, NEW weight \in Word, NEW all \in Word
    PROVE  WeightedShare(n, weight, all) \in Word
  <1>1. CASE n = 0 \/ weight = 0 \/ all = 0 \/ weight >= all
    BY <1>1, WordType DEF WeightedShare
  <1>2. CASE ~(n = 0 \/ weight = 0 \/ all = 0 \/ weight >= all)
    <2>1. n \in Nat /\ weight \in Nat /\ all \in Nat \ {0}
      BY <1>2, WordType
    <2>2. n \div all \in Nat /\ n % all \in Nat
      BY <2>1, Quotient, SMT
    <2> DEFINE x == (n \div all) * weight
               r == (n % all) * weight
    <2>3. x \in Nat /\ r \in Nat
      BY <2>1, <2>2, Product
    <2>4. r \div all \in Nat
      BY <2>1, <2>3, Quotient
    <2>5. WeightedShare(n, weight, all) = Lesser(WordSum(x, r \div all), n)
      BY <1>2 DEF WeightedShare
    <2>6. WordSum(x, r \div all) \in Nat
      <3> HIDE DEF x, r
      <3>q. QED BY <2>3, <2>4, AllocationAssumption DEF WordSum, Lesser
    <2>7. ASSUME NEW s \in Nat PROVE Lesser(s, n) \in Word
      BY AllocationAssumption DEF Lesser, Word
    <2>q. QED BY <2>5, <2>6, <2>7
  <1>q. QED BY <1>1, <1>2

(* The bounds of a child are in order. *)
LEMMA BoundsType ==
    ASSUME AllocationTypes, NEW i \in Children
    PROVE  MinBytes(i) \in Word /\ MaxBytes(i) \in Word /\ MinBytes(i) <= MaxBytes(i)
  <1>1. input[i].min \in Word /\ input[i].max \in Word
    BY AllocationAssumption DEF AllocationTypes
  <1>q. QED BY <1>1, WordType, AllocationAssumption DEF MinBytes, MaxBytes, Word

LEMMA WithinBounds ==
    ASSUME AllocationTypes, BoundsKept, NEW i \in Children
    PROVE  /\ MinBytes(i) \in Nat /\ MaxBytes(i) \in Nat /\ assigned[i] \in Nat
           /\ MinBytes(i) <= assigned[i] /\ assigned[i] <= MaxBytes(i)
  <1>1. MinBytes(i) \in Nat /\ MaxBytes(i) \in Nat
    BY BoundsType, WordType
  <1>2. assigned[i] \in MinBytes(i) .. MaxBytes(i)
    BY DEF BoundsKept
  <1>q. QED BY <1>1, <1>2

LEMMA StartType ==
    ASSUME NEW i \in Children,
           input \in [Children -> [base : Bases, min : Minimums, max : Maximums, score : Scores]]
    PROVE  Start(i) \in Word /\ Start(i) \in MinBytes(i) .. MaxBytes(i)
  <1>1. input[i].min \in Word /\ input[i].max \in Word /\ input[i].base \in Word
    BY AllocationAssumption
  <1>q. QED BY <1>1, AllocationAssumption DEF Start, Clamp, MinBytes, MaxBytes, Word

LEMMA RemainingFinite ==
    ASSUME NEW k \in Nat
    PROVE  IsFiniteSet(Remaining(k)) /\ Cardinality(Remaining(k)) \in Nat
  <1>1. IsFiniteSet(Children)
    BY AllocationAssumption, FS_Interval DEF Children
  <1>2. Remaining(k) \subseteq Children
    BY DEF Remaining, Reducible
  <1>q. QED BY <1>1, <1>2, FS_Subset, FS_CardinalityType

(* Visiting a child takes it out of what remains, whatever it gives up. *)
LEMMA RemainingShrinks ==
    ASSUME NEW k \in Nat
    PROVE  /\ k \in Remaining(k) =>
                /\ Remaining(k + 1) = Remaining(k) \ {k}
                /\ Cardinality(Remaining(k)) > 0
                /\ Cardinality(Remaining(k + 1)) = Cardinality(Remaining(k)) - 1
           /\ k \notin Remaining(k) => Remaining(k + 1) = Remaining(k)
  <1>1. Remaining(k + 1) = Remaining(k) \ {k}
    BY DEF Remaining, Reducible, Children
  <1>2. IsFiniteSet(Remaining(k)) /\ Cardinality(Remaining(k)) \in Nat
    BY RemainingFinite
  <1>3. ASSUME k \in Remaining(k)
        PROVE  /\ Cardinality(Remaining(k) \ {k}) = Cardinality(Remaining(k)) - 1
               /\ Cardinality(Remaining(k) \ {k}) \in Nat
    <2>1. IsFiniteSet(Remaining(k) \ {k})
      BY <1>2, <1>3, FS_RemoveElement
    <2>q. QED BY <2>1, <1>2, <1>3, FS_RemoveElement, FS_CardinalityType
  <1>4. ASSUME k \in Remaining(k)
        PROVE  Cardinality(Remaining(k)) > 0
    BY <1>2, <1>3, <1>4
  <1>5. k \notin Remaining(k) => Remaining(k) \ {k} = Remaining(k)
    OBVIOUS
  <1>q. QED BY <1>1, <1>3, <1>4, <1>5

-----------------------------------------------------------------------------
(* Initial states and steps *)

LEMMA InitHolds == AllocationInit => IInv
  <1> SUFFICES ASSUME AllocationInit PROVE IInv
    OBVIOUS
  <1>1. input \in [Children -> [base : Bases, min : Minimums, max : Maximums, score : Scores]]
    BY DEF AllocationInit
  <1>2. \A i \in Children : assigned[i] \in Word /\ assigned[i] \in MinBytes(i) .. MaxBytes(i)
    BY <1>1, StartType DEF AllocationInit
  <1>3. AllocationTypes
    <2>1. 1 \in Children
      BY AllocationAssumption DEF Children
    <2>2. assigned \in [Children -> Word]
      BY <1>2 DEF AllocationInit
    <2>q. QED BY <2>1, <2>2, WordType DEF AllocationInit, AllocationTypes, NoReport
  <1>4. BoundsKept
    BY <1>2 DEF AllocationInit, BoundsKept, NoReport
  <1>q. QED BY <1>3, <1>4 DEF AllocationInit, IInv, Phases, Sums, NoReport

(* What the arguments fix stays fixed. *)
LEMMA Fixed ==
    ASSUME UNCHANGED input
    PROVE  \A i \in Children : MinBytes(i)' = MinBytes(i) /\ MaxBytes(i)' = MaxBytes(i)
  BY DEF MinBytes, MaxBytes

LEMMA AdvanceType ==
    ASSUME AllocationTypes, NEW label, Advance(label)
    PROVE  /\ index' \in Children
           /\ \/ pc' = pc /\ index' = index + 1
              \/ pc' = label /\ index' = 1
  BY AllocationAssumption DEF AllocationTypes, Advance, Children

LEMMA TotalStep == ASSUME IInv, Total PROVE IInv'
  <1>1. total' \in Word /\ total' <= total + assigned[index] /\ assigned[index] \in Nat
    BY WordSumType, WordType DEF IInv, AllocationTypes, Total
  <1>2. exact \in Nat /\ total \in Nat /\ exact >= total /\ (cut \/ exact = total)
    BY WordType DEF IInv, AllocationTypes, Sums, Total
  <1>3. exact' \in Nat /\ exact' >= total' /\ (cut' \/ exact' = total') /\ cut' \in BOOLEAN
    <2>1. exact' = exact + assigned[index] /\ cut' = (cut \/ total' < total + assigned[index])
      BY DEF Total
    <2>2. total' \in Nat
      BY <1>1, WordType
    <2>3. exact' \in Nat /\ exact' >= total'
      BY <1>1, <1>2, <2>1, <2>2
    <2>4. cut' \in BOOLEAN
      BY <2>1
    <2>5. total' < total + assigned[index] \/ total' = total + assigned[index]
      BY <1>1, <1>2, <2>2
    <2>6. total' = total + assigned[index] /\ exact = total => exact' = total'
      BY <2>1
    <2>7. cut' \/ exact' = total'
      BY <1>2, <2>1, <2>5, <2>6
    <2>q. QED BY <2>3, <2>4, <2>7
  <1>4. /\ index' \in Children
        /\ \/ pc' = pc
           \/ pc' = (IF total' > parent THEN "reducePass" ELSE "decide") /\ index' = 1
    BY AdvanceType DEF IInv, Total
  <1>5. parent \in Nat
    BY AllocationAssumption, WordType DEF IInv, AllocationTypes
  <1>6. AllocationTypes'
    BY <1>1, <1>3, <1>4 DEF IInv, AllocationTypes, Total, pass
  <1>7. BoundsKept'
    BY Fixed DEF IInv, BoundsKept, Total
  <1>8. Phases'
    BY <1>1, <1>4, <1>5, WordType DEF IInv, Phases, Total
  <1>9. Sums'
    BY <1>3, <1>4 DEF Sums, Total
  <1>q. QED BY <1>6, <1>7, <1>8, <1>9 DEF IInv

LEMMA RecountStep == ASSUME IInv, Recount PROVE IInv'
  <1>1. total' \in Word
    BY WordSumType, WordType DEF IInv, AllocationTypes, Recount
  <1>2. index' \in Children /\ (pc' = pc \/ pc' = "done")
    BY AdvanceType DEF IInv, Recount
  <1>3. AllocationTypes'
    BY <1>1, <1>2 DEF IInv, AllocationTypes, Recount, pass
  <1>4. BoundsKept'
    BY Fixed DEF IInv, BoundsKept, Recount
  <1>5. Phases'
    BY <1>2 DEF Phases, Recount
  <1>6. Sums'
    BY <1>2 DEF IInv, Sums, Recount
  <1>q. QED BY <1>3, <1>4, <1>5, <1>6 DEF IInv

LEMMA ReducePassStep == ASSUME IInv, ReducePass PROVE IInv'
  <1> DEFINE all == Cardinality(Reducible)
  <1>1. index = 1 /\ total > parent /\ total \in Word /\ parent \in Word
    BY AllocationAssumption DEF IInv, AllocationTypes, Phases, ReducePass
  <1>2. Remaining(1) = Reducible
    BY DEF Remaining, Reducible, Children
  <1>3. BoundsKept'
    BY Fixed DEF IInv, BoundsKept, ReducePass
  <1>4. CASE Reducible = {} /\ pc' = "decide" /\ UNCHANGED share
    <2>1. AllocationTypes'
      BY <1>4 DEF IInv, AllocationTypes, ReducePass, pass
    <2>2. Reducible' = {}
      BY <1>4, Fixed DEF Reducible, ReducePass
    <2>3. Phases'
      BY <1>4, <1>1, <2>2 DEF IInv, Phases, ReducePass
    <2>4. Sums'
      BY <1>4 DEF IInv, Sums, ReducePass
    <2>q. QED BY <1>3, <2>1, <2>3, <2>4 DEF IInv
  <1>5. CASE Reducible # {} /\ share' = AtLeastOne((total - parent) \div all) /\ pc' = "reduce"
    <2>1. IsFiniteSet(Reducible) /\ all \in Nat
      BY <1>2, RemainingFinite
    <2>2. all \in Nat \ {0}
      BY <2>1, <1>5, FS_EmptySet
    <2> DEFINE over == total - parent
               q == over \div all
    <2>3. over \in Nat /\ over <= MaxWord
      BY <1>1, AllocationAssumption DEF Word
    <2>4. q \in Nat /\ q * all <= over
      BY <2>2, <2>3, Quotient
    <2>5. q <= over
      BY <2>2, <2>3, <2>4, SMT
    <2>6. share' = (IF q = 0 THEN 1 ELSE q)
      BY <1>5 DEF AtLeastOne
    <2>7. share' \in Word /\ share' > 0 /\ (share' = 1 \/ share' * all <= over)
      BY <2>3, <2>4, <2>5, <2>6, WordType DEF Word
    <2>8. AllocationTypes'
      BY <1>5, <2>7 DEF IInv, AllocationTypes, ReducePass, pass
    <2>9. Remaining(1)' = Remaining(1)
      BY Fixed DEF Remaining, Reducible, ReducePass
    <2>10. SharesFit'
      BY <1>1, <1>2, <2>7, <2>9 DEF SharesFit, ReducePass
    <2>11. Phases'
      BY <1>1, <1>5, <2>7, <2>10 DEF IInv, Phases, ReducePass
    <2>12. Sums'
      BY <1>5 DEF IInv, Sums, ReducePass
    <2>q. QED BY <1>3, <2>8, <2>11, <2>12 DEF IInv
  <1>q. QED BY <1>4, <1>5 DEF ReducePass

(* A reduction takes no more than the child has above its minimum, and no more than  *)
(* the total has above the parent.                                               *)
LEMMA ReductionBounds ==
    ASSUME IInv, pc = "reduce"
    PROVE  /\ Reduction(index) \in Nat
           /\ Reduction(index) <= assigned[index] - MinBytes(index)
           /\ Reduction(index) <= total - parent
           /\ index \notin Reducible => Reduction(index) = 0
           /\ Reduction(index) <= share
  <1> DEFINE left == Cardinality(Remaining(index))
  <1>1. index \in Children /\ index \in Nat
    BY DEF IInv, AllocationTypes, Children
  <1>2. share \in Nat /\ total \in Nat /\ parent \in Nat /\ assigned[index] \in Nat
    BY <1>1, WordType, AllocationAssumption DEF IInv, AllocationTypes
  <1>3. MinBytes(index) \in Nat /\ MinBytes(index) <= assigned[index]
    BY <1>1, WithinBounds DEF IInv
  <1>4. total > parent /\ share > 0 /\ (share = 1 \/ share * left <= total - parent)
    BY DEF IInv, Phases, SharesFit
  <1>5. left \in Nat
    BY <1>1, RemainingFinite
  <1>6. CASE index \in Reducible
    <2>1. index \in Remaining(index)
      BY <1>1, <1>6 DEF Remaining
    <2>2. left > 0
      BY <1>1, <2>1, RemainingShrinks
    <2>3. share <= total - parent
      <3> HIDE DEF left
      <3>q. QED BY <1>2, <1>4, <1>5, <2>2, SMT
    <2>4. Reduction(index) = Lesser(share, assigned[index] - MinBytes(index))
      BY <1>6 DEF Reduction
    <2>q. QED BY <1>2, <1>3, <1>6, <2>3, <2>4 DEF Lesser
  <1>7. CASE index \notin Reducible
    BY <1>2, <1>3, <1>4, <1>7 DEF Reduction
  <1>q. QED BY <1>6, <1>7

LEMMA ReduceStep == ASSUME IInv, Reduce PROVE IInv'
  <1> DEFINE r == Reduction(index)
             left == Cardinality(Remaining(index))
  <1>1. index \in Children /\ index \in Nat
    BY DEF IInv, AllocationTypes, Children, Reduce
  <1>2. /\ share \in Nat /\ total \in Nat /\ parent \in Nat /\ assigned[index] \in Nat
        /\ exact \in Nat /\ assigned \in [Children -> Word]
    BY <1>1, WordType, AllocationAssumption DEF IInv, AllocationTypes
  <1>3. MinBytes(index) \in Nat /\ MinBytes(index) <= assigned[index]
    BY <1>1, WithinBounds DEF IInv
  <1>4. /\ r \in Nat /\ r <= assigned[index] - MinBytes(index) /\ r <= total - parent
        /\ (index \notin Reducible => r = 0) /\ r <= share
    BY ReductionBounds DEF Reduce
  <1>5. /\ total > parent /\ share > 0 /\ (share = 1 \/ share * left <= total - parent)
        /\ exact >= total /\ (cut \/ exact = total)
    BY DEF IInv, Phases, Sums, SharesFit, Reduce
  <1>6. /\ assigned' = [assigned EXCEPT ![index] = assigned[index] - r]
        /\ total' = total - r /\ exact' = exact - r
    BY DEF Reduce
  <1> HIDE DEF r
  <1>7. /\ total' \in Nat /\ total' >= parent /\ total' <= total
        /\ exact' \in Nat /\ exact' >= total' /\ (cut \/ exact' = total')
    BY <1>2, <1>4, <1>5, <1>6
  <1>8. total' \in Word
    BY <1>2, <1>7, AllocationAssumption DEF IInv, AllocationTypes, Word
  <1>9. /\ assigned'[index] \in Word
        /\ assigned'[index] \in MinBytes(index) .. assigned[index]
        /\ \A i \in Children \ {index} : assigned'[i] = assigned[i]
        /\ assigned' \in [Children -> Word]
    BY <1>1, <1>2, <1>3, <1>4, <1>6, AllocationAssumption DEF Word
  <1>10. index' \in Children
    BY <1>1, AdvanceType, AllocationAssumption DEF IInv, Reduce, Children
  <1>11. \/ pc' = "decide" /\ index' = 1 /\ total' <= parent
         \/ pc' = "reduce" /\ index' = index + 1 /\ total' > parent
         \/ pc' = "reducePass" /\ index' = 1 /\ total' > parent
    <2>1. CASE total' <= parent
      BY <2>1 DEF Reduce
    <2>2. CASE ~(total' <= parent)
      BY <2>2, <1>2, <1>7, AdvanceType DEF IInv, Reduce
    <2>q. QED BY <2>1, <2>2
  <1>12. AllocationTypes'
    BY <1>7, <1>8, <1>9, <1>10, <1>11 DEF IInv, AllocationTypes, Reduce, pass
  <1>13. BoundsKept'
    <2>1. report' = report /\ report.feasible
      BY DEF Reduce, IInv, Phases
    <2>2. \A i \in Children : MinBytes(i)' = MinBytes(i) /\ MaxBytes(i)' = MaxBytes(i)
      BY Fixed DEF Reduce
    <2>3. \A i \in Children : assigned'[i] \in MinBytes(i) .. MaxBytes(i)
      <3>1. assigned'[index] \in MinBytes(index) .. MaxBytes(index)
        <4>1. assigned[index] \in MinBytes(index) .. MaxBytes(index)
          BY <1>1 DEF IInv, BoundsKept
        <4>2. MaxBytes(index) \in Nat
          BY <1>1, BoundsType, WordType DEF IInv
        <4>q. QED BY <1>2, <1>3, <1>9, <4>1, <4>2
      <3>2. ASSUME NEW i \in Children \ {index}
            PROVE  assigned'[i] \in MinBytes(i) .. MaxBytes(i)
        BY <1>9 DEF IInv, BoundsKept
      <3>q. QED BY <3>1, <3>2
    <2>q. QED BY <2>1, <2>2, <2>3 DEF BoundsKept
  <1>14. ASSUME pc' = "reduce" PROVE SharesFit'
    <2>1. index' = index + 1 /\ share' = share
      BY <1>11, <1>14 DEF Reduce
    <2>2. Remaining(index)' = Remaining(index + 1)
      <3>1. ASSUME NEW i \in Children, i >= index + 1
            PROVE  assigned'[i] = assigned[i]
        BY <1>1, <1>9, <3>1 DEF Children
      <3>2. Remaining(index)' =
                {i \in Children : assigned'[i] > MinBytes(i)' /\ i >= index + 1}
        BY <2>1 DEF Remaining, Reducible
      <3>3. Remaining(index + 1) =
                {i \in Children : assigned[i] > MinBytes(i) /\ i >= index + 1}
        BY DEF Remaining, Reducible
      <3>4. \A i \in Children : MinBytes(i)' = MinBytes(i)
        BY Fixed DEF Reduce
      <3>q. QED BY <3>1, <3>2, <3>3, <3>4
    <2> DEFINE next == Cardinality(Remaining(index + 1))
    <2>3. SharesFit' <=> (share = 1 \/ share * next <= total' - parent)
      <3>1. parent' = parent
        BY DEF Reduce
      <3>q. QED BY <2>1, <2>2, <3>1 DEF SharesFit
    <2>4. left \in Nat /\ next \in Nat
      BY <1>1, RemainingFinite
    <2>5. CASE index \in Reducible
      <3>1. next = left - 1
        BY <1>1, <2>5, RemainingShrinks DEF Remaining
      <3>2. share * next = share * left - share
        <4> HIDE DEF left, next
        <4>q. QED BY <1>2, <2>4, <3>1, SMT
      <3>3. share * left \in Nat /\ share * next \in Nat
        BY <1>2, <2>4, Product
      <3> HIDE DEF left, next
      <3>q. QED BY <1>2, <1>4, <1>5, <1>6, <2>3, <3>2, <3>3
    <2>6. CASE index \notin Reducible
      <3>1. Remaining(index + 1) = Remaining(index)
        BY <1>1, <2>6, RemainingShrinks DEF Remaining
      <3>2. total' = total
        BY <1>2, <1>4, <1>6, <2>6
      <3>q. QED BY <1>5, <2>3, <3>1, <3>2
    <2>q. QED BY <2>5, <2>6
  <1>15. Phases'
    <2>1. /\ parent' = parent /\ share' = share /\ report' = report /\ report.feasible
      BY DEF Reduce, IInv, Phases
    <2>q. QED BY <1>2, <1>5, <1>7, <1>11, <1>14, <2>1 DEF Phases
  <1>16. Sums'
    BY <1>7, <1>11 DEF Sums, Reduce
  <1>q. QED BY <1>12, <1>13, <1>15, <1>16 DEF IInv

LEMMA DecideStep == ASSUME IInv, Decide PROVE IInv'
  <1>1. total \in Nat /\ parent \in Nat /\ total \in Word /\ parent \in Word
    BY WordType, AllocationAssumption DEF IInv, AllocationTypes
  <1>2. \A i \in Children : MinBytes(i)' = MinBytes(i) /\ MaxBytes(i)' = MaxBytes(i)
    BY Fixed DEF Decide
  <1>3. exact \in Nat /\ exact >= total /\ (cut \/ exact = total)
    BY DEF IInv, AllocationTypes, Sums, Decide
  <1>4. CASE total >= parent /\ report' = [feasible |-> total = parent, assigned |-> total]
             /\ pc' = "done" /\ UNCHANGED <<remainder, totalWeight>>
    <2>1. report' \in [feasible : BOOLEAN, assigned : Word]
      BY <1>1, <1>4
    <2>2. AllocationTypes'
      BY <1>4, <2>1 DEF IInv, AllocationTypes, Decide
    <2>3. ASSUME ~report'.feasible, NEW i \in Children
          PROVE  assigned[i] = MinBytes(i)
      <3>1. Reducible = {}
        <4>1. report'.feasible = (total = parent)
          BY <1>4
        <4>2. total > parent
          <5>1. total # parent
            BY <2>3, <4>1
          <5>q. QED BY <1>1, <1>4, <5>1
        <4>q. QED BY <4>2 DEF IInv, Phases, Decide
      <3>2. MinBytes(i) \in Nat /\ assigned[i] \in Nat /\ assigned[i] >= MinBytes(i)
        BY WithinBounds DEF IInv
      <3>q. QED BY <3>1, <3>2 DEF Reducible
    <2>4. BoundsKept'
      BY <1>2, <2>3 DEF IInv, BoundsKept, Decide
    <2>5. Phases'
      BY <1>4 DEF Phases
    <2>6. Sums'
      BY <1>1, <1>3, <1>4 DEF Sums, Decide
    <2>q. QED BY <2>2, <2>4, <2>5, <2>6 DEF IInv
  <1>5. CASE total < parent /\ remainder' = parent - total /\ pc' = "weigh"
             /\ totalWeight' = 0 /\ UNCHANGED report
    <2>1. remainder' \in Word /\ remainder' > 0
      BY <1>1, <1>5, AllocationAssumption DEF Word
    <2>2. AllocationTypes'
      BY <1>5, <2>1, WordType DEF IInv, AllocationTypes, Decide
    <2>3. BoundsKept'
      BY <1>2, <1>5 DEF IInv, BoundsKept, Decide
    <2>4. Phases'
      BY <1>5, <2>1 DEF IInv, Phases, Decide
    <2>5. Sums'
      BY <1>1, <1>3, <1>5 DEF Sums, Decide
    <2>q. QED BY <2>2, <2>3, <2>4, <2>5 DEF IInv
  <1>q. QED BY <1>4, <1>5 DEF Decide

LEMMA WeighStep == ASSUME IInv, Weigh PROVE IInv'
  <1>1. Weights \in [Children -> Word]
    BY WordType, AllocationAssumption DEF IInv, AllocationTypes, Weights
  <1>2. totalWeight' \in Word
    <2>1. Weights[index] \in Nat
      BY <1>1, WordType DEF IInv, AllocationTypes
    <2>q. QED BY <2>1, WordSumType DEF IInv, AllocationTypes, Weigh
  <1>3. index' \in Children /\ pc' \in {"weigh", "recount", "give"}
    BY AdvanceType DEF IInv, Weigh
  <1>4. AllocationTypes'
    BY <1>1, <1>2, <1>3, WordType DEF IInv, AllocationTypes, Weigh
  <1>5. BoundsKept'
    BY Fixed DEF IInv, BoundsKept, Weigh
  <1>6. Phases'
    BY <1>3 DEF IInv, Phases, Weigh
  <1>7. Sums'
    <2>1. exact \in Nat /\ remainder \in Nat /\ parent \in Nat
      BY WordType, AllocationAssumption DEF IInv, AllocationTypes
    <2>q. QED BY <1>3, <2>1 DEF IInv, Sums, Weigh
  <1>q. QED BY <1>4, <1>5, <1>6, <1>7 DEF IInv

(* A child is given no more than its room and than what is left. *)
LEMMA AdditionBounds ==
    ASSUME IInv, pc = "give"
    PROVE  /\ Addition(index) \in Nat
           /\ Addition(index) <= MaxBytes(index) - assigned[index]
           /\ Addition(index) <= remainder
  <1>1. index \in Children
    BY DEF IInv, AllocationTypes
  <1>2. MaxBytes(index) \in Nat /\ assigned[index] \in Nat /\ remainder \in Nat
    BY <1>1, BoundsType, WordType DEF IInv, AllocationTypes
  <1>3. assigned[index] <= MaxBytes(index)
    BY <1>1, WithinBounds DEF IInv
  <1>4. ShareOf(index) \in Nat
    <2>1. passRemainder \in Word /\ weights[index] \in Word /\ totalWeight \in Word
      BY <1>1 DEF IInv, AllocationTypes
    <2>2. WeightedShare(passRemainder, weights[index], totalWeight) \in Nat
      BY <2>1, WeightedShareType, WordType
    <2>q. QED BY <2>2 DEF ShareOf, AtLeastOne
  <1>q. QED BY <1>2, <1>3, <1>4 DEF Addition, Lesser

LEMMA GiveStep == ASSUME IInv, Give PROVE IInv'
  <1> DEFINE a == Addition(index)
  <1>1. index \in Children
    BY DEF IInv, AllocationTypes
  <1>2. /\ a \in Nat /\ a <= MaxBytes(index) - assigned[index] /\ a <= remainder
    BY AdditionBounds DEF Give
  <1>3. /\ MinBytes(index) \in Nat /\ MaxBytes(index) \in Word /\ MaxBytes(index) \in Nat
        /\ assigned[index] \in Nat /\ assigned[index] >= MinBytes(index)
    BY <1>1, BoundsType, WithinBounds DEF IInv
  <1>4. /\ remainder \in Nat /\ remainder \in Word /\ parent \in Nat /\ exact \in Nat
        /\ assigned \in [Children -> Word] /\ (cut \/ exact + remainder = parent)
    BY WordType, AllocationAssumption DEF IInv, AllocationTypes, Sums, Give
  <1>5. /\ assigned' = [assigned EXCEPT ![index] = assigned[index] + a]
        /\ remainder' = remainder - a /\ exact' = exact + a
    BY DEF Give
  <1> HIDE DEF a
  <1>6. /\ remainder' \in Nat /\ remainder' \in Word /\ exact' \in Nat
        /\ (cut \/ exact' + remainder' = parent)
    <2>1. remainder' \in Nat /\ remainder' <= remainder /\ exact' \in Nat
      BY <1>2, <1>4, <1>5
    <2>2. remainder' \in Word
      BY <1>4, <2>1, AllocationAssumption DEF Word
    <2>3. exact' + remainder' = exact + remainder
      BY <1>2, <1>4, <1>5
    <2>q. QED BY <1>4, <2>1, <2>2, <2>3
  <1>7. /\ assigned'[index] \in MinBytes(index) .. MaxBytes(index)
        /\ \A i \in Children \ {index} : assigned'[i] = assigned[i]
        /\ assigned' \in [Children -> Word]
    BY <1>1, <1>2, <1>3, <1>4, <1>5, AllocationAssumption DEF Word
  <1>8. /\ index' \in Children
        /\ \/ pc' = "recount"
           \/ remainder' # 0 /\ pc' \in {"give", "weigh"}
    BY AdvanceType, AllocationAssumption DEF IInv, Give, Children
  <1>9. AllocationTypes'
    <2>1. changed' \in BOOLEAN
      BY DEF Give, IInv, AllocationTypes
    <2>q. QED BY <1>6, <1>7, <1>8, <2>1, WordType DEF IInv, AllocationTypes, Give
  <1>10. BoundsKept'
    <2>1. report' = report /\ report.feasible
      BY DEF Give, IInv, Phases
    <2>2. \A i \in Children : MinBytes(i)' = MinBytes(i) /\ MaxBytes(i)' = MaxBytes(i)
      BY Fixed DEF Give
    <2>3. \A i \in Children : assigned'[i] \in MinBytes(i) .. MaxBytes(i)
      BY <1>7 DEF IInv, BoundsKept
    <2>q. QED BY <2>1, <2>2, <2>3 DEF BoundsKept
  <1>11. Phases'
    BY <1>6, <1>8 DEF IInv, Phases, Give
  <1>12. Sums'
    <2>1. cut' = cut /\ parent' = parent
      BY DEF Give
    <2>2. pc' \in {"recount", "give", "weigh"}
      BY <1>8
    <2>3. exact' <= parent \/ cut
      <3>1. remainder' \in Nat /\ exact' \in Nat /\ parent \in Nat
        BY <1>4, <1>6
      <3>2. ASSUME NEW m \in Nat, NEW n \in Nat PROVE m <= m + n
        OBVIOUS
      <3>3. exact' <= exact' + remainder'
        BY <3>1, <3>2
      <3>q. QED BY <1>6, <3>3
    <2>4. cut' \/ exact' <= parent'
      BY <2>1, <2>3
    <2>5. cut' \/ exact' + remainder' = parent'
      BY <1>6, <2>1
    <2>q. QED BY <2>2, <2>4, <2>5 DEF Sums
  <1>q. QED BY <1>9, <1>10, <1>11, <1>12 DEF IInv

LEMMA Stutter == ASSUME IInv, UNCHANGED allocationVars PROVE IInv'
  <1>1. AllocationTypes'
    BY DEF IInv, AllocationTypes, allocationVars, pass
  <1>2. BoundsKept'
    BY Fixed DEF IInv, BoundsKept, allocationVars
  <1>3. Phases'
    <2>1. Reducible' = Reducible
      BY Fixed DEF Reducible, allocationVars
    <2>2. Remaining(index)' = Remaining(index)
      BY <2>1 DEF Remaining, allocationVars
    <2>q. QED BY <2>1, <2>2 DEF IInv, Phases, SharesFit, allocationVars
  <1>4. Sums'
    BY DEF IInv, Sums, allocationVars
  <1>q. QED BY <1>1, <1>2, <1>3, <1>4 DEF IInv

-----------------------------------------------------------------------------
(* Sums of the assignments *)

LEMMA ChildrenFinite ==
    /\ IsFiniteSet(Children) /\ 1 \in Children /\ NumChildren \in Children
    /\ \A k \in Children : /\ IsFiniteSet(1 .. k) /\ IsFiniteSet(1 .. k - 1)
                           /\ 1 .. k \in SUBSET Children
  BY AllocationAssumption, FS_Interval DEF Children

(* The next child joins the part that has been counted. *)
LEMMA CountNext ==
    ASSUME NEW f \in [Children -> Nat], NEW k \in Children
    PROVE  /\ SumFunctionOnSet(f, 1 .. k) = SumFunctionOnSet(f, 1 .. k - 1) + f[k]
           /\ SumFunctionOnSet(f, 1 .. k) <= Sum(f)
           /\ SumFunctionOnSet(f, 1 .. k) \in Nat /\ SumFunctionOnSet(f, 1 .. k - 1) \in Nat
           /\ Sum(f) \in Nat
  <1>1. /\ k \in 1 .. k /\ (1 .. k) \ {k} = 1 .. k - 1 /\ IsFiniteSet(1 .. k)
        /\ IsFiniteSet(1 .. k - 1) /\ 1 .. k \in SUBSET Children /\ IsFiniteSet(Children)
    BY ChildrenFinite DEF Children
  <1>2. \A i \in Children : f[i] \in Nat
    OBVIOUS
  <1>3. /\ SumFunctionOnSet(f, 1 .. k) = f[k] + SumFunctionOnSet(f, (1 .. k) \ {k})
        /\ SumFunctionOnSet(f, (1 .. k) \ {k}) \in Nat
    BY <1>1, <1>2, SumElement
  <1>4. SumFunctionOnSet(f, 1 .. k) <= SumFunctionOnSet(f, Children)
    BY <1>1, <1>2, SumSubset
  <1>5. SumFunctionOnSet(f, Children) \in Nat
    BY <1>1, <1>2, SumType
  <1>6. f[k] \in Nat
    BY <1>2
  <1>7. (1 .. k) \ {k} = 1 .. k - 1
    BY <1>1
  <1>8. /\ SumFunctionOnSet(f, 1 .. k) = f[k] + SumFunctionOnSet(f, 1 .. k - 1)
        /\ SumFunctionOnSet(f, 1 .. k - 1) \in Nat
    BY <1>3, <1>7
  <1>9. SumFunctionOnSet(f, 1 .. k) = SumFunctionOnSet(f, 1 .. k - 1) + f[k]
    BY <1>6, <1>8
  <1>10. SumFunctionOnSet(f, 1 .. k) \in Nat
    BY <1>6, <1>8
  <1> QED
    BY <1>4, <1>5, <1>8, <1>9, <1>10 DEF Sum

LEMMA SumOfOne ==
    ASSUME NEW f \in [Children -> Nat], NEW g \in [Children -> Nat], NEW k \in Children,
           \A i \in Children \ {k} : g[i] = f[i]
    PROVE  Sum(g) + f[k] = Sum(f) + g[k] /\ Sum(f) \in Nat /\ Sum(g) \in Nat
  <1>1. IsFiniteSet(Children) /\ \A i \in Children : f[i] \in Nat /\ g[i] \in Nat
    BY ChildrenFinite
  <1>2. SumFunctionOnSet(f, Children) \in Nat /\ SumFunctionOnSet(g, Children) \in Nat
    BY <1>1, SumType
  <1>3. SumFunctionOnSet(g, Children) + f[k] = SumFunctionOnSet(f, Children) + g[k]
    BY <1>1, SumChanged
  <1> QED
    BY <1>2, <1>3 DEF Sum

(* The bounds of the children bound the sum. *)
LEMMA SumWithinBounds ==
    ASSUME AllocationTypes, BoundsKept
    PROVE  /\ MinimumSum \in Nat /\ MaximumSum \in Nat /\ Sum(assigned) \in Nat
           /\ MinimumSum <= Sum(assigned) /\ Sum(assigned) <= MaximumSum
           /\ AllAtMinimum => Sum(assigned) = MinimumSum
           /\ NoneHasRoom => Sum(assigned) = MaximumSum
  <1> DEFINE low == [i \in Children |-> MinBytes(i)]
             high == [i \in Children |-> MaxBytes(i)]
  <1>1. IsFiniteSet(Children)
    BY ChildrenFinite
  <1>2. \A i \in Children :
            /\ low[i] \in Nat /\ high[i] \in Nat /\ assigned[i] \in Nat
            /\ low[i] <= assigned[i] /\ assigned[i] <= high[i]
    BY WithinBounds
  <1>3. AllAtMinimum => \A i \in Children : assigned[i] = low[i]
    BY DEF AllAtMinimum
  <1>4. NoneHasRoom => \A i \in Children : assigned[i] = high[i]
    <2> SUFFICES ASSUME NoneHasRoom, NEW i \in Children PROVE assigned[i] = high[i]
      OBVIOUS
    <2>1. ~(assigned[i] < high[i])
      BY DEF NoneHasRoom, HasRoom
    <2> HIDE DEF high
    <2> QED
      BY <1>2, <2>1
  <1>5. MinimumSum = SumFunctionOnSet(low, Children) /\ MaximumSum = SumFunctionOnSet(high, Children)
    BY DEF MinimumSum, MaximumSum, Sum
  <1> HIDE DEF low, high
  <1>6. /\ SumFunctionOnSet(low, Children) \in Nat /\ SumFunctionOnSet(high, Children) \in Nat
        /\ SumFunctionOnSet(assigned, Children) \in Nat
    BY <1>1, <1>2, SumType
  <1>7. SumFunctionOnSet(low, Children) <= SumFunctionOnSet(assigned, Children)
    BY <1>1, <1>2, SumMonotone
  <1>8. SumFunctionOnSet(assigned, Children) <= SumFunctionOnSet(high, Children)
    BY <1>1, <1>2, SumMonotone
  <1>9. AllAtMinimum => SumFunctionOnSet(assigned, Children) = SumFunctionOnSet(low, Children)
    BY <1>1, <1>3, SumAgrees
  <1>10. NoneHasRoom => SumFunctionOnSet(assigned, Children) = SumFunctionOnSet(high, Children)
    BY <1>1, <1>4, SumAgrees
  <1> QED
    BY <1>5, <1>6, <1>7, <1>8, <1>9, <1>10 DEF Sum

(* Where the weights say that nobody can be given anything, nobody has room. *)
LEMMA WeightsTell ==
    ASSUME AllocationTypes
    PROVE  /\ Weights \in [Children -> Nat]
           /\ (\A i \in Children : Weights[i] = 0) => NoneHasRoom
           /\ \A i \in Children : Weights[i] > 0 => HasRoom(i)
           /\ \A i, j \in Children :
                  input[i].score = 0 /\ Weights[i] > 0 /\ input[j].score > 0 => ~HasRoom(j)
  <1>1. \A i \in Children : input[i].score \in Nat
    BY AllocationAssumption, WordType DEF AllocationTypes
  <1>2. CASE \E i \in Children : HasRoom(i) /\ input[i].score > 0
    BY <1>1, <1>2 DEF Weights, NoneHasRoom
  <1>3. CASE ~\E i \in Children : HasRoom(i) /\ input[i].score > 0
    BY <1>1, <1>3 DEF Weights, NoneHasRoom
  <1> QED
    BY <1>2, <1>3

-----------------------------------------------------------------------------
(* What is counted and given stays balanced. *)

LEMMA AssignedType ==
    ASSUME AllocationTypes
    PROVE  /\ assigned \in [Children -> Nat] /\ index \in Children
           /\ exact \in Nat /\ total \in Nat /\ parent \in Nat /\ parent <= MaxWord
           /\ MaxWord \in Nat
  <1>1. assigned \in [Children -> Nat] /\ total \in Nat
    BY WordType DEF AllocationTypes
  <1>2. parent \in Nat /\ parent <= MaxWord /\ MaxWord \in Nat
    BY AllocationAssumption DEF AllocationTypes, Word
  <1> QED
    BY <1>1, <1>2 DEF AllocationTypes

(* The last child has been visited, or the part that has been visited grows by one. *)
LEMMA AdvanceParts ==
    ASSUME AllocationTypes, NEW label, Advance(label)
    PROVE  \/ index = NumChildren /\ index' = 1 /\ pc' = label /\ 1 .. index = Children
           \/ index' = index + 1 /\ pc' = pc /\ 1 .. index' - 1 = 1 .. index
  <1>1. index \in Nat /\ index <= NumChildren /\ NumChildren \in Nat
    BY AllocationAssumption DEF AllocationTypes, Children
  <1>2. CASE index < NumChildren
    BY <1>1, <1>2 DEF Advance
  <1>3. CASE ~(index < NumChildren)
    <2>1. index = NumChildren
      BY <1>1, <1>3
    <2> QED
      BY <2>1, <1>3 DEF Advance, Children
  <1> QED
    BY <1>2, <1>3

LEMMA InitBalance == AllocationInit => Balance
  <1> SUFFICES ASSUME AllocationInit PROVE Balance
    OBVIOUS
  <1>1. 1 .. index - 1 = {} /\ pc = "total" /\ exact = 0
    BY DEF AllocationInit
  <1>2. exact = SumFunctionOnSet(assigned, 1 .. index - 1)
    BY <1>1, SumEmpty
  <1> QED
    BY <1>1, <1>2 DEF Balance, TotalCounted, Settled

LEMMA TotalBalance == ASSUME IInv, Balance, Total PROVE Balance'
  <1>1. /\ assigned \in [Children -> Nat] /\ index \in Children
        /\ assigned' = assigned /\ exact' = exact + assigned[index] /\ pc = "total"
    BY AssignedType DEF IInv, Total
  <1>2. exact = SumFunctionOnSet(assigned, 1 .. index - 1)
    BY <1>1 DEF Balance, TotalCounted
  <1>3. exact' = SumFunctionOnSet(assigned, 1 .. index)
    BY <1>1, <1>2, CountNext
  <1> DEFINE label == IF total' > parent THEN "reducePass" ELSE "decide"
  <1>4. Advance(label)
    BY DEF Total
  <1>5. label \in {"reducePass", "decide"}
    OBVIOUS
  <1> HIDE DEF label
  <1>6. \/ pc' = label /\ 1 .. index = Children
        \/ pc' = "total" /\ 1 .. index' - 1 = 1 .. index
    BY <1>1, <1>4, AdvanceParts DEF IInv
  <1>7. exact' = SumFunctionOnSet(assigned, IF pc' = "total" THEN 1 .. index' - 1 ELSE Children)
    BY <1>3, <1>5, <1>6
  <1>8. pc' \notin {"give", "recount", "weigh", "done"}
    BY <1>5, <1>6
  <1> QED
    BY <1>1, <1>7, <1>8 DEF Balance, TotalCounted, Settled

LEMMA RecountBalance == ASSUME IInv, Balance, Recount PROVE Balance'
  <1>1. /\ assigned \in [Children -> Nat] /\ index \in Children /\ exact \in Nat
        /\ total \in Nat /\ parent \in Nat /\ parent <= MaxWord /\ MaxWord \in Nat
    BY AssignedType DEF IInv
  <1>2. /\ assigned' = assigned /\ exact' = exact /\ cut' = cut /\ parent' = parent
        /\ input' = input /\ pc = "recount"
        /\ total' = WordSum(total, assigned[index])
        /\ report' = [feasible |-> TRUE, assigned |-> total']
    BY DEF Recount
  <1>3. exact = Sum(assigned)
    BY <1>2 DEF Balance, TotalCounted, Sum
  <1>4. ASSUME ~cut PROVE total' = SumFunctionOnSet(assigned, 1 .. index) /\ exact <= parent
    <2>1. total = SumFunctionOnSet(assigned, 1 .. index - 1)
      BY <1>2, <1>4 DEF Balance, TotalCounted
    <2>2. exact <= parent
      BY <1>2, <1>4 DEF IInv, Sums
    <2>3. /\ SumFunctionOnSet(assigned, 1 .. index) = total + assigned[index]
          /\ SumFunctionOnSet(assigned, 1 .. index) <= exact
      BY <1>1, <1>3, <2>1, CountNext
    <2>4. assigned[index] \in Nat
      BY <1>1
    <2>5. total + assigned[index] <= MaxWord
      BY <1>1, <2>2, <2>3, <2>4
    <2>6. total' = total + assigned[index]
      BY <1>1, <1>2, <2>4, <2>5 DEF WordSum, Lesser
    <2> QED
      BY <2>2, <2>3, <2>6
  <1>5. \/ pc' = "done" /\ 1 .. index = Children
        \/ pc' = "recount" /\ 1 .. index' - 1 = 1 .. index
    BY <1>2, AdvanceParts DEF IInv, Recount
  <1>6. NoneHasRoom' = NoneHasRoom
    BY <1>2, Fixed DEF NoneHasRoom, HasRoom
  <1>7. cut \/ exact = parent \/ NoneHasRoom
    BY <1>2 DEF Balance, Settled
  <1>8. TotalCounted'
    <2>1. exact' = SumFunctionOnSet(assigned', IF pc' = "total" THEN 1 .. index' - 1 ELSE Children)
      BY <1>2, <1>3, <1>5 DEF Sum
    <2>2. ASSUME pc' = "recount", ~cut PROVE total' = SumFunctionOnSet(assigned, 1 .. index' - 1)
      BY <1>4, <1>5, <2>2
    <2>3. ASSUME pc' = "done", ~cut
          PROVE  report'.assigned = exact /\ report'.feasible = (exact <= parent)
      <3>1. total' = exact /\ exact <= parent
        BY <1>3, <1>4, <1>5, <2>3 DEF Sum
      <3>2. report'.assigned = total' /\ report'.feasible = TRUE
        BY <1>2
      <3> QED
        BY <3>1, <3>2
    <2> QED
      BY <1>2, <1>5, <2>1, <2>2, <2>3 DEF TotalCounted
  <1>9. Settled'
    <2>1. cut' \/ exact' = parent' \/ NoneHasRoom'
      BY <1>2, <1>6, <1>7
    <2>2. cut' \/ exact' <= parent'
      BY <1>2, <1>4
    <2> QED
      BY <1>5, <2>1, <2>2 DEF Settled
  <1> QED
    BY <1>8, <1>9 DEF Balance

LEMMA ReducePassBalance == ASSUME IInv, Balance, ReducePass PROVE Balance'
  <1>1. /\ assigned' = assigned /\ exact' = exact /\ pc = "reducePass"
        /\ pc' \in {"decide", "reduce"}
    BY DEF ReducePass
  <1>2. exact = SumFunctionOnSet(assigned, Children)
    BY <1>1 DEF Balance, TotalCounted
  <1> QED
    BY <1>1, <1>2 DEF Balance, TotalCounted, Settled

LEMMA ReduceBalance == ASSUME IInv, Balance, Reduce PROVE Balance'
  <1> DEFINE r == Reduction(index)
  <1>1. assigned \in [Children -> Nat] /\ index \in Children /\ exact \in Nat
    BY AssignedType DEF IInv
  <1>2. /\ assigned' = [assigned EXCEPT ![index] = assigned[index] - r]
        /\ exact' = exact - r /\ pc = "reduce"
    BY DEF Reduce
  <1>3. pc' \in {"decide", "reduce", "reducePass"}
    BY AdvanceType DEF Reduce, IInv
  <1>4. r \in Nat /\ r <= assigned[index] - MinBytes(index)
    BY <1>2, ReductionBounds
  <1>5. MinBytes(index) \in Nat /\ assigned[index] \in Nat
    BY <1>1, WithinBounds DEF IInv
  <1> HIDE DEF r
  <1>6. assigned[index] - r \in Nat
    BY <1>4, <1>5
  <1>7. /\ assigned' \in [Children -> Nat] /\ assigned'[index] = assigned[index] - r
        /\ \A i \in Children \ {index} : assigned'[i] = assigned[i]
    BY <1>1, <1>2, <1>6
  <1>8. Sum(assigned') + assigned[index] = Sum(assigned) + assigned'[index] /\ Sum(assigned') \in Nat
    BY <1>1, <1>7, SumOfOne
  <1>9. exact = Sum(assigned)
    BY <1>2 DEF Balance, TotalCounted, Sum
  <1>10. exact' = Sum(assigned')
    BY <1>1, <1>2, <1>4, <1>5, <1>7, <1>8, <1>9
  <1> QED
    BY <1>3, <1>10 DEF Balance, TotalCounted, Settled, Sum

LEMMA DecideBalance == ASSUME IInv, Balance, Decide PROVE Balance'
  <1>1. total \in Nat /\ parent \in Nat /\ exact \in Nat
    BY AssignedType DEF IInv
  <1>2. /\ assigned' = assigned /\ exact' = exact /\ cut' = cut /\ parent' = parent
        /\ input' = input /\ index' = index /\ pc = "decide"
    BY DEF Decide
  <1>3. exact = SumFunctionOnSet(assigned, Children) /\ (cut \/ exact = total) /\ index = 1
    BY <1>2 DEF Balance, TotalCounted, IInv, Sums, Phases
  <1>4. CASE total >= parent /\ pc' = "done"
             /\ report' = [feasible |-> total = parent, assigned |-> total]
    <2>1. report'.feasible = (total = parent) /\ report'.assigned = total
      BY <1>4
    <2>2. TotalCounted'
      <3>1. ASSUME ~cut PROVE report'.assigned = exact /\ report'.feasible = (exact <= parent)
        <4>1. exact = total
          BY <1>3, <3>1
        <4>2. (total = parent) = (total <= parent)
          BY <1>1, <1>4
        <4> QED
          BY <2>1, <4>1, <4>2
      <3> QED
        BY <1>2, <1>3, <1>4, <3>1 DEF TotalCounted
    <2>3. total > parent => AllAtMinimum
      <3> SUFFICES ASSUME total > parent, NEW i \in Children PROVE assigned[i] = MinBytes(i)
        BY DEF AllAtMinimum
      <3>1. i \notin Reducible
        BY <1>2 DEF IInv, Phases
      <3>2. MinBytes(i) \in Nat /\ assigned[i] \in Nat /\ MinBytes(i) <= assigned[i]
        BY WithinBounds DEF IInv
      <3> QED
        BY <3>1, <3>2 DEF Reducible
    <2>4. AllAtMinimum' = AllAtMinimum
      BY <1>2, Fixed DEF AllAtMinimum
    <2>5. cut \/ exact = parent \/ (exact > parent /\ AllAtMinimum)
      <3>1. total = parent \/ total > parent
        BY <1>1, <1>4
      <3> QED
        BY <1>3, <2>3, <3>1
    <2>6. Settled'
      BY <1>2, <1>4, <2>4, <2>5 DEF Settled
    <2> QED
      BY <2>2, <2>6 DEF Balance
  <1>5. CASE pc' = "weigh" /\ totalWeight' = 0
    <2>1. 1 .. index' - 1 = {}
      BY <1>2, <1>3
    <2>2. \A i \in 1 .. index' - 1 : Weights'[i] = 0
      BY <2>1
    <2>3. totalWeight' = 0 <=> \A i \in 1 .. index' - 1 : Weights'[i] = 0
      BY <1>5, <2>2
    <2>4. Settled'
      BY <1>5, <2>3 DEF Settled
    <2>5. TotalCounted'
      BY <1>2, <1>3, <1>5 DEF TotalCounted
    <2> QED
      BY <2>4, <2>5 DEF Balance
  <1> QED
    BY <1>4, <1>5 DEF Decide

LEMMA WeighBalance == ASSUME IInv, Balance, Weigh PROVE Balance'
  <1>1. /\ index \in Children /\ totalWeight \in Word /\ MaxWord \in Nat \ {0}
        /\ totalWeight \in Nat
    BY WordType, AllocationAssumption DEF IInv, AllocationTypes
  <1>2. /\ assigned' = assigned /\ exact' = exact /\ cut' = cut /\ parent' = parent
        /\ input' = input /\ pc = "weigh" /\ weights' = Weights /\ total' = 0
        /\ totalWeight' = WordSum(totalWeight, Weights[index])
    BY DEF Weigh
  <1>3. exact = SumFunctionOnSet(assigned, Children)
    BY <1>2 DEF Balance, TotalCounted
  <1>4. /\ Weights \in [Children -> Nat] /\ Weights[index] \in Nat
        /\ (\A i \in Children : Weights[i] = 0) => NoneHasRoom
        /\ \A i \in Children : Weights[i] > 0 => HasRoom(i)
    BY <1>1, WeightsTell DEF IInv
  <1>5. totalWeight' = 0 <=> totalWeight = 0 /\ Weights[index] = 0
    <2> DEFINE w == Weights[index]
    <2>1. w \in Nat /\ totalWeight' = WordSum(totalWeight, w)
      BY <1>2, <1>4
    <2> HIDE DEF w
    <2>2. totalWeight' = 0 <=> totalWeight = 0 /\ w = 0
      BY <1>1, <2>1 DEF WordSum, Lesser
    <2> QED
      BY <2>2 DEF w
  <1>6. totalWeight = 0 <=> \A i \in 1 .. index - 1 : Weights[i] = 0
    BY <1>2 DEF Balance, Settled
  <1>7. 1 .. index = (1 .. index - 1) \cup {index}
    BY <1>1 DEF Children
  <1>8. totalWeight' = 0 <=> \A i \in 1 .. index : Weights[i] = 0
    BY <1>5, <1>6, <1>7
  <1> DEFINE label == IF totalWeight' = 0 THEN "recount" ELSE "give"
  <1>9. Advance(label)
    BY DEF Weigh
  <1>10. label \in {"recount", "give"} /\ (label = "recount" <=> totalWeight' = 0)
    OBVIOUS
  <1> HIDE DEF label
  <1>11. \/ pc' = label /\ 1 .. index = Children /\ index' = 1
         \/ pc' = "weigh" /\ 1 .. index' - 1 = 1 .. index
    BY <1>2, <1>9, AdvanceParts DEF IInv
  <1>12. Weights' = Weights
    BY <1>2, Fixed DEF Weights, HasRoom
  <1>13. NoneHasRoom' = NoneHasRoom /\ \A i \in Children : HasRoom(i)' = HasRoom(i)
    BY <1>2, Fixed DEF NoneHasRoom, HasRoom
  <1>14. TotalCounted'
    <2>1. exact' = SumFunctionOnSet(assigned', IF pc' = "total" THEN 1 .. index' - 1 ELSE Children)
      BY <1>2, <1>3, <1>10, <1>11
    <2>2. pc' = "recount" => total' = SumFunctionOnSet(assigned', 1 .. index' - 1)
      <3> SUFFICES ASSUME pc' = "recount" PROVE SumFunctionOnSet(assigned', 1 .. index' - 1) = 0
        BY <1>2
      <3>1. 1 .. index' - 1 = {}
        BY <1>11
      <3> QED
        BY <3>1, SumEmpty
    <2> QED
      BY <1>2, <1>10, <1>11, <2>1, <2>2 DEF TotalCounted
  <1>15. Settled'
    <2>1. pc' = "weigh" => (totalWeight' = 0 <=> \A i \in 1 .. index' - 1 : Weights'[i] = 0)
      BY <1>8, <1>10, <1>11, <1>12
    <2>2. ASSUME pc' = "give" PROVE \E i \in index' .. NumChildren : weights'[i] > 0 /\ HasRoom(i)'
      <3>1. totalWeight' # 0 /\ 1 .. index = Children /\ index' = 1
        BY <1>10, <1>11, <2>2
      <3>2. PICK i \in Children : Weights[i] # 0
        BY <1>8, <3>1
      <3>3. Weights[i] > 0 /\ HasRoom(i)
        BY <1>4, <3>2
      <3>4. i \in index' .. NumChildren
        BY <3>1 DEF Children
      <3> QED
        BY <1>2, <1>13, <3>3, <3>4
    <2>3. ASSUME pc' = "recount" PROVE NoneHasRoom'
      BY <1>4, <1>8, <1>10, <1>11, <1>13, <2>3
    <2> QED
      BY <1>10, <1>11, <2>1, <2>2, <2>3 DEF Settled
  <1> QED
    BY <1>14, <1>15 DEF Balance

LEMMA GiveBalance == ASSUME IInv, Balance, Give PROVE Balance'
  <1> DEFINE a == Addition(index)
  <1>1. /\ assigned \in [Children -> Nat] /\ index \in Children /\ exact \in Nat
        /\ parent \in Nat /\ remainder \in Nat /\ index \in Nat /\ NumChildren \in Nat
    <2>1. remainder \in Nat
      BY WordType DEF IInv, AllocationTypes
    <2>2. index \in Children
      BY AssignedType DEF IInv
    <2>3. index \in Nat /\ NumChildren \in Nat
      BY <2>2, AllocationAssumption DEF Children
    <2> QED
      BY <2>1, <2>3, AssignedType DEF IInv
  <1>2. /\ assigned' = [assigned EXCEPT ![index] = assigned[index] + a]
        /\ exact' = exact + a /\ remainder' = remainder - a
        /\ pc = "give" /\ total' = total /\ cut' = cut /\ parent' = parent
        /\ input' = input /\ weights' = weights
        /\ changed' = (changed \/ (HasRoom(index) /\ weights[index] > 0))
    BY DEF Give
  <1>3. a \in Nat /\ a <= remainder
    BY <1>2, AdditionBounds
  <1> HIDE DEF a
  <1>4. /\ assigned' \in [Children -> Nat] /\ assigned'[index] = assigned[index] + a
        /\ \A i \in Children \ {index} : assigned'[i] = assigned[i]
        /\ assigned[index] \in Nat
    BY <1>1, <1>2, <1>3
  <1>5. Sum(assigned') + assigned[index] = Sum(assigned) + assigned'[index] /\ Sum(assigned') \in Nat
    BY <1>1, <1>4, SumOfOne
  <1>6. exact = Sum(assigned) /\ total = 0
    BY <1>2 DEF Balance, TotalCounted, Sum
  <1>7. exact' = Sum(assigned')
    BY <1>1, <1>2, <1>3, <1>4, <1>5, <1>6
  <1>8. \/ remainder' = 0 /\ pc' = "recount" /\ index' = 1
        \/ remainder' # 0 /\ Advance(IF changed' THEN "weigh" ELSE "recount")
    BY DEF Give
  <1>9. \/ remainder' = 0 /\ pc' = "recount" /\ index' = 1
        \/ index = NumChildren /\ index' = 1 /\ pc' = IF changed' THEN "weigh" ELSE "recount"
        \/ index' = index + 1 /\ pc' = "give"
    BY <1>2, <1>8, AdvanceParts DEF IInv
  <1>10. PICK i \in Children : changed' \/ (i \in index + 1 .. NumChildren /\ weights[i] > 0 /\ HasRoom(i))
    <2>1. CASE changed
      BY <1>1, <1>2, <2>1
    <2>2. CASE ~changed
      <3>1. PICK i \in index .. NumChildren : weights[i] > 0 /\ HasRoom(i)
        BY <1>2, <2>2 DEF Balance, Settled
      <3>2. i \in Children /\ (i = index \/ i \in index + 1 .. NumChildren)
        BY <1>1 DEF Children
      <3> QED
        BY <1>2, <3>1, <3>2
    <2> QED
      BY <2>1, <2>2
  <1>11. index = NumChildren => changed'
    BY <1>1, <1>10
  <1>12. \/ remainder' = 0 /\ pc' = "recount" /\ index' = 1
         \/ pc' = "weigh" /\ index' = 1
         \/ pc' = "give" /\ index' = index + 1
    BY <1>9, <1>11
  <1>13. TotalCounted'
    <2>1. exact' = SumFunctionOnSet(assigned', IF pc' = "total" THEN 1 .. index' - 1 ELSE Children)
      BY <1>7, <1>12 DEF Sum
    <2>2. pc' = "recount" => total' = SumFunctionOnSet(assigned', 1 .. index' - 1)
      <3> SUFFICES ASSUME pc' = "recount" PROVE SumFunctionOnSet(assigned', 1 .. index' - 1) = 0
        BY <1>2, <1>6
      <3>1. 1 .. index' - 1 = {}
        BY <1>12
      <3> QED
        BY <3>1, SumEmpty
    <2> QED
      BY <1>2, <1>6, <1>12, <2>1, <2>2 DEF TotalCounted
  <1>14. Settled'
    <2>1. ASSUME pc' = "weigh"
          PROVE  totalWeight' = 0 /\ \A j \in 1 .. index' - 1 : Weights'[j] = 0
      <3>1. 1 .. index' - 1 = {}
        BY <1>12, <2>1
      <3> QED
        BY <2>1, <3>1 DEF Give
    <2>2. ASSUME pc' = "give"
          PROVE  changed' \/ \E j \in index' .. NumChildren : weights'[j] > 0 /\ HasRoom(j)'
      <3> SUFFICES ASSUME ~changed'
                   PROVE  \E j \in index' .. NumChildren : weights'[j] > 0 /\ HasRoom(j)'
        OBVIOUS
      <3>1. i \in index' .. NumChildren /\ weights[i] > 0 /\ HasRoom(i) /\ i # index
        BY <1>1, <1>10, <1>12, <2>2
      <3>2. HasRoom(i)'
        BY <1>2, <1>4, <3>1, Fixed DEF HasRoom
      <3> QED
        BY <1>2, <3>1, <3>2
    <2>3. ASSUME pc' = "recount" PROVE cut' \/ exact' = parent'
      <3>1. remainder' = 0 /\ (cut \/ exact + remainder = parent)
        BY <1>2, <1>12, <2>3 DEF IInv, Sums
      <3>2. exact + remainder = parent => exact' = parent
        BY <1>1, <1>2, <1>3, <3>1
      <3> QED
        BY <1>2, <3>1, <3>2
    <2> QED
      BY <1>12, <2>1, <2>2, <2>3 DEF Settled
  <1> QED
    BY <1>13, <1>14 DEF Balance

LEMMA StutterBalance == ASSUME Balance, UNCHANGED allocationVars PROVE Balance'
  <1>1. /\ parent' = parent /\ input' = input /\ pc' = pc /\ index' = index
        /\ assigned' = assigned /\ total' = total /\ totalWeight' = totalWeight
        /\ weights' = weights /\ changed' = changed /\ report' = report
        /\ exact' = exact /\ cut' = cut
    BY DEF allocationVars, pass
  <1>2. /\ \A i \in Children : HasRoom(i)' = HasRoom(i)
        /\ NoneHasRoom' = NoneHasRoom /\ AllAtMinimum' = AllAtMinimum
    BY <1>1, Fixed DEF HasRoom, NoneHasRoom, AllAtMinimum
  <1>3. Weights' = Weights
    BY <1>1, <1>2 DEF Weights
  <1>4. Settled'
    <2>1. Settled
      BY DEF Balance
    <2>2. 1 .. index' - 1 = 1 .. index - 1 /\ index' .. NumChildren = index .. NumChildren
      BY <1>1
    <2>3. ASSUME pc = "give"
          PROVE  changed' \/ \E i \in index' .. NumChildren : weights'[i] > 0 /\ HasRoom(i)'
      <3>1. changed \/ \E i \in index .. NumChildren : weights[i] > 0 /\ HasRoom(i)
        BY <2>1, <2>3 DEF Settled
      <3>2. \A i : HasRoom(i)' = HasRoom(i)
        BY <1>1 DEF HasRoom, MaxBytes
      <3> QED
        BY <1>1, <3>1, <3>2
    <2> QED
      BY <1>1, <1>2, <1>3, <2>1, <2>3 DEF Settled
  <1>5. TotalCounted'
    BY <1>1 DEF Balance, TotalCounted
  <1> QED
    BY <1>4, <1>5 DEF Balance

(* The balance when the call returns is what AssignsParent asks for. *)
LEMMA BalanceAssigns == ASSUME IInv, Balance PROVE AssignsParent
  <1> SUFFICES ASSUME pc = "done", ~cut
               PROVE  /\ Sum(assigned) = Clamp(parent, MinimumSum, MaximumSum)
                      /\ Sum(assigned) = report.assigned /\ Sum(assigned) = exact
                      /\ report.feasible = (Sum(assigned) <= parent)
    BY DEF AssignsParent
  <1>1. exact = Sum(assigned)
    BY DEF Balance, TotalCounted, Sum
  <1>2. report.assigned = exact /\ report.feasible = (exact <= parent)
    BY DEF Balance, TotalCounted
  <1>3. /\ MinimumSum \in Nat /\ MaximumSum \in Nat /\ Sum(assigned) \in Nat
        /\ MinimumSum <= Sum(assigned) /\ Sum(assigned) <= MaximumSum
        /\ AllAtMinimum => Sum(assigned) = MinimumSum
        /\ NoneHasRoom => Sum(assigned) = MaximumSum
    BY SumWithinBounds DEF IInv
  <1>4. parent \in Nat
    BY AssignedType DEF IInv
  <1>5. \/ exact = parent
        \/ AllAtMinimum /\ exact > parent
        \/ NoneHasRoom /\ exact <= parent
    BY DEF Balance, Settled
  <1>6. \/ exact = parent
        \/ exact = MinimumSum /\ exact > parent
        \/ exact = MaximumSum /\ exact <= parent
    BY <1>1, <1>3, <1>5
  <1>7. exact = Clamp(parent, MinimumSum, MaximumSum)
    BY <1>1, <1>3, <1>4, <1>6 DEF Clamp
  <1> QED
    BY <1>1, <1>2, <1>7

-----------------------------------------------------------------------------
(* Who is given something first *)

LEMMA Keeps ==
    ASSUME UNCHANGED <<input, assigned>>
    PROVE  /\ \A i \in Children : HasRoom(i)' = HasRoom(i) /\ Start(i)' = Start(i)
           /\ ScoresComeFirst' = ScoresComeFirst
  <1>1. \A i \in Children : HasRoom(i)' = HasRoom(i) /\ Start(i)' = Start(i)
    BY Fixed DEF HasRoom, Start
  <1> QED
    BY <1>1 DEF ScoresComeFirst

LEMMA StartIsNatural ==
    ASSUME AllocationTypes
    PROVE  \A i \in Children : Start(i) \in Nat /\ assigned[i] \in Nat
  BY StartType, WordType DEF AllocationTypes

LEMMA InitOrder == AllocationInit => Order
  <1> SUFFICES ASSUME AllocationInit PROVE Order
    OBVIOUS
  <1>1. AllocationTypes
    BY InitHolds DEF IInv
  <1>2. \A i \in Children : assigned[i] = Start(i) /\ Start(i) \in Nat
    BY <1>1, StartIsNatural DEF AllocationInit
  <1>3. \A i \in Children : assigned[i] <= Start(i) /\ ~(assigned[i] > Start(i))
    BY <1>2
  <1> QED
    BY <1>3 DEF AllocationInit, Order, Unscored, ScoresComeFirst

(* A step that assigns nothing and begins no pass *)
LEMMA OrderKept ==
    ASSUME Order, UNCHANGED <<input, assigned>>,
           \/ pc' = pc /\ weights' = weights
           \/ pc' \in {"weigh", "recount", "done"}
           \/ pc \in {"total", "reducePass", "reduce", "decide"} /\ pc' # "give"
    PROVE  Order'
  <1>1. /\ \A i \in Children : HasRoom(i)' = HasRoom(i) /\ Start(i)' = Start(i)
        /\ ScoresComeFirst' = ScoresComeFirst
    BY Keeps
  <1>2. Unscored'
    BY <1>1 DEF Order, Unscored
  <1> QED
    BY <1>1, <1>2 DEF Order

LEMMA WeighOrder == ASSUME IInv, Order, Weigh PROVE Order'
  <1>1. /\ \A i \in Children : HasRoom(i)' = HasRoom(i)
        /\ ScoresComeFirst' = ScoresComeFirst
    BY Keeps DEF Weigh
  <1>2. \A i, j \in Children :
            input[i].score = 0 /\ Weights[i] > 0 /\ input[j].score > 0 => ~HasRoom(j)
    BY WeightsTell DEF IInv
  <1>3. pc' \in {"weigh", "give", "recount"} /\ input' = input /\ weights' = Weights
    BY AdvanceType DEF IInv, Weigh
  <1>4. Unscored'
    BY <1>1, <1>2, <1>3 DEF Unscored
  <1> QED
    BY <1>1, <1>4 DEF Order

LEMMA ReduceOrder == ASSUME IInv, Order, Reduce PROVE Order'
  <1> DEFINE r == Reduction(index)
  <1>1. assigned \in [Children -> Nat] /\ index \in Children
    BY AssignedType DEF IInv
  <1>2. assigned' = [assigned EXCEPT ![index] = assigned[index] - r] /\ input' = input
    BY DEF Reduce
  <1>3. pc' \in {"decide", "reduce", "reducePass"} /\ pc = "reduce"
    BY AdvanceType DEF Reduce, IInv
  <1>4. r \in Nat /\ r <= assigned[index] - MinBytes(index) /\ MinBytes(index) \in Nat
    BY <1>1, <1>3, ReductionBounds, WithinBounds DEF IInv
  <1> HIDE DEF r
  <1>5. \A i \in Children : assigned[i] \in Nat /\ assigned'[i] \in Nat /\ assigned'[i] <= assigned[i]
    BY <1>1, <1>2, <1>4
  <1>6. \A i \in Children : Start(i)' = Start(i) /\ Start(i) \in Nat /\ assigned[i] <= Start(i)
    <2>1. \A i \in Children : Start(i)' = Start(i)
      BY <1>2, Fixed DEF Start
    <2> QED
      BY <1>3, <2>1, StartIsNatural DEF IInv, Order, Unscored
  <1>7. \A i \in Children : assigned'[i] <= Start(i)' /\ ~(assigned'[i] > Start(i)')
    BY <1>5, <1>6
  <1> QED
    BY <1>3, <1>7 DEF Order, Unscored, ScoresComeFirst

LEMMA GiveOrder == ASSUME IInv, Order, Give PROVE Order'
  <1> DEFINE a == Addition(index)
  <1>1. assigned \in [Children -> Nat] /\ index \in Children
    BY AssignedType DEF IInv
  <1>2. /\ assigned' = [assigned EXCEPT ![index] = assigned[index] + a]
        /\ input' = input /\ weights' = weights /\ pc = "give"
    BY DEF Give
  <1>3. a \in Nat /\ (a # 0 => HasRoom(index) /\ weights[index] > 0)
    BY <1>2, AdditionBounds DEF Addition
  <1>4. pc' \in {"give", "weigh", "recount"}
    BY <1>2, AdvanceType DEF Give, IInv
  <1> HIDE DEF a
  <1>5. /\ \A i \in Children \ {index} : assigned'[i] = assigned[i]
        /\ assigned'[index] = assigned[index] + a
    BY <1>1, <1>2
  <1>6. \A i \in Children : ~HasRoom(i) => ~HasRoom(i)' /\ assigned'[i] = assigned[i]
    <2> SUFFICES ASSUME NEW i \in Children, ~HasRoom(i)
                 PROVE  ~HasRoom(i)' /\ assigned'[i] = assigned[i]
      OBVIOUS
    <2>1. i = index => a = 0
      BY <1>3
    <2>2. assigned'[i] = assigned[i]
      BY <1>1, <1>5, <2>1
    <2> QED
      BY <1>2, <2>2, Fixed DEF HasRoom
  <1>7. \A i, j \in Children :
            input[i].score = 0 /\ weights[i] > 0 /\ input[j].score > 0 => ~HasRoom(j)
    BY <1>2 DEF Order, Unscored
  <1>8. Unscored'
    BY <1>2, <1>4, <1>6, <1>7 DEF Unscored
  <1>9. ScoresComeFirst'
    <2> SUFFICES ASSUME NEW i \in Children, input[i].score = 0, assigned'[i] > Start(i)',
                        NEW j \in Children, input[j].score > 0
                 PROVE  ~HasRoom(j)'
      BY <1>2 DEF ScoresComeFirst
    <2>1. Start(i)' = Start(i)
      BY <1>2, Fixed DEF Start
    <2>2. CASE i = index /\ a # 0
      BY <1>3, <1>6, <1>7, <2>2
    <2>3. CASE ~(i = index /\ a # 0)
      <3>1. assigned'[i] = assigned[i]
        BY <1>1, <1>5, <2>3
      <3>2. ~HasRoom(j)
        BY <2>1, <3>1 DEF Order, ScoresComeFirst
      <3> QED
        BY <1>6, <3>2
    <2> QED
      BY <2>2, <2>3
  <1> QED
    BY <1>8, <1>9 DEF Order

LEMMA OrderStep == ASSUME IInv, Order, [AllocationNext]_allocationVars PROVE Order'
  <1>1. ASSUME Total PROVE Order'
    <2>1. pc = "total" /\ pc' \in {"total", "reducePass", "decide"}
      BY <1>1, AdvanceType DEF Total, IInv
    <2>2. UNCHANGED <<input, assigned>>
      BY <1>1 DEF Total
    <2> QED
      BY <2>1, <2>2, OrderKept
  <1>2. ASSUME Recount PROVE Order'
    <2>1. pc = "recount" /\ pc' \in {"recount", "done"}
      BY <1>2, AdvanceType DEF Recount, IInv
    <2>2. UNCHANGED <<input, assigned>>
      BY <1>2 DEF Recount
    <2> QED
      BY <2>1, <2>2, OrderKept
  <1>3. ASSUME ReducePass PROVE Order'
    <2>1. pc = "reducePass" /\ pc' \in {"reduce", "decide"} /\ UNCHANGED <<input, assigned>>
      BY <1>3 DEF ReducePass
    <2> QED
      BY <2>1, OrderKept
  <1>4. ASSUME Decide PROVE Order'
    <2>1. pc = "decide" /\ pc' \in {"done", "weigh"} /\ UNCHANGED <<input, assigned>>
      BY <1>4 DEF Decide
    <2> QED
      BY <2>1, OrderKept
  <1>5. ASSUME UNCHANGED allocationVars PROVE Order'
    <2>1. pc' = pc /\ weights' = weights /\ UNCHANGED <<input, assigned>>
      BY <1>5 DEF allocationVars, pass
    <2> QED
      BY <2>1, OrderKept
  <1> QED
    BY <1>1, <1>2, <1>3, <1>4, <1>5, ReduceOrder, WeighOrder, GiveOrder
       DEF AllocationNext, Returned

-----------------------------------------------------------------------------
(* Theorems *)

(* The invariant holds at each iteration of each loop of                          *)
(* allocateBudgetTargetsReport.                                                  *)
THEOREM Inductive == AllocationSpec => []IInv
  <1>1. AllocationInit => IInv
    BY InitHolds
  <1>2. IInv /\ [AllocationNext]_allocationVars => IInv'
    BY TotalStep, RecountStep, ReducePassStep, ReduceStep, DecideStep, WeighStep, GiveStep,
       Stutter DEF AllocationNext, Returned
  <1>q. QED BY <1>1, <1>2, PTL DEF AllocationSpec

(* Every intermediate value is a word: no subtraction of the reduction and no       *)
(* addition of the distribution wraps.                                           *)
THEOREM TypeCorrect == AllocationSpec => []AllocationTypes
  <1>1. IInv => AllocationTypes
    BY DEF IInv
  <1>q. QED BY <1>1, Inductive, PTL

(* Every assignment stays within the bounds of its child, and an infeasible         *)
(* allocation leaves everyone its minimum.                                        *)
THEOREM BoundsAreKept == AllocationSpec => []BoundsKept
  <1>1. IInv => BoundsKept
    BY DEF IInv
  <1>q. QED BY <1>1, Inductive, PTL

(* An allocation that is reported as feasible fits the parent, unless saturation    *)
(* had cut the first total.                                                      *)
THEOREM FeasibleFitsParent == AllocationSpec => []FeasibleFits
  <1>1. IInv => FeasibleFits
    BY DEF IInv, Sums, FeasibleFits
  <1>q. QED BY <1>1, Inductive, PTL

(* An allocation whose first total was not cut assigns exactly the parent budget,    *)
(* or the sum of the minimums or of the maximums where those force or allow no        *)
(* more, and reports that sum: the rounding of the passes of                       *)
(* reduceBudgetAssignmentsToLimit and distributeBudgetRemainder loses no byte.      *)
THEOREM ParentIsAssigned == AllocationSpec => []AssignsParent
  <1> DEFINE I == IInv /\ Balance
  <1>1. AllocationInit => I
    BY InitHolds, InitBalance
  <1>2. I /\ [AllocationNext]_allocationVars => I'
    <2> SUFFICES ASSUME IInv, Balance, [AllocationNext]_allocationVars PROVE IInv' /\ Balance'
      OBVIOUS
    <2>1. IInv'
      BY TotalStep, RecountStep, ReducePassStep, ReduceStep, DecideStep, WeighStep, GiveStep,
         Stutter DEF AllocationNext, Returned
    <2>2. Balance'
      BY TotalBalance, RecountBalance, ReducePassBalance, ReduceBalance, DecideBalance,
         WeighBalance, GiveBalance, StutterBalance DEF AllocationNext, Returned
    <2> QED
      BY <2>1, <2>2
  <1>3. I => AssignsParent
    BY BalanceAssigns
  <1> QED
    BY <1>1, <1>2, <1>3, PTL DEF AllocationSpec

(* A child without a score exceeds its base only once every child with a score is     *)
(* at its maximum, whatever the rounding of the shares gives away.                 *)
THEOREM ScoresAreFirst == AllocationSpec => []ScoresComeFirst
  <1>1. AllocationInit => Order
    BY InitOrder
  <1>2. IInv /\ Order /\ [AllocationNext]_allocationVars => Order'
    BY OrderStep
  <1>3. Order => ScoresComeFirst
    BY DEF Order
  <1> QED
    BY <1>1, <1>2, <1>3, Inductive, PTL DEF AllocationSpec

=============================================================================
