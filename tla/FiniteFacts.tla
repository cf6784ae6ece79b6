----------------------------- MODULE FiniteFacts -----------------------------
(***************************************************************************)
(* What the proofs need of natural numbers and finite sets and the library *)
(* states only with an operator parameter: induction as the existence of a *)
(* least counterexample, the recursive function behind MapThenSumSet and   *)
(* the one that concatenates sequences, and the ranks of numbers in a set. *)
(***************************************************************************)
EXTENDS Integers, FiniteSets, Sequences, FiniteSetTheorems,
        WellFoundedInduction, TLAPS

Pick(T) == CHOOSE x \in T : TRUE

\* h sums the values of g over every subset of S.
Sums(h, g, S) ==
  h = [T \in SUBSET S |-> IF T = {} THEN 0 ELSE g[Pick(T)] + h[T \ {Pick(T)}]]

LEMMA PickIn == ASSUME NEW T, T # {} PROVE Pick(T) \in T
BY DEF Pick

LEMMA OneLess ==
  ASSUME NEW T, IsFiniteSet(T), NEW x \in T
  PROVE  /\ IsFiniteSet(T \ {x}) /\ Cardinality(T \ {x}) \in Nat
         /\ Cardinality(T \ {x}) < Cardinality(T)
         /\ ~(Cardinality(T) <= Cardinality(T \ {x}))
<1>1. IsFiniteSet(T \ {x}) /\ Cardinality(T \ {x}) = Cardinality(T) - 1
  BY FS_RemoveElement
<1>2. Cardinality(T) \in Nat /\ Cardinality(T \ {x}) \in Nat
  BY <1>1, FS_CardinalityType
<1> QED BY <1>1, <1>2

\* Natural numbers are well ordered.
LEMMA Least ==
  ASSUME NEW N \in SUBSET Nat, N # {}
  PROVE  \E n \in N : \A m \in N : n <= m
<1> DEFINE R == OpToRel(<, Nat)
<1>1. IsWellFoundedOn(R, Nat)
  BY NatLessThanWellFounded
<1>2. \A x, y \in Nat : <<y, x>> \in R <=> y < x
  BY DEF OpToRel
<1> HIDE DEF R
<1>3. PICK n \in N : \A m \in N : ~(<<m, n>> \in R)
  BY <1>1, WFMin
<1>4. ASSUME NEW m \in N PROVE n <= m
  <2>1. <<m, n>> \notin R
    BY <1>3
  <2>2. ~(m < n)
    BY <1>2, <2>1
  <2> QED BY <2>2
<1> QED BY <1>4

\* A set of counterexamples among the finite sets has a least one.
LEMMA SmallestSet ==
  ASSUME NEW Bad, Bad # {}, \A T \in Bad : IsFiniteSet(T)
  PROVE  \E T \in Bad : \A U \in Bad : Cardinality(T) <= Cardinality(U)
<1> DEFINE sizes == { Cardinality(T) : T \in Bad }
<1>1. sizes \in SUBSET Nat /\ sizes # {}
  BY FS_CardinalityType
<1> HIDE DEF sizes
<1>2. \E n \in sizes : \A m \in sizes : n <= m
  BY <1>1, Least
<1> QED BY <1>2 DEF sizes

\* The recursion has a solution.
LEMMA SumsExist ==
  ASSUME NEW S, IsFiniteSet(S), NEW g \in [S -> Int]
  PROVE  \E h \in [SUBSET S -> Int] : Sums(h, g, S)
<1> DEFINE Upto(n) == { T \in SUBSET S : Cardinality(T) <= n }
           Step(h, T) == IF T = {} THEN 0 ELSE g[Pick(T)] + h[T \ {Pick(T)}]
           Solved(n) == \E h \in [Upto(n) -> Int] : \A T \in Upto(n) : h[T] = Step(h, T)
<1>0. \A T \in SUBSET S : IsFiniteSet(T) /\ Cardinality(T) \in Nat
  BY FS_Subset, FS_CardinalityType
<1>1. Solved(0)
  <2>1. \A T \in Upto(0) : T = {}
    BY <1>0, FS_EmptySet
  <2> DEFINE h == [T \in Upto(0) |-> 0]
  <2>2. h \in [Upto(0) -> Int] /\ \A T \in Upto(0) : h[T] = Step(h, T)
    BY <2>1
  <2> HIDE DEF h
  <2> QED BY <2>2
<1>2. ASSUME NEW n \in Nat, Solved(n) PROVE Solved(n + 1)
  <2>1. PICK h \in [Upto(n) -> Int] : \A T \in Upto(n) : h[T] = Step(h, T)
    BY <1>2
  <2>2. \A T \in Upto(n + 1) : T # {} =>
          /\ Pick(T) \in S /\ T \ {Pick(T)} \in Upto(n) /\ g[Pick(T)] \in Int
          /\ h[T \ {Pick(T)}] \in Int
    <3> SUFFICES ASSUME NEW T \in Upto(n + 1), T # {}
                 PROVE  Pick(T) \in S /\ T \ {Pick(T)} \in Upto(n)
      BY <2>1
    <3>1. Pick(T) \in T
      BY PickIn
    <3>2. Cardinality(T \ {Pick(T)}) < Cardinality(T) /\ Cardinality(T) <= n + 1
      BY <1>0, <3>1, OneLess
    <3> QED BY <1>0, <3>1, <3>2
  <2> DEFINE k == [T \in Upto(n + 1) |-> Step(h, T)]
  <2>3. k \in [Upto(n + 1) -> Int]
    BY <2>2
  <2>4. \A T \in Upto(n) : T \in Upto(n + 1) /\ k[T] = h[T]
    BY <1>0, <2>1
  <2>5. \A T \in Upto(n + 1) : k[T] = Step(k, T)
    BY <2>2, <2>4
  <2> HIDE DEF k
  <2> QED BY <2>3, <2>5
<1>3. \A n \in Nat : Solved(n)
  <2> DEFINE Unsolved == { n \in Nat : ~Solved(n) }
  <2> SUFFICES ASSUME Unsolved # {} PROVE FALSE
    OBVIOUS
  <2>1. PICK n \in Unsolved : \A m \in Unsolved : n <= m
    <3>1. Unsolved \in SUBSET Nat
      OBVIOUS
    <3> HIDE DEF Unsolved
    <3> QED BY <3>1, Least
  <2> HIDE DEF Solved
  <2>2. n \in Nat /\ n # 0 /\ ~Solved(n)
    BY <1>1
  <2>3. n - 1 \in Nat /\ Solved(n - 1)
    BY <2>1, <2>2
  <2>4. Solved((n - 1) + 1)
    BY <1>2, <2>3
  <2> QED BY <2>2, <2>4
<1>4. PICK n \in Nat : n = Cardinality(S)
  BY <1>0
<1>5. Upto(n) = SUBSET S
  BY <1>4, FS_Subset
<1>6. PICK h \in [SUBSET S -> Int] : \A T \in SUBSET S : h[T] = Step(h, T)
  BY <1>3, <1>5
<1>7. h = [T \in SUBSET S |-> Step(h, T)]
  BY <1>6
<1> QED BY <1>7 DEF Sums

LEMMA SumsInt ==
  ASSUME NEW S, IsFiniteSet(S), NEW g \in [S -> Int], NEW h, Sums(h, g, S)
  PROVE  \A T \in SUBSET S : h[T] \in Int
<1>1. \A T \in SUBSET S : h[T] = IF T = {} THEN 0 ELSE g[Pick(T)] + h[T \ {Pick(T)}]
  BY DEF Sums
<1>2. \A T \in SUBSET S : IsFiniteSet(T)
  BY FS_Subset
<1> DEFINE Bad == { T \in SUBSET S : h[T] \notin Int }
<1> SUFFICES ASSUME Bad # {} PROVE FALSE
  OBVIOUS
<1>3. PICK T \in Bad : \A U \in Bad : Cardinality(T) <= Cardinality(U)
  <2> HIDE DEF Bad
  <2>1. \A T \in Bad : IsFiniteSet(T)
    BY <1>2 DEF Bad
  <2> QED BY <2>1, SmallestSet
<1>4. T # {} /\ Pick(T) \in T
  <2>1. h[{}] = 0 /\ h[T] \notin Int
    BY <1>1, <1>3
  <2> QED BY <2>1, PickIn
<1>5. T \ {Pick(T)} \notin Bad
  BY <1>2, <1>3, <1>4, OneLess
<1>6. h[T \ {Pick(T)}] \in Int /\ g[Pick(T)] \in Int
  BY <1>4, <1>5
<1> QED BY <1>1, <1>4, <1>6

\* Whatever element is taken out first.
LEMMA SumsTake ==
  ASSUME NEW S, IsFiniteSet(S), NEW g \in [S -> Int], NEW h, Sums(h, g, S)
  PROVE  \A T \in SUBSET S : \A x \in T : h[T] = g[x] + h[T \ {x}]
<1>1. \A T \in SUBSET S : h[T] = IF T = {} THEN 0 ELSE g[Pick(T)] + h[T \ {Pick(T)}]
  BY DEF Sums
<1>2. \A T \in SUBSET S : IsFiniteSet(T)
  BY FS_Subset
<1>3. \A T \in SUBSET S : h[T] \in Int
  BY SumsInt
<1> DEFINE Wrong == { T \in SUBSET S : \E x \in T : h[T] # g[x] + h[T \ {x}] }
<1> SUFFICES ASSUME Wrong # {} PROVE FALSE
  OBVIOUS
<1>4. PICK T \in Wrong : \A U \in Wrong : Cardinality(T) <= Cardinality(U)
  <2> HIDE DEF Wrong
  <2>1. \A T \in Wrong : IsFiniteSet(T)
    BY <1>2 DEF Wrong
  <2> QED BY <2>1, SmallestSet
<1>5. PICK x \in T : h[T] # g[x] + h[T \ {x}]
  OBVIOUS
<1> DEFINE p == Pick(T)
<1>6. p \in T /\ h[T] = g[p] + h[T \ {p}] /\ p # x
  BY <1>1, <1>5, PickIn
<1> HIDE DEF p
<1>7. T \ {p} \notin Wrong /\ T \ {x} \notin Wrong
  <2>1. \A y \in T : T \ {y} \notin Wrong
    <3> HIDE DEF Wrong
    <3> QED BY <1>2, <1>4, OneLess DEF Wrong
  <2> QED BY <1>6, <2>1
<1>8. h[T \ {p}] = g[x] + h[(T \ {p}) \ {x}] /\ h[T \ {x}] = g[p] + h[(T \ {x}) \ {p}]
  BY <1>6, <1>7
<1>9. (T \ {p}) \ {x} = (T \ {x}) \ {p}
  OBVIOUS
<1>10. h[(T \ {x}) \ {p}] \in Int /\ g[x] \in Int /\ g[p] \in Int
  BY <1>3, <1>6
<1>11. g[p] + (g[x] + h[(T \ {x}) \ {p}]) = g[x] + (g[p] + h[(T \ {x}) \ {p}])
  BY <1>10
<1> QED BY <1>5, <1>6, <1>8, <1>9, <1>11, Zenon

\* Renaming the elements does not change a sum.
LEMMA SumsRenamed ==
  ASSUME NEW S, IsFiniteSet(S), NEW g \in [S -> Int], NEW h, Sums(h, g, S),
         NEW R, NEW k \in [R -> Int], NEW l, Sums(l, k, R), IsFiniteSet(R),
         NEW b \in Bijection(S, R), \A x \in S : k[b[x]] = g[x]
  PROVE  h[S] = l[R]
<1> DEFINE Image(T) == { b[x] : x \in T }
           Bad == { T \in SUBSET S : h[T] # l[Image(T)] }
<1>0. /\ b \in [S -> R] /\ \A y \in R : \E x \in S : b[x] = y
      /\ \A x, y \in S : b[x] = b[y] => x = y
  BY DEF Bijection, Injection, Surjection, IsInjective
<1>1. \A T \in SUBSET S : IsFiniteSet(T)
  BY FS_Subset
<1>2. Image(S) = R
  BY <1>0
<1> SUFFICES ASSUME Bad # {} PROVE FALSE
  BY <1>2
<1>3. PICK T \in Bad : \A U \in Bad : Cardinality(T) <= Cardinality(U)
  <2> HIDE DEF Bad
  <2>1. \A T \in Bad : IsFiniteSet(T)
    BY <1>1 DEF Bad
  <2> QED BY <2>1, SmallestSet
<1>4. T # {}
  <2>1. h[{}] = 0 /\ l[{}] = 0
    BY DEF Sums
  <2> QED BY <2>1
<1>5. PICK x \in T : TRUE
  BY <1>4
<1>6. T \ {x} \notin Bad
  BY <1>1, <1>3, OneLess
<1>7. h[T] = g[x] + h[T \ {x}]
  BY SumsTake
<1>8. Image(T) \in SUBSET R /\ b[x] \in Image(T)
  BY <1>0
<1>9. l[Image(T)] = k[b[x]] + l[Image(T) \ {b[x]}]
  <2> HIDE DEF Image
  <2> QED BY <1>8, SumsTake
<1>10. Image(T) \ {b[x]} = Image(T \ {x})
  BY <1>0
<1> QED BY <1>6, <1>7, <1>9, <1>10

-----------------------------------------------------------------------------
(* Ranks *)

\* Numbers are ranked one after the other: every rank is taken, by one number.
LEMMA Ranked ==
  ASSUME NEW P \in SUBSET Nat, IsFiniteSet(P)
  PROVE  \A k \in 1..Cardinality(P) :
           \E i \in P : Cardinality({j \in P : j <= i}) = k
<1> DEFINE n == Cardinality(P)
           Upto(i) == {j \in P : j <= i}
           rank == [i \in P |-> Cardinality(Upto(i))]
<1>1. n \in Nat
  BY FS_CardinalityType
<1>2. \A i \in P : IsFiniteSet(Upto(i)) /\ Cardinality(Upto(i)) \in Nat /\ Cardinality(Upto(i)) <= n
  BY FS_Subset, FS_CardinalityType
<1>3. ASSUME NEW i \in P, NEW j \in P, i < j PROVE rank[i] < rank[j]
  <2>0. \A x \in P : x \in Nat
    OBVIOUS
  <2>1. Upto(i) \union {j} \in SUBSET Upto(j) /\ j \notin Upto(i)
    <3>1. \A x \in P : x <= i => x <= j
      BY <2>0, <1>3
    <3>2. ~(j <= i) /\ j <= j
      BY <2>0, <1>3
    <3> QED BY <3>1, <3>2
  <2> HIDE DEF Upto
  <2>2. Cardinality(Upto(i) \union {j}) = Cardinality(Upto(i)) + 1
    BY <1>2, <2>1, FS_AddElement
  <2>3. Cardinality(Upto(i) \union {j}) <= Cardinality(Upto(j))
    BY <1>2, <2>1, FS_Subset
  <2> QED BY <1>2, <2>2, <2>3
<1>4. \A i \in P : rank[i] \in 1..n
  <2> SUFFICES ASSUME NEW i \in P PROVE Cardinality(Upto(i)) # 0
    BY <1>1, <1>2
  <2>1. i \in Upto(i)
    OBVIOUS
  <2> HIDE DEF Upto
  <2> QED BY <1>2, <2>1, FS_EmptySet
<1>5. \A i, j \in P : rank[i] = rank[j] => i = j
  <2> SUFFICES ASSUME NEW i \in P, NEW j \in P, rank[i] = rank[j], i # j PROVE FALSE
    OBVIOUS
  <2>1. rank[i] < rank[j] \/ rank[j] < rank[i]
    <3>1. i < j \/ j < i
      OBVIOUS
    <3> HIDE DEF rank
    <3> QED BY <3>1, <1>3
  <2>2. rank[i] \in Nat /\ rank[j] \in Nat
    BY <1>4
  <2> HIDE DEF rank
  <2> QED BY <2>1, <2>2
<1> HIDE DEF Upto
<1>6. rank \in Injection(P, 1..n)
  BY <1>4, <1>5 DEF Injection, IsInjective
<1>7. IsFiniteSet(1..n) /\ Cardinality(1..n) = n
  BY <1>1, FS_Interval
<1>8. rank \in Surjection(P, 1..n)
  <2> HIDE DEF rank
  <2> QED BY <1>6, <1>7, FS_Injection
<1> SUFFICES ASSUME NEW k \in 1..n PROVE \E i \in P : Cardinality(Upto(i)) = k
  BY DEF Upto
<1>9. PICK i \in P : rank[i] = k
  <2> HIDE DEF rank
  <2> QED BY <1>8 DEF Surjection
<1> QED BY <1>9

\* A set of positions that holds all before its members is an interval.
LEMMA InitialSegment ==
  ASSUME NEW L \in Nat, NEW S \in SUBSET (1..L),
         \A i \in S : \A j \in 1..i : j \in S
  PROVE  Cardinality(S) \in 0..L /\ S = 1..Cardinality(S)
<1> DEFINE Out == {i \in 1..(L + 1) : i \notin S}
<1>1. Out \in SUBSET Nat /\ L + 1 \in Out
  OBVIOUS
<1>2. PICK m \in Out : \A i \in Out : m <= i
  <2> HIDE DEF Out
  <2> QED BY <1>1, Least
<1>3. S = 1..(m - 1)
  <2>1. \A i \in S : i < m
    <3> SUFFICES ASSUME NEW i \in S, ~(i < m) PROVE FALSE
      OBVIOUS
    <3>1. m \in 1..i
      BY <1>2
    <3> QED BY <3>1, <1>2
  <2>2. \A i \in 1..(m - 1) : i \in S
    <3> SUFFICES ASSUME NEW i \in 1..(m - 1), i \notin S PROVE FALSE
      OBVIOUS
    <3>1. i \in Out
      BY <1>2
    <3> QED BY <3>1, <1>2
  <2>3. m \in Nat /\ \A i \in S : i \in Nat /\ i >= 1
    BY <1>2
  <2>4. \A i \in S : i \in 1..(m - 1)
    BY <2>1, <2>3
  <2> QED BY <2>2, <2>4
<1>4. m - 1 \in 0..L
  BY <1>2
<1>5. Cardinality(1..(m - 1)) = m - 1
  <2>1. 1 \in Int /\ m - 1 \in Int /\ m - 1 >= 0
    BY <1>4
  <2> QED BY <2>1, <1>4, FS_Interval
<1> QED BY <1>3, <1>4, <1>5

-----------------------------------------------------------------------------
(* Concatenation *)

\* f concatenates the sequences of g, from the first one.
Concats(f, g, n) ==
  f = [k \in 0..n |-> IF k = 0 THEN << >> ELSE f[k - 1] \o g[k]]

LEMMA ConcatsExist ==
  ASSUME NEW S, NEW g, NEW n \in Nat, \A k \in 1..n : g[k] \in Seq(S)
  PROVE  \E f : Concats(f, g, n)
<1> DEFINE Solved(k) == \E f : Concats(f, g, k)
           Unsolved == {k \in 0..n : ~Solved(k)}
<1> SUFFICES ASSUME Unsolved # {} PROVE FALSE
  OBVIOUS
<1>1. PICK k \in Unsolved : \A m \in Unsolved : k <= m
  <2>1. Unsolved \in SUBSET Nat
    OBVIOUS
  <2> HIDE DEF Unsolved
  <2> QED BY <2>1, Least
<1>2. k # 0
  <2>1. Concats([j \in 0..0 |-> << >>], g, 0)
    BY DEF Concats
  <2> QED BY <2>1, <1>1
<1>3. PICK f : Concats(f, g, k - 1)
  BY <1>1, <1>2
<1> DEFINE h == [j \in 0..k |-> IF j = 0 THEN << >> ELSE f[j - 1] \o g[j]]
<1>4. \A j \in 0..(k - 1) : f[j] = IF j = 0 THEN << >> ELSE f[j - 1] \o g[j]
  BY <1>3 DEF Concats
<1>5. \A j \in 0..(k - 1) : h[j] = f[j]
  BY <1>1, <1>4
<1>6. h = [j \in 0..k |-> IF j = 0 THEN << >> ELSE h[j - 1] \o g[j]]
  <2>1. \A j \in 0..k : j # 0 => h[j - 1] = f[j - 1]
    <3> SUFFICES ASSUME NEW j \in 0..k, j # 0 PROVE h[j - 1] = f[j - 1]
      OBVIOUS
    <3>1. j - 1 \in 0..(k - 1)
      BY <1>1
    <3> HIDE DEF h
    <3> QED BY <3>1, <1>5
  <2> QED BY <2>1
<1>7. Concats(h, g, k)
  <2> HIDE DEF h
  <2> QED BY <1>6 DEF Concats
<1> QED BY <1>1, <1>7

LEMMA ConcatsType ==
  ASSUME NEW S, NEW g, NEW n \in Nat, \A k \in 1..n : g[k] \in Seq(S),
         NEW f, Concats(f, g, n)
  PROVE  \A k \in 0..n : f[k] \in Seq(S)
<1> DEFINE Bad == {k \in 0..n : f[k] \notin Seq(S)}
<1> SUFFICES ASSUME Bad # {} PROVE FALSE
  OBVIOUS
<1>1. PICK k \in Bad : \A m \in Bad : k <= m
  <2>1. Bad \in SUBSET Nat
    OBVIOUS
  <2> HIDE DEF Bad
  <2> QED BY <2>1, Least
<1>2. f[k] = IF k = 0 THEN << >> ELSE f[k - 1] \o g[k]
  BY <1>1 DEF Concats
<1>3. CASE k = 0
  <2>1. << >> \in Seq(S)
    OBVIOUS
  <2>2. f[k] = << >>
    BY <1>2, <1>3
  <2> QED BY <1>1, <2>1, <2>2
<1>4. CASE k # 0
  <2>1. k - 1 \in 0..n /\ k \in 1..n /\ ~(k <= k - 1)
    BY <1>1, <1>4
  <2>2. f[k - 1] \in Seq(S) /\ g[k] \in Seq(S)
    BY <1>1, <2>1
  <2>3. f[k - 1] \o g[k] \in Seq(S)
    BY <2>2
  <2> QED BY <1>1, <1>2, <1>4, <2>3
<1> QED BY <1>3, <1>4

\* A sum over more does not get smaller, nor one of greater numbers: what S
\* has of each summand of R.
LEMMA SumsInto ==
  ASSUME NEW S, IsFiniteSet(S), NEW g \in [S -> Nat], NEW h, Sums(h, g, S),
         NEW R, NEW k \in [R -> Nat], NEW l, Sums(l, k, R), IsFiniteSet(R),
         NEW b \in [R -> S], \A x, y \in R : b[x] = b[y] => x = y,
         \A x \in R : k[x] <= g[b[x]]
  PROVE  l[R] <= h[S]
<1> DEFINE Image(T) == { b[x] : x \in T }
           Bad == { T \in SUBSET R : ~(l[T] <= h[Image(T)]) }
           Less == { T \in SUBSET S : ~(h[S \ T] <= h[S]) }
<1>0. g \in [S -> Int] /\ k \in [R -> Int]
  OBVIOUS
<1>1. /\ \A T \in SUBSET R : IsFiniteSet(T) /\ l[T] \in Int
      /\ \A T \in SUBSET S : IsFiniteSet(T) /\ h[T] \in Int
  BY <1>0, FS_Subset, SumsInt
<1>2. Bad = {}
  <2> SUFFICES ASSUME Bad # {} PROVE FALSE
    OBVIOUS
  <2>1. PICK T \in Bad : \A U \in Bad : Cardinality(T) <= Cardinality(U)
    <3>1. \A T \in Bad : IsFiniteSet(T)
      BY <1>1
    <3> HIDE DEF Bad
    <3> QED BY <3>1, SmallestSet
  <2>2. T # {}
    <3>1. h[{}] = 0 /\ l[{}] = 0
      BY DEF Sums
    <3>2. Image({}) = {}
      OBVIOUS
    <3>3. ~(l[T] <= h[Image(T)])
      BY <2>1
    <3> HIDE DEF Image, Bad
    <3> QED BY <3>1, <3>2, <3>3
  <2>3. PICK x \in T : TRUE
    BY <2>2
  <2>4. T \ {x} \notin Bad
    BY <1>1, <2>1, OneLess
  <2>5. l[T] = k[x] + l[T \ {x}]
    BY <1>0, SumsTake
  <2>6. Image(T) \in SUBSET S /\ b[x] \in Image(T) /\ Image(T \ {x}) \in SUBSET S
    OBVIOUS
  <2>7. h[Image(T)] = g[b[x]] + h[Image(T) \ {b[x]}]
    <3> HIDE DEF Image
    <3> QED BY <1>0, <2>6, SumsTake
  <2>8. Image(T) \ {b[x]} = Image(T \ {x})
    OBVIOUS
  <2>9. l[T \ {x}] <= h[Image(T \ {x})]
    BY <2>4
  <2>10. /\ l[T \ {x}] \in Int /\ h[Image(T \ {x})] \in Int
         /\ k[x] \in Nat /\ g[b[x]] \in Nat /\ k[x] <= g[b[x]]
    <3> HIDE DEF Image
    <3> QED BY <1>1, <2>6
  <2>11. ~(l[T] <= h[Image(T)])
    BY <2>1
  <2> HIDE DEF Image, Bad
  <2> QED BY <2>5, <2>7, <2>8, <2>9, <2>10, <2>11
<1>3. Less = {}
  <2> SUFFICES ASSUME Less # {} PROVE FALSE
    OBVIOUS
  <2>1. PICK T \in Less : \A U \in Less : Cardinality(T) <= Cardinality(U)
    <3>1. \A T \in Less : IsFiniteSet(T)
      BY <1>1
    <3> HIDE DEF Less
    <3> QED BY <3>1, SmallestSet
  <2>2. T # {}
    <3>1. S \ {} = S /\ h[S] \in Int
      BY <1>1
    <3>2. ~(h[S \ T] <= h[S])
      BY <2>1
    <3> HIDE DEF Less
    <3> QED BY <3>1, <3>2
  <2>3. PICK x \in T : TRUE
    BY <2>2
  <2>4. T \ {x} \notin Less
    BY <1>1, <2>1, OneLess
  <2> DEFINE U == S \ (T \ {x})
  <2>5. U \in SUBSET S /\ x \in U /\ U \ {x} = S \ T
    OBVIOUS
  <2>6. h[U] = g[x] + h[U \ {x}]
    <3> HIDE DEF U
    <3> QED BY <1>0, <2>5, SumsTake
  <2>7. h[U] <= h[S] /\ ~(h[S \ T] <= h[S])
    BY <2>1, <2>4
  <2>8. h[U] \in Int /\ h[S \ T] \in Int /\ h[S] \in Int /\ g[x] \in Nat
    BY <1>1, <2>5
  <2> HIDE DEF U, Less
  <2> QED BY <2>5, <2>6, <2>7, <2>8
<1>4. l[R] <= h[Image(R)]
  BY <1>2
<1>5. h[Image(R)] <= h[S]
  <2> DEFINE T == S \ Image(R)
  <2>1. T \in SUBSET S /\ S \ T = Image(R)
    OBVIOUS
  <2> HIDE DEF Image, T
  <2> QED BY <1>3, <2>1
<1>6. l[R] \in Int /\ h[Image(R)] \in Int /\ h[S] \in Int
  BY <1>1
<1> HIDE DEF Image
<1> QED BY <1>4, <1>5, <1>6

\* One of the numbers and the rest.
LEMMA SumsLast ==
  ASSUME NEW S, IsFiniteSet(S), NEW g \in [S -> Int], NEW h, Sums(h, g, S),
         NEW x \in S, NEW R, R = S \ {x}
  PROVE  h[S] = g[x] + h[R]
<1>1. \E T \in SUBSET S : T = S
  OBVIOUS
<1>2. PICK T \in SUBSET S : T = S
  BY <1>1
<1>3. h[T] = g[x] + h[T \ {x}]
  BY <1>2, SumsTake
<1> QED BY <1>2, <1>3

\* Sums of the same numbers agree, whatever else is summed beside them.
LEMMA SumsAgree ==
  ASSUME NEW S, IsFiniteSet(S), NEW g, NEW h, Sums(h, g, S),
         NEW R \in SUBSET S, NEW k, NEW l, Sums(l, k, R),
         \A x \in R : k[x] = g[x]
  PROVE  l[R] = h[R]
<1> DEFINE Bad == { T \in SUBSET R : l[T] # h[T] }
<1>1. /\ \A T \in SUBSET R : l[T] = IF T = {} THEN 0 ELSE k[Pick(T)] + l[T \ {Pick(T)}]
      /\ \A T \in SUBSET R : h[T] = IF T = {} THEN 0 ELSE g[Pick(T)] + h[T \ {Pick(T)}]
  BY DEF Sums
<1>2. \A T \in SUBSET R : IsFiniteSet(T)
  BY FS_Subset
<1> SUFFICES ASSUME Bad # {} PROVE FALSE
  OBVIOUS
<1>3. PICK T \in Bad : \A U \in Bad : Cardinality(T) <= Cardinality(U)
  <2>1. \A T \in Bad : IsFiniteSet(T)
    BY <1>2
  <2> HIDE DEF Bad
  <2> QED BY <2>1, SmallestSet
<1>4. T # {} /\ Pick(T) \in T
  <2>1. T \in SUBSET R /\ l[T] # h[T]
    BY <1>3
  <2>2. T # {}
    BY <1>1, <2>1
  <2> QED BY <2>2, PickIn
<1>5. T \ {Pick(T)} \notin Bad
  BY <1>2, <1>3, <1>4, OneLess
<1>6. l[T \ {Pick(T)}] = h[T \ {Pick(T)}] /\ k[Pick(T)] = g[Pick(T)]
  BY <1>4, <1>5
<1> QED BY <1>1, <1>3, <1>4, <1>6

\* One more number at the end.
LEMMA SumsNext ==
  ASSUME NEW k \in Nat \ {0}, NEW S, S = 1..k, NEW R, R = 1..(k - 1),
         NEW g, g \in [S -> Int], NEW h, Sums(h, g, S),
         NEW b, NEW l, Sums(l, b, R), \A x \in R : b[x] = g[x]
  PROVE  h[S] = g[k] + l[R]
<1>1. IsFiniteSet(S) /\ k \in S /\ R = S \ {k} /\ R \in SUBSET S
  <2>1. IsFiniteSet(S)
    BY FS_Interval
  <2> QED BY <2>1
<1>2. h[S] = g[k] + h[R]
  BY <1>1, SumsLast
<1>3. l[R] = h[R]
  BY <1>1, SumsAgree
<1> QED BY <1>2, <1>3

\* t is the sum of g over S.
Totals(g, S, t) == \E h : Sums(h, g, S) /\ t = h[S]

\* The first k numbers of g, and the same but for the last in b.
Follows(g, k, b) ==
  /\ k \in Nat \ {0} /\ g \in [1..k -> Int]
  /\ \A x \in 1..(k - 1) : b[x] = g[x]

LEMMA TotalsNext ==
  ASSUME NEW k, NEW g, NEW t, NEW b, NEW r, Follows(g, k, b),
         Totals(g, 1..k, t), Totals(b, 1..(k - 1), r)
  PROVE  t = g[k] + r
<1> DEFINE S == 1..k
           R == 1..(k - 1)
<1>1. k \in Nat \ {0} /\ g \in [S -> Int] /\ \A x \in R : b[x] = g[x]
  BY DEF Follows
<1>2. PICK h : Sums(h, g, S) /\ t = h[S]
  BY DEF Totals
<1>3. PICK l : Sums(l, b, R) /\ r = l[R]
  BY DEF Totals
<1> HIDE DEF S, R
<1>4. S = 1..k /\ R = 1..(k - 1)
  BY DEF S, R
<1>5. h[S] = g[k] + l[R]
  BY <1>1, <1>2, <1>3, <1>4, SumsNext
<1> QED BY <1>2, <1>3, <1>5
=============================================================================
