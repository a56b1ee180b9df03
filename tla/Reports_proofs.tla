--------------------------- MODULE Reports_proofs ---------------------------
(***************************************************************************)
(* Theorems about reports, for every number of rows, days, tags, owners,   *)
(* currencies and visitors.  An answer of which all rows were read at once *)
(* adds up: each figure is the size of a set of rows, and each breakdown   *)
(* splits that set.  A sum of money is the size of a set too, of a mark    *)
(* for every unit that a row is worth.                                     *)
(***************************************************************************)
EXTENDS Reports, TLAPS, FiniteSetTheorems, WellFoundedInduction

-----------------------------------------------------------------------------
(* The least of a set of numbers, and the most of a finite one.            *)

LEMMA LeastNumber ==
  ASSUME NEW S \in SUBSET Nat, S # {}
  PROVE  \E x \in S : \A y \in S : x <= y
<1> DEFINE R == OpToRel(<, Nat)
<1>1. IsWellFoundedOn(R, Nat)
  BY NatLessThanWellFounded
<1>2. \A p, q \in Nat : p < q => <<p, q>> \in R
  BY DEF OpToRel
<1> HIDE DEF R
<1>3. PICK x \in S : \A y \in S : ~ (<<y, x>> \in R)
  BY <1>1, WFMin
<1>4. ASSUME NEW y \in S PROVE x <= y
  <2>1. x \in Nat /\ y \in Nat /\ ~(y < x)
    BY <1>2, <1>3
  <2>2. QED
    BY <2>1
<1>5. QED
  BY <1>4

\* By the size of a smallest set without a largest element.
LEMMA MostNumber ==
  ASSUME NEW S \in SUBSET Nat, IsFiniteSet(S), S # {}
  PROVE  \E x \in S : \A y \in S : y <= x
<1> DEFINE HasMost(T) == \E x \in T : \A y \in T : y <= x
           Odd == {T \in SUBSET S : T # {} /\ ~HasMost(T)}
           Sizes == {Cardinality(T) : T \in Odd}
<1> SUFFICES ASSUME ~HasMost(S) PROVE FALSE
  OBVIOUS
<1>1. \A T \in SUBSET S : IsFiniteSet(T) /\ Cardinality(T) \in Nat
  BY FS_Subset, FS_CardinalityType
<1>2. Sizes \in SUBSET Nat /\ Sizes # {}
  <2>1. S \in Odd
    OBVIOUS
  <2>2. QED
    BY <1>1, <2>1
<1>3. PICK n \in Sizes : \A m \in Sizes : n <= m
  BY <1>2, LeastNumber
<1>4. PICK T \in Odd : n = Cardinality(T)
  BY <1>3
<1>5. PICK e \in T : TRUE
  BY <1>4
<1>6. /\ T \in SUBSET Nat /\ T \in SUBSET S /\ e \in Nat
      /\ IsFiniteSet(T) /\ ~HasMost(T)
  BY <1>1, <1>4, <1>5
<1>7. /\ Cardinality(T \ {e}) = Cardinality(T) - 1 /\ Cardinality(T) \in Nat
      /\ T \ {e} \in SUBSET S
  BY <1>1, <1>5, <1>6, FS_RemoveElement
<1>8. T \ {e} # {} /\ HasMost(T \ {e})
  <2>1. T \ {e} # {}
    <3> SUFFICES ASSUME T \ {e} = {} PROVE FALSE
      OBVIOUS
    <3>1. \A y \in T : y <= e
      BY <1>6
    <3>2. QED
      BY <1>5, <1>6, <3>1
  <2>2. T \ {e} \notin Odd
    <3> SUFFICES ASSUME T \ {e} \in Odd PROVE FALSE
      OBVIOUS
    <3>1. Cardinality(T \ {e}) \in Sizes
      OBVIOUS
    <3> HIDE DEF Sizes, Odd
    <3>2. QED
      BY <1>3, <1>4, <1>7, <3>1
  <2>3. QED
    BY <1>7, <2>1, <2>2
<1>9. PICK x \in T \ {e} : \A y \in T \ {e} : y <= x
  BY <1>8
<1>10. HasMost(T)
  <2>1. x \in Nat /\ x \in T
    BY <1>6, <1>9
  <2>2. CASE e <= x
    <3>1. \A y \in T : y <= x
      BY <1>9, <2>2
    <3>2. QED
      BY <2>1, <3>1
  <2>3. CASE x < e
    <3>1. \A y \in T : y <= e
      BY <1>6, <1>9, <2>1, <2>3
    <3>2. QED
      BY <1>5, <3>1
  <2>4. QED
    BY <1>6, <2>1, <2>2, <2>3
<1>11. QED
  BY <1>6, <1>10

-----------------------------------------------------------------------------
(* Sums.  What the folds add up, where each number is the size of a set    *)
(* and the sets are apart.                                                 *)

OneOf(s) == CHOOSE x \in s : TRUE

\* The elements of T under a key of s.
Under(T, h, s) == {x \in T : h[x] \in s}

Keyed(T, K, h) == IsFiniteSet(T) /\ IsFiniteSet(K) /\ h \in [T -> K]

Grown(T, h, s, x) ==
  Cardinality(Under(T, h, s)) =
    Cardinality(Under(T, h, {x})) + Cardinality(Under(T, h, s \ {x}))

LEMMA UnderGrows ==
  ASSUME NEW T, NEW K, NEW h, Keyed(T, K, h), NEW s \in SUBSET K, NEW x \in s
  PROVE  Grown(T, h, s, x)
<1> DEFINE B == Under(T, h, {x})
           C == Under(T, h, s \ {x})
<1>1. /\ B \cap C = {} /\ Under(T, h, s) = B \cup C
      /\ B \in SUBSET T /\ C \in SUBSET T
  BY DEF Under, Keyed
<1>2. IsFiniteSet(B) /\ IsFiniteSet(C)
  BY <1>1, FS_Subset DEF Keyed
<1> HIDE DEF B, C
<1>3. Cardinality(B \cup C) = Cardinality(B) + Cardinality(C) - Cardinality(B \cap C)
  BY <1>2, FS_Union
<1>4. Cardinality(B \cap C) = 0
  BY <1>1, FS_EmptySet
<1>5. Cardinality(B) \in Nat /\ Cardinality(C) \in Nat
  BY <1>2, FS_CardinalityType
<1>6. Cardinality(B \cup C) = Cardinality(B) + Cardinality(C)
  BY <1>3, <1>4, <1>5
<1>7. Cardinality(Under(T, h, s)) = Cardinality(B) + Cardinality(C)
  BY <1>1, <1>6
<1>8. QED
  BY <1>7 DEF B, C, Grown

Folds(g, V, K) ==
  \A s \in SUBSET K : g[s] = IF s = {} THEN 0 ELSE V[OneOf(s)] + g[s \ {OneOf(s)}]
Sizes(V, T, h, K) == \A k \in K : V[k] = Cardinality(Under(T, h, {k}))

\* A fold that takes away one key after the other counts what is under them.
LEMMA FoldCounts ==
  ASSUME NEW T, NEW K, NEW h, Keyed(T, K, h), NEW V, NEW g,
         Sizes(V, T, h, K), Folds(g, V, K)
  PROVE  g[K] = Cardinality(T)
<1> DEFINE Odd == {s \in SUBSET K : g[s] # Cardinality(Under(T, h, s))}
           Counts == {Cardinality(s) : s \in Odd}
<1>1. \A s \in SUBSET K : IsFiniteSet(s) /\ Cardinality(s) \in Nat
  BY FS_Subset, FS_CardinalityType DEF Keyed
<1>2. Odd = {}
  <2> SUFFICES ASSUME Odd # {} PROVE FALSE
    OBVIOUS
  <2>1. Counts \in SUBSET Nat /\ Counts # {}
    BY <1>1
  <2>2. PICK n \in Counts : \A m \in Counts : n <= m
    BY <2>1, LeastNumber
  <2>3. PICK s \in Odd : n = Cardinality(s)
    BY <2>2
  <2>4. s # {}
    <3> SUFFICES ASSUME s = {} PROVE FALSE
      OBVIOUS
    <3>1. Under(T, h, s) = {}
      BY DEF Under
    <3>2. g[s] = 0 /\ Cardinality(Under(T, h, s)) = 0
      BY <2>3, <3>1, FS_EmptySet DEF Folds
    <3>3. QED
      BY <2>3, <3>2
  <2> DEFINE x == OneOf(s)
  <2>5. x \in s
    BY <2>4 DEF OneOf
  <2>6. g[s] = V[x] + g[s \ {x}]
    BY <2>3, <2>4 DEF Folds
  <2> HIDE DEF x
  <2>7. /\ s \ {x} \in SUBSET K /\ Cardinality(s \ {x}) = Cardinality(s) - 1
        /\ Cardinality(s) \in Nat
    BY <1>1, <2>3, <2>5, FS_RemoveElement
  <2>8. s \ {x} \notin Odd
    <3> SUFFICES ASSUME s \ {x} \in Odd PROVE FALSE
      OBVIOUS
    <3>1. Cardinality(s \ {x}) \in Counts
      OBVIOUS
    <3> HIDE DEF Counts, Odd
    <3>2. QED
      BY <2>2, <2>3, <2>7, <3>1
  <2>9. g[s \ {x}] = Cardinality(Under(T, h, s \ {x}))
    BY <2>7, <2>8
  <2>10. V[x] = Cardinality(Under(T, h, {x}))
    BY <2>3, <2>5 DEF Sizes
  <2>11. g[s] = Cardinality(Under(T, h, s))
    BY <2>3, <2>5, <2>6, <2>9, <2>10, UnderGrows DEF Grown
  <2>12. QED
    BY <2>3, <2>11
<1>3. g[K] = Cardinality(Under(T, h, K))
  BY <1>2
<1>4. Under(T, h, K) = T
  BY DEF Under, Keyed
<1>5. QED
  BY <1>3, <1>4

\* Each part counts the rows under its key.
Splits(A, f, T, K, h) ==
  /\ DOMAIN A = K
  /\ \A k \in K : f \in DOMAIN A[k] /\ A[k][f] = Cardinality(Under(T, h, {k}))

LEMMA SumOver ==
  ASSUME NEW T, NEW K, NEW h, Keyed(T, K, h), NEW A, NEW f,
         Splits(A, f, T, K, h)
  PROVE  SumOf(A, f, K) = Cardinality(T)
<1> DEFINE Adds(g) == g = [s \in SUBSET K |->
                             IF s = {} THEN 0
                             ELSE LET x == CHOOSE x \in s : TRUE IN A[x][f] + g[s \ {x}]]
           count == [s \in SUBSET K |-> Cardinality(Under(T, h, s))]
           iter == CHOOSE g : Adds(g)
<1>1. SumOf(A, f, K) = iter[K]
  BY DEF SumOf, MapThenSumSet, MapThenFoldSet
<1>2. Adds(count)
  <2>1. ASSUME NEW s \in SUBSET K
        PROVE  count[s] = IF s = {} THEN 0
                          ELSE LET x == CHOOSE x \in s : TRUE IN A[x][f] + count[s \ {x}]
    <3>1. CASE s = {}
      <4>1. Under(T, h, s) = {}
        BY <3>1 DEF Under
      <4>2. QED
        BY <3>1, <4>1, FS_EmptySet
    <3>2. CASE s # {}
      <4> DEFINE x == CHOOSE x \in s : TRUE
      <4>1. x \in s
        BY <3>2
      <4> HIDE DEF x
      <4>2. /\ A[x][f] = Cardinality(Under(T, h, {x}))
            /\ count[s \ {x}] = Cardinality(Under(T, h, s \ {x}))
        BY <4>1 DEF Splits
      <4>3. count[s] = A[x][f] + count[s \ {x}]
        BY <4>1, <4>2, UnderGrows DEF Grown
      <4> USE DEF x
      <4>4. QED
        BY <3>2, <4>3
    <3>3. QED
      BY <3>1, <3>2
  <2>2. QED
    BY <2>1
<1>3. Adds(iter)
  BY <1>2
<1> DEFINE V == [k \in K |-> A[k][f]]
<1>4. Folds(iter, V, K)
  <2>1. ASSUME NEW s \in SUBSET K
        PROVE  iter[s] = IF s = {} THEN 0 ELSE V[OneOf(s)] + iter[s \ {OneOf(s)}]
    <3> DEFINE x == CHOOSE x \in s : TRUE
    <3>1. iter[s] = IF s = {} THEN 0 ELSE A[x][f] + iter[s \ {x}]
      BY <1>3
    <3>2. s # {} => x \in K /\ x = OneOf(s)
      BY DEF OneOf
    <3> HIDE DEF x, iter
    <3>3. QED
      BY <3>1, <3>2
  <2>2. QED
    BY <2>1 DEF Folds
<1>5. iter[K] = Cardinality(T)
  <2>1. Sizes(V, T, h, K)
    BY DEF Sizes, Splits
  <2> HIDE DEF V, iter, count, Adds
  <2>2. QED
    BY <1>4, <2>1, FoldCounts
<1>6. QED
  BY <1>1, <1>5

(* The sums of a breakdown A, as BreakdownsAddUp takes them.               *)
PartsOf(A, f) == {k \in DOMAIN A : f \in DOMAIN A[k]}
Sums(A, f, n) == PartsOf(A, f) # {} => SumOf(A, f, PartsOf(A, f)) = n

LEMMA SplitAddsUp ==
  ASSUME NEW T, NEW K, NEW h, Keyed(T, K, h), NEW A, NEW f,
         Splits(A, f, T, K, h)
  PROVE  Sums(A, f, Cardinality(T))
<1>1. PartsOf(A, f) = K
  BY DEF Splits, PartsOf
<1>2. SumOf(A, f, K) = Cardinality(T)
  BY SumOver
<1>3. QED
  BY <1>1, <1>2 DEF Sums

(* A row is worth its number: so many marks.                               *)
Marks(R) == {p \in R \X Nat : p[2] \in 1 .. p[1]}

LEMMA MarksOfOne ==
  ASSUME NEW n \in Nat
  PROVE  IsFiniteSet(Marks({n})) /\ Cardinality(Marks({n})) = n
<1> DEFINE f == [i \in 1 .. n |-> <<n, i>>]
<1>1. f \in Bijection(1 .. n, Marks({n}))
  <2>1. f \in [1 .. n -> Marks({n})]
    BY DEF Marks
  <2>2. \A i, j \in 1 .. n : f[i] = f[j] => i = j
    OBVIOUS
  <2>3. ASSUME NEW p \in Marks({n}) PROVE \E i \in 1 .. n : f[i] = p
    <3>1. p[1] = n /\ p[2] \in 1 .. n /\ p = <<p[1], p[2]>>
      BY DEF Marks
    <3>2. f[p[2]] = p
      BY <3>1
    <3>3. QED
      BY <3>1, <3>2
  <2> DEFINE M == Marks({n})
  <2> HIDE DEF f, M
  <2>4. f \in Injection(1 .. n, M)
    BY <2>1, <2>2 DEF Injection, IsInjective, M
  <2>5. f \in Surjection(1 .. n, M)
    BY <2>1, <2>3 DEF Surjection, M
  <2>6. QED
    BY <2>4, <2>5 DEF Bijection, M
<1>2. IsFiniteSet(1 .. n) /\ Cardinality(1 .. n) = n
  BY FS_Interval
<1>3. ExistsBijection(1 .. n, Marks({n}))
  BY <1>1 DEF ExistsBijection
<1>4. QED
  BY <1>2, <1>3, FS_Bijection

LEMMA MarksFinite ==
  ASSUME NEW R \in SUBSET Nat, IsFiniteSet(R)
  PROVE  IsFiniteSet(Marks(R))
<1>1. CASE R = {}
  <2>1. Marks(R) = {}
    BY <1>1 DEF Marks
  <2>2. QED
    BY <2>1, FS_EmptySet
<1>2. CASE R # {}
  <2>1. PICK m \in R : \A n \in R : n <= m
    BY <1>2, MostNumber
  <2>2. IsFiniteSet(1 .. m)
    BY FS_Interval
  <2>3. IsFiniteSet(R \X (1 .. m))
    BY <2>2, FS_Product
  <2>4. Marks(R) \subseteq R \X (1 .. m)
    <3>1. ASSUME NEW p \in Marks(R) PROVE p \in R \X (1 .. m)
      <4>1. p \in R \X Nat /\ p[2] \in 1 .. p[1]
        BY DEF Marks
      <4>2. p[1] \in R /\ p[2] \in Nat /\ p = <<p[1], p[2]>> /\ m \in Nat
        BY <4>1
      <4>3. p[1] <= m /\ p[1] \in Nat
        BY <2>1, <4>2
      <4>4. p[2] <= p[1] /\ 1 <= p[2]
        BY <4>1, <4>2, <4>3
      <4>5. p[2] \in 1 .. m
        BY <4>2, <4>3, <4>4
      <4>6. QED
        BY <4>2, <4>5
    <3>2. QED
      BY <3>1
  <2>5. QED
    BY <2>3, <2>4, FS_Subset
<1>3. QED
  BY <1>1, <1>2

\* Each number counts the elements of T under it.
Worth(R, T, h) == \A n \in R : n = Cardinality(Under(T, h, {n}))

LEMMA SumOfNumbers ==
  ASSUME NEW R, NEW T, NEW h, Keyed(T, R, h),
         Worth(R, T, h)
  PROVE  SumSet(R) = Cardinality(T)
<1>g. \A s \in SUBSET R : \A x \in s : Grown(T, h, s, x)
  BY UnderGrows
<1> DEFINE V == [n \in R |-> n]
           Adds(g) == g = [s \in SUBSET R |->
                             IF s = {} THEN 0
                             ELSE LET x == CHOOSE x \in s : TRUE IN x + g[s \ {x}]]
           count == [s \in SUBSET R |-> Cardinality(Under(T, h, s))]
           iter == CHOOSE g : Adds(g)
<1>3. SumSet(R) = iter[R]
  BY DEF SumSet, FoldSet, MapThenFoldSet
<1>4. Adds(count)
  <2>1. ASSUME NEW s \in SUBSET R
        PROVE  count[s] = IF s = {} THEN 0
                          ELSE LET x == CHOOSE x \in s : TRUE IN x + count[s \ {x}]
    <3>1. CASE s = {}
      <4>1. Under(T, h, s) = {}
        BY <3>1 DEF Under
      <4>2. QED
        BY <3>1, <4>1, FS_EmptySet
    <3>2. CASE s # {}
      <4> DEFINE x == CHOOSE x \in s : TRUE
      <4>1. x \in s
        BY <3>2
      <4> HIDE DEF x
      <4>2. /\ x = Cardinality(Under(T, h, {x}))
            /\ count[s \ {x}] = Cardinality(Under(T, h, s \ {x}))
        BY <4>1 DEF Worth
      <4>3. count[s] = Cardinality(Under(T, h, s))
        OBVIOUS
      <4> HIDE DEF count
      <4>4. Cardinality(Under(T, h, s))
                 = Cardinality(Under(T, h, {x})) + Cardinality(Under(T, h, s \ {x}))
        BY <1>g, <4>1 DEF Grown
      <4>5. count[s] = x + count[s \ {x}]
        BY <4>2, <4>3, <4>4
      <4> USE DEF x, count
      <4>6. QED
        BY <3>2, <4>5
    <3>3. QED
      BY <3>1, <3>2
  <2>2. QED
    BY <2>1
<1>5. Adds(iter)
  BY <1>4
<1>6. Folds(iter, V, R)
  <2>1. ASSUME NEW s \in SUBSET R
        PROVE  iter[s] = IF s = {} THEN 0 ELSE V[OneOf(s)] + iter[s \ {OneOf(s)}]
    <3> DEFINE x == CHOOSE x \in s : TRUE
    <3>1. iter[s] = IF s = {} THEN 0 ELSE x + iter[s \ {x}]
      BY <1>5
    <3>2. s # {} => x \in R /\ x = OneOf(s)
      BY DEF OneOf
    <3> HIDE DEF x, iter
    <3>3. QED
      BY <3>1, <3>2
  <2>2. QED
    BY <2>1 DEF Folds
<1>7. iter[R] = Cardinality(T)
  <2>1. Sizes(V, T, h, R)
    BY DEF Sizes, Worth
  <2> HIDE DEF V, iter, count, Adds
  <2>2. QED
    BY <1>6, <2>1, FoldCounts
<1>8. QED
  BY <1>3, <1>7

LEMMA WorthIsMarks ==
  ASSUME NEW R \in SUBSET Nat, IsFiniteSet(R)
  PROVE  IsFiniteSet(Marks(R)) /\ SumSet(R) = Cardinality(Marks(R))
<1> DEFINE T == Marks(R)
           h == [p \in T |-> p[1]]
<1>1. Keyed(T, R, h)
  BY MarksFinite DEF Marks, Keyed
<1>2. Worth(R, T, h)
  <2>1. ASSUME NEW n \in R PROVE Under(T, h, {n}) = Marks({n})
    BY DEF Under, Marks
  <2>2. QED
    BY <2>1, MarksOfOne DEF Worth
<1> HIDE DEF T, h
<1>3. SumSet(R) = Cardinality(T)
  BY <1>1, <1>2, SumOfNumbers
<1>4. QED
  BY <1>1, <1>3 DEF T, Keyed

-----------------------------------------------------------------------------
(* The queries of each report.                                             *)

RowRecord ==
  CASE category = "contacts" -> ContactRecord
    [] category = "deals" -> DealRecord
    [] category = "emails" -> DeliveryRecord
    [] category = "automations" -> EnrollmentRecord
    [] category = "site" -> PageView \cup Submission

\* A row that says when something was done is still what it was made then.
Dated(row) ==
  /\ category = "contacts" => (row.status = "active" => row.archived = Never)
  /\ category = "deals" => /\ row.status # "won" => row.won = Never
                           /\ row.status # "lost" => row.lost = Never

RowsTyped == \A r \in RowIds : RowUsed(r) => table[r] \in RowRecord /\ Dated(table[r])

Tally(total, A, b) ==
  \A f \in DOMAIN total :
    IF b \in Partial THEN \A k \in PartsOf(A, f) : A[k][f] <= total[f]
    ELSE f \in Additive => Sums(A, f, total[f])

LEMMA RowSets ==
  ASSUME NEW R \in SUBSET RowIds
  PROVE  /\ IsFiniteSet(R) /\ Cardinality(R) \in Nat /\ Cardinality(R) <= Cardinality(RowIds)
         /\ \A Q \in SUBSET R : IsFiniteSet(Q) /\ Cardinality(Q) \in Nat /\ Cardinality(Q) <= Cardinality(R)
BY ReportsAssumption, FS_Subset, FS_CardinalityType

\* Rows that are counted under the key each of them bears.
RowsUnder(A, f, R, K, h) ==
  /\ R \in SUBSET RowIds /\ IsFiniteSet(K) /\ h \in [R -> K]
  /\ Splits(A, f, R, K, h)

LEMMA RowsAddUp ==
  ASSUME NEW A, NEW f, NEW R, NEW K, NEW h, RowsUnder(A, f, R, K, h)
  PROVE  Sums(A, f, Cardinality(R))
<1>1. Keyed(R, K, h)
  BY RowSets DEF RowsUnder, Keyed
<1>2. Splits(A, f, R, K, h)
  BY DEF RowsUnder
<1>3. QED
  BY <1>1, <1>2, SplitAddsUp

\* No part has the figure.
Omits(A, f) == \A k \in DOMAIN A : f \notin DOMAIN A[k]

LEMMA NoParts ==
  ASSUME NEW A, NEW f, Omits(A, f), NEW n
  PROVE  Sums(A, f, n)
BY DEF Omits, Sums, PartsOf

LEMMA PairFinite ==
  ASSUME NEW x, NEW y
  PROVE  IsFiniteSet({x, y})
<1>1. IsFiniteSet({x} \cup {y})
  BY FS_Singleton, FS_AddElement
<1>2. {x} \cup {y} = {x, y}
  OBVIOUS
<1>3. QED
  BY <1>1, <1>2

LEMMA DaysFinite ==
  ASSUME NEW days \in SUBSET Days
  PROVE  IsFiniteSet(days)
<1>1. IsFiniteSet(Days)
  BY ReportsAssumption, FS_Interval DEF Days
<1>2. QED
  BY <1>1, FS_Subset

LEMMA ImageSmaller ==
  ASSUME NEW S, IsFiniteSet(S), NEW h, h = [x \in S |-> h[x]]
  PROVE  LET T == {h[x] : x \in S}
         IN  IsFiniteSet(T) /\ Cardinality(T) \in Nat /\ Cardinality(T) <= Cardinality(S)
<1> DEFINE T == {h[x] : x \in S}
<1>1. h \in Surjection(S, T)
  BY DEF Surjection
<1> HIDE DEF T
<1>2. IsFiniteSet(T) /\ Cardinality(T) <= Cardinality(S)
  BY <1>1, FS_Surjection
<1>3. Cardinality(T) \in Nat
  BY <1>2, FS_CardinalityType
<1>4. QED
  BY <1>2, <1>3 DEF T

LEMMA ApartInside ==
  ASSUME NEW P \in SUBSET RowIds, NEW Q \in SUBSET RowIds, P \cap Q = {}
  PROVE  /\ P \cup Q \in SUBSET RowIds
         /\ Cardinality(P \cup Q) = Cardinality(P) + Cardinality(Q)
         /\ Cardinality(P) + Cardinality(Q) <= Cardinality(RowIds)
<1>1. IsFiniteSet(P) /\ IsFiniteSet(Q) /\ Cardinality(P) \in Nat /\ Cardinality(Q) \in Nat
  BY RowSets
<1>2. Cardinality(P \cap Q) = 0
  BY FS_EmptySet
<1>3. Cardinality(P \cup Q) = Cardinality(P) + Cardinality(Q) - Cardinality(P \cap Q)
  BY <1>1, FS_Union
<1>4. P \cup Q \in SUBSET RowIds
  OBVIOUS
<1>5. Cardinality(P \cup Q) <= Cardinality(RowIds)
  BY <1>4, RowSets
<1>6. QED
  BY <1>1, <1>2, <1>3, <1>4, <1>5

LEMMA ContactsByDay ==
  ASSUME category = "contacts", RowsTyped, NEW days \in SUBSET Days
  PROVE  Tally(ContactsAnswer("summary", days), ContactsAnswer("trend", days), "trend")
<1> DEFINE total == ContactsAnswer("summary", days)
           A == ContactsAnswer("trend", days)
           Added == {r \in RowIds : RowUsed(r) /\ table[r].created \in days}
           Gone_ == {r \in RowIds : RowUsed(r) /\ table[r].archived \in days}
           hA == [r \in Added |-> table[r].created]
           hG == [r \in Gone_ |-> table[r].archived]
<1>1. /\ DOMAIN total = {"added", "archived", "active"}
      /\ total["added"] = Cardinality(Added) /\ total["archived"] = Cardinality(Gone_)
  BY DEF ContactsAnswer, ContactsSummary, ContactCounts, Where
<1>2. /\ DOMAIN A = days
      /\ \A d \in days :
           /\ DOMAIN A[d] = {"added", "archived"}
           /\ A[d]["added"] = Cardinality({r \in RowIds : RowUsed(r) /\ table[r].created \in {d}})
           /\ A[d]["archived"] = Cardinality({r \in RowIds : RowUsed(r) /\ table[r].archived \in {d}})
  BY DEF ContactsAnswer, ContactCounts, ByDay, Where
<1>3. IsFiniteSet(days)
  BY DaysFinite
<1>4. \A d \in days :
        /\ {r \in RowIds : RowUsed(r) /\ table[r].created \in {d}} = Under(Added, hA, {d})
        /\ {r \in RowIds : RowUsed(r) /\ table[r].archived \in {d}} = Under(Gone_, hG, {d})
  BY DEF Under
<1>5. hA \in [Added -> days] /\ hG \in [Gone_ -> days]
  OBVIOUS
<1>6. Added \in SUBSET RowIds /\ Gone_ \in SUBSET RowIds
  OBVIOUS
<1> HIDE DEF total, A, Added, Gone_, hA, hG
<1>7. RowsUnder(A, "added", Added, days, hA) /\ RowsUnder(A, "archived", Gone_, days, hG)
  BY <1>2, <1>3, <1>4, <1>5, <1>6 DEF RowsUnder, Splits
<1>8. Sums(A, "added", total["added"]) /\ Sums(A, "archived", total["archived"])
  BY <1>1, <1>7, RowsAddUp
<1>9. Sums(A, "active", total["active"])
  BY <1>2, NoParts DEF Omits
<1>10. Tally(total, A, "trend")
  BY <1>1, <1>8, <1>9 DEF Tally, Partial
<1> QED
  BY <1>10 DEF total, A

LEMMA ContactsByTag ==
  ASSUME NEW days \in SUBSET Days
  PROVE  Tally(ContactsAnswer("summary", days), ContactsAnswer("topTags", days), "topTags")
<1> DEFINE total == ContactsAnswer("summary", days)
           A == ContactsAnswer("topTags", days)
           active == {r \in RowIds : RowUsed(r) /\ table[r].status = "active"}
           tagged == {r \in RowIds : RowUsed(r) /\ table[r].status = "active" /\ table[r].tagged}
<1>1. DOMAIN total = {"added", "archived", "active"} /\ total["active"] = Cardinality(active)
  BY DEF ContactsAnswer, ContactsSummary, ContactCounts, Where
<1>2. /\ DOMAIN A = {"tag"}
      /\ DOMAIN A["tag"] = {"active"} /\ A["tag"]["active"] = Cardinality(tagged)
  BY DEF ContactsAnswer, ActiveTagged, Where
<1>3. Cardinality(tagged) <= Cardinality(active)
  <2>1. active \in SUBSET RowIds /\ tagged \in SUBSET active
    OBVIOUS
  <2> HIDE DEF active, tagged
  <2>2. QED
    BY <2>1, RowSets
<1> HIDE DEF total, A, active, tagged
<1>4. Tally(total, A, "topTags")
  BY <1>1, <1>2, <1>3 DEF Tally, Partial, PartsOf
<1> QED
  BY <1>4 DEF total, A

LEMMA ContactsOnce ==
  ASSUME category = "contacts", RowsTyped, NEW days \in SUBSET Days,
         NEW s, s = ContactsAnswer("summary", days)
  PROVE  s.added <= Cardinality(RowIds) /\ s.archived + s.active <= Cardinality(RowIds)
<1> DEFINE added == {r \in RowIds : RowUsed(r) /\ table[r].created \in days}
           archived == {r \in RowIds : RowUsed(r) /\ table[r].archived \in days}
           active == {r \in RowIds : RowUsed(r) /\ table[r].status = "active"}
<1>1. /\ s.added = Cardinality(added) /\ s.archived = Cardinality(archived)
      /\ s.active = Cardinality(active)
  BY DEF ContactsAnswer, ContactsSummary, ContactCounts, Where
<1>2. added \in SUBSET RowIds /\ archived \in SUBSET RowIds /\ active \in SUBSET RowIds
  OBVIOUS
<1>3. archived \cap active = {}
  BY DEF RowsTyped, Dated, Days, Never
<1> HIDE DEF added, archived, active
<1>4. QED
  BY <1>1, <1>2, <1>3, RowSets, ApartInside

LEMMA DealFigures ==
  ASSUME NEW days \in SUBSET Days, NEW D \in SUBSET RowIds
  PROVE  LET s == DealsSummary(days, D)
         IN /\ DOMAIN s = {"created", "won", "lost", "wonValue", "openCount"}
            /\ s["created"] = Cardinality({r \in D : table[r].created \in days})
            /\ s["won"] = Cardinality({r \in D : table[r].won \in days})
            /\ s["lost"] = Cardinality({r \in D : table[r].lost \in days})
            /\ s["wonValue"] = SumSet({r \in D : table[r].won \in days})
            /\ s["openCount"] = Cardinality({r \in D : table[r].status = "open"})
BY DEF DealsSummary, DealCounts

LEMMA DealsByDay ==
  ASSUME category = "deals", RowsTyped, NEW days \in SUBSET Days
  PROVE  Tally(DealsAnswer("summary", days), DealsAnswer("trend", days), "trend")
<1> DEFINE total == DealsAnswer("summary", days)
           A == DealsAnswer("trend", days)
           D == DealsOf(report.currency)
           created == {r \in D : table[r].created \in days}
           won == {r \in D : table[r].won \in days}
           lost == {r \in D : table[r].lost \in days}
           hC == [r \in created |-> table[r].created]
           hW == [r \in won |-> table[r].won]
           hL == [r \in lost |-> table[r].lost]
<1>1. D \in SUBSET RowIds
  BY DEF DealsOf, Where
<1>2. /\ DOMAIN total = {"created", "won", "lost", "wonValue", "openCount"}
      /\ total["created"] = Cardinality(created)
      /\ total["won"] = Cardinality(won) /\ total["lost"] = Cardinality(lost)
  <2>1. total = DealsSummary(days, D)
    BY DEF DealsAnswer
  <2> HIDE DEF total, D
  <2>2. QED
    BY <1>1, <2>1, DealFigures
<1>3. /\ DOMAIN A = days
      /\ \A d \in days :
           /\ DOMAIN A[d] = {"created", "won", "lost"}
           /\ A[d]["created"] = Cardinality({r \in D : table[r].created \in {d}})
           /\ A[d]["won"] = Cardinality({r \in D : table[r].won \in {d}})
           /\ A[d]["lost"] = Cardinality({r \in D : table[r].lost \in {d}})
  BY DEF DealsAnswer, DealCounts, ByDay
<1> HIDE DEF total, A, D
<1>4. \A d \in days :
        /\ {r \in D : table[r].created \in {d}} = Under(created, hC, {d})
        /\ {r \in D : table[r].won \in {d}} = Under(won, hW, {d})
        /\ {r \in D : table[r].lost \in {d}} = Under(lost, hL, {d})
  BY DEF Under
<1>5. hC \in [created -> days] /\ hW \in [won -> days] /\ hL \in [lost -> days]
  OBVIOUS
<1>6. created \in SUBSET RowIds /\ won \in SUBSET RowIds /\ lost \in SUBSET RowIds
  BY <1>1
<1> HIDE DEF created, won, lost, hC, hW, hL
<1>7. RowsUnder(A, "created", created, days, hC)
  BY <1>3, <1>4, <1>5, <1>6, DaysFinite DEF RowsUnder, Splits
<1>8. RowsUnder(A, "won", won, days, hW)
  BY <1>3, <1>4, <1>5, <1>6, DaysFinite DEF RowsUnder, Splits
<1>9. RowsUnder(A, "lost", lost, days, hL)
  BY <1>3, <1>4, <1>5, <1>6, DaysFinite DEF RowsUnder, Splits
<1>10. /\ Sums(A, "created", total["created"])
       /\ Sums(A, "won", total["won"]) /\ Sums(A, "lost", total["lost"])
  BY <1>2, <1>7, <1>8, <1>9, RowsAddUp
<1>11. Omits(A, "wonValue") /\ Omits(A, "openCount")
  <2>1. ASSUME NEW d \in DOMAIN A PROVE DOMAIN A[d] = {"created", "won", "lost"}
    BY <1>3
  <2>2. QED
    BY <2>1 DEF Omits
<1>12. Tally(total, A, "trend")
  BY <1>2, <1>10, <1>11, NoParts DEF Tally, Partial
<1> QED
  BY <1>12 DEF total, A

\* The value of the deals won is that of each owner's.
LEMMA WorthByOwner ==
  ASSUME NEW won \in SUBSET RowIds, NEW A, NEW h, h \in [won -> Owners], DOMAIN A = Owners,
         \A o \in Owners : /\ "wonValue" \in DOMAIN A[o]
                           /\ A[o]["wonValue"] = SumSet({r \in won : h[r] = o})
  PROVE  Sums(A, "wonValue", SumSet(won))
<1> DEFINE T == Marks(won)
           g == [p \in T |-> h[p[1]]]
<1>1. won \in SUBSET Nat /\ IsFiniteSet(won)
  BY ReportsAssumption, RowSets
<1>2. IsFiniteSet(T) /\ SumSet(won) = Cardinality(T)
  BY <1>1, WorthIsMarks
<1>3. \A o \in Owners : A[o]["wonValue"] = Cardinality(Under(T, g, {o}))
  <2>1. ASSUME NEW o \in Owners PROVE A[o]["wonValue"] = Cardinality(Under(T, g, {o}))
    <3> DEFINE mine == {r \in won : h[r] = o}
    <3>1. mine \in SUBSET won
      OBVIOUS
    <3>2. mine \in SUBSET Nat /\ IsFiniteSet(mine)
      BY <1>1, <3>1, FS_Subset
    <3>3. Marks(mine) = Under(T, g, {o})
      BY DEF Marks, Under
    <3>4. A[o]["wonValue"] = SumSet(mine)
      OBVIOUS
    <3> HIDE DEF mine, T, g
    <3>5. QED
      BY <3>2, <3>3, <3>4, WorthIsMarks
  <2>2. QED
    BY <2>1
<1>4. g \in [T -> Owners]
  BY DEF Marks
<1>5. IsFiniteSet(Owners)
  BY PairFinite DEF Owners
<1> HIDE DEF T, g
<1>6. Keyed(T, Owners, g) /\ Splits(A, "wonValue", T, Owners, g)
  BY <1>2, <1>3, <1>4, <1>5 DEF Keyed, Splits
<1>7. Sums(A, "wonValue", Cardinality(T))
  BY <1>6, SplitAddsUp
<1>8. QED
  BY <1>2, <1>7

LEMMA DealsByOwner ==
  ASSUME category = "deals", RowsTyped, NEW days \in SUBSET Days
  PROVE  Tally(DealsAnswer("summary", days), DealsAnswer("owners", days), "owners")
<1> DEFINE total == DealsAnswer("summary", days)
           A == DealsAnswer("owners", days)
           D == DealsOf(report.currency)
           Of(o) == {r \in D : table[r].owner = o}
           created == {r \in D : table[r].created \in days}
           won == {r \in D : table[r].won \in days}
           lost == {r \in D : table[r].lost \in days}
           open == {r \in D : table[r].status = "open"}
           hC == [r \in created |-> table[r].owner]
           hW == [r \in won |-> table[r].owner]
           hL == [r \in lost |-> table[r].owner]
           hO == [r \in open |-> table[r].owner]
<1>1. D \in SUBSET RowIds /\ \A r \in D : table[r].owner \in Owners
  BY DEF DealsOf, Where, RowsTyped, RowRecord, DealRecord
<1>2. /\ DOMAIN total = {"created", "won", "lost", "wonValue", "openCount"}
      /\ total["created"] = Cardinality(created)
      /\ total["won"] = Cardinality(won) /\ total["lost"] = Cardinality(lost)
      /\ total["wonValue"] = SumSet(won) /\ total["openCount"] = Cardinality(open)
  <2>1. total = DealsSummary(days, D)
    BY DEF DealsAnswer
  <2> HIDE DEF total, D
  <2>2. QED
    BY <1>1, <2>1, DealFigures
<1>3. DOMAIN A = Owners /\ \A o \in Owners : A[o] = DealsSummary(days, Of(o))
  BY DEF DealsAnswer
<1> HIDE DEF total, A, D
<1>4. ASSUME NEW o \in Owners
      PROVE  /\ DOMAIN A[o] = {"created", "won", "lost", "wonValue", "openCount"}
             /\ A[o]["created"] = Cardinality(Under(created, hC, {o}))
             /\ A[o]["won"] = Cardinality(Under(won, hW, {o}))
             /\ A[o]["lost"] = Cardinality(Under(lost, hL, {o}))
             /\ A[o]["wonValue"] = SumSet({r \in won : hW[r] = o})
             /\ A[o]["openCount"] = Cardinality(Under(open, hO, {o}))
  <2>1. Of(o) \in SUBSET RowIds
    BY <1>1
  <2>2. /\ {r \in Of(o) : table[r].created \in days} = Under(created, hC, {o})
        /\ {r \in Of(o) : table[r].won \in days} = Under(won, hW, {o})
        /\ {r \in Of(o) : table[r].lost \in days} = Under(lost, hL, {o})
        /\ {r \in Of(o) : table[r].won \in days} = {r \in won : hW[r] = o}
        /\ {r \in Of(o) : table[r].status = "open"} = Under(open, hO, {o})
    BY DEF Under
  <2> DEFINE mine == Of(o)
  <2>3. A[o] = DealsSummary(days, mine) /\ mine \in SUBSET RowIds
    BY <1>3, <2>1
  <2> HIDE DEF Of, created, won, lost, open, hC, hW, hL, hO, mine
  <2>4. /\ DOMAIN A[o] = {"created", "won", "lost", "wonValue", "openCount"}
        /\ A[o]["created"] = Cardinality({r \in mine : table[r].created \in days})
        /\ A[o]["won"] = Cardinality({r \in mine : table[r].won \in days})
        /\ A[o]["lost"] = Cardinality({r \in mine : table[r].lost \in days})
        /\ A[o]["wonValue"] = SumSet({r \in mine : table[r].won \in days})
        /\ A[o]["openCount"] = Cardinality({r \in mine : table[r].status = "open"})
    BY <2>3 DEF DealsSummary, DealCounts
  <2>5. QED
    BY <2>2, <2>4 DEF mine
<1>5. /\ hC \in [created -> Owners] /\ hW \in [won -> Owners]
      /\ hL \in [lost -> Owners] /\ hO \in [open -> Owners]
  BY <1>1
<1>6. /\ created \in SUBSET RowIds /\ won \in SUBSET RowIds
      /\ lost \in SUBSET RowIds /\ open \in SUBSET RowIds
  BY <1>1
<1>f. IsFiniteSet(Owners)
  BY PairFinite DEF Owners
<1> HIDE DEF created, won, lost, open, hC, hW, hL, hO
<1>7. RowsUnder(A, "created", created, Owners, hC) /\ RowsUnder(A, "won", won, Owners, hW)
  BY <1>3, <1>4, <1>5, <1>6, <1>f DEF RowsUnder, Splits
<1>8. RowsUnder(A, "lost", lost, Owners, hL) /\ RowsUnder(A, "openCount", open, Owners, hO)
  BY <1>3, <1>4, <1>5, <1>6, <1>f DEF RowsUnder, Splits
<1>9. /\ Sums(A, "created", total["created"]) /\ Sums(A, "won", total["won"])
      /\ Sums(A, "lost", total["lost"]) /\ Sums(A, "openCount", total["openCount"])
  BY <1>2, <1>7, <1>8, RowsAddUp
<1>10. Sums(A, "wonValue", total["wonValue"])
  <2>1. \A o \in Owners : /\ "wonValue" \in DOMAIN A[o]
                          /\ A[o]["wonValue"] = SumSet({r \in won : hW[r] = o})
    BY <1>4
  <2>2. QED
    BY <1>2, <1>3, <1>5, <1>6, <2>1, WorthByOwner
<1>11. Tally(total, A, "owners")
  BY <1>2, <1>9, <1>10 DEF Tally, Partial
<1> QED
  BY <1>11 DEF total, A

LEMMA DealsOnce ==
  ASSUME category = "deals", RowsTyped, NEW days \in SUBSET Days,
         NEW s, s = DealsAnswer("summary", days)
  PROVE  s.won + s.lost + s.openCount <= Cardinality(RowIds)
<1> DEFINE D == DealsOf(report.currency)
           won == {r \in D : table[r].won \in days}
           lost == {r \in D : table[r].lost \in days}
           open == {r \in D : table[r].status = "open"}
<1>1. D \in SUBSET RowIds /\ \A r \in D : RowUsed(r)
  BY DEF DealsOf, Where
<1>2. s = DealsSummary(days, D)
  BY DEF DealsAnswer
<1> HIDE DEF D
<1>3. s.won = Cardinality(won) /\ s.lost = Cardinality(lost) /\ s.openCount = Cardinality(open)
  BY <1>2 DEF DealsSummary, DealCounts
<1>4. won \cap lost = {} /\ (won \cup lost) \cap open = {}
  BY <1>1 DEF RowsTyped, Dated, Days, Never
<1>5. won \in SUBSET RowIds /\ lost \in SUBSET RowIds /\ open \in SUBSET RowIds
  BY <1>1
<1> HIDE DEF won, lost, open
<1>6. /\ won \cup lost \in SUBSET RowIds
      /\ Cardinality(won \cup lost) = Cardinality(won) + Cardinality(lost)
  BY <1>4, <1>5, ApartInside
<1>7. Cardinality(won \cup lost) + Cardinality(open) <= Cardinality(RowIds)
  BY <1>4, <1>5, <1>6, ApartInside
<1>8. Cardinality(won) \in Nat /\ Cardinality(lost) \in Nat /\ Cardinality(open) \in Nat
  BY <1>5, RowSets
<1>9. QED
  BY <1>3, <1>6, <1>7, <1>8

\* The rows a send's counts are of.
SentRows(days, R) == {r \in R : table[r].status # "queued" /\ table[r].created \in days}
HasEvent(r, type) == \E e \in table[r].events : e # Null /\ e[1] = type
DeliveredRows(days, R) ==
  {r \in SentRows(days, R) : table[r].status = "delivered" \/ HasEvent(r, "delivered")}
BouncedRows(days, R) == {r \in SentRows(days, R) : HasEvent(r, "bounced")}

LEMMA JoinedOnce ==
  ASSUME NEW R, NEW column
  PROVE  /\ {j[1] : j \in LeftJoin(R, column)} = R
         /\ \A j \in LeftJoin(R, column) : j[1] \in R
<1>1. \A j \in LeftJoin(R, column) : j[1] \in R
  BY DEF LeftJoin
<1>2. ASSUME NEW r \in R PROVE \E j \in LeftJoin(R, column) : j[1] = r
  <2> DEFINE V == IF table[r][column] = {} THEN {Null} ELSE table[r][column]
  <2>1. PICK v \in V : TRUE
    OBVIOUS
  <2>2. <<r, v>> \in LeftJoin(R, column)
    BY <2>1 DEF LeftJoin
  <2>3. QED
    BY <2>2
<1>3. QED
  BY <1>1, <1>2

LEMMA EmailFigures ==
  ASSUME NEW days, NEW R
  PROVE  EmailCounts(days, R) = [sends |-> Cardinality(SentRows(days, R)),
                                 delivered |-> Cardinality(DeliveredRows(days, R)),
                                 bounces |-> Cardinality(BouncedRows(days, R))]
<1> DEFINE sent == SentRows(days, R)
           joined == LeftJoin(sent, "events")
           Event(j, type) == j[2] # Null /\ j[2][1] = type
           arrived == {j \in joined : table[j[1]].status = "delivered" \/ Event(j, "delivered")}
           bounced == {j \in joined : Event(j, "bounced")}
<1>1. {j[1] : j \in joined} = sent /\ \A j \in joined : j[1] \in sent
  BY JoinedOnce
<1>2. \A j \in joined : j[2] # Null => j[2] \in table[j[1]].events
  BY DEF LeftJoin
<1>3. \A r \in sent : \A e \in table[r].events : <<r, e>> \in joined
  BY DEF LeftJoin
<1> HIDE DEF joined
<1>4. ASSUME NEW j \in joined, NEW type, Event(j, type) PROVE HasEvent(j[1], type)
  BY <1>2, <1>4 DEF HasEvent
<1>5. ASSUME NEW r \in sent, NEW type, HasEvent(r, type)
      PROVE \E j \in joined : j[1] = r /\ Event(j, type)
  <2>1. PICK e \in table[r].events : e # Null /\ e[1] = type
    BY <1>5 DEF HasEvent
  <2>2. <<r, e>> \in joined
    BY <1>3
  <2>3. QED
    BY <2>1, <2>2
<1>6. \A r \in sent : \E j \in joined : j[1] = r
  BY <1>1
<1> HIDE DEF Event, sent
<1>7. {j[1] : j \in arrived} = {r \in sent : table[r].status = "delivered" \/ HasEvent(r, "delivered")}
  BY <1>1, <1>4, <1>5, <1>6
<1>8. {j[1] : j \in bounced} = {r \in sent : HasEvent(r, "bounced")}
  BY <1>1, <1>4, <1>5
<1>9. /\ CountDistinct(joined) = Cardinality(SentRows(days, R))
      /\ CountDistinct(arrived) = Cardinality(DeliveredRows(days, R))
      /\ CountDistinct(bounced) = Cardinality(BouncedRows(days, R))
  BY <1>1, <1>7, <1>8 DEF CountDistinct, DeliveredRows, BouncedRows, sent
<1>10. EmailCounts(days, R) = [sends |-> CountDistinct(joined), delivered |-> CountDistinct(arrived),
                               bounces |-> CountDistinct(bounced)]
  BY DEF EmailCounts, joined, sent, SentRows, Event
<1>11. QED
  BY <1>9, <1>10

\* Deliveries under a key: of their day, or of their source.
LEMMA EmailsUnderKey ==
  ASSUME NEW R \in SUBSET RowIds, NEW days, NEW K, IsFiniteSet(K), NEW key,
         \A r \in SentRows(days, R) : key[r] \in K,
         NEW A, DOMAIN A = K, NEW on, NEW of,
         \A k \in K : /\ A[k] = EmailCounts(on[k], of[k])
                     /\ SentRows(on[k], of[k]) = {r \in SentRows(days, R) : key[r] = k},
         NEW b, b \notin Partial
  PROVE  Tally(EmailCounts(days, R), A, b)
<1> DEFINE total == EmailCounts(days, R)
           sent == SentRows(days, R)
           delivered == DeliveredRows(days, R)
           bounced == BouncedRows(days, R)
           hS == [r \in sent |-> key[r]]
           hD == [r \in delivered |-> key[r]]
           hB == [r \in bounced |-> key[r]]
<1>1. total = [sends |-> Cardinality(sent), delivered |-> Cardinality(delivered),
               bounces |-> Cardinality(bounced)]
  BY EmailFigures
<1>2. sent \in SUBSET RowIds /\ delivered \in SUBSET RowIds /\ bounced \in SUBSET RowIds
  BY DEF SentRows, DeliveredRows, BouncedRows
<1>3. hS \in [sent -> K] /\ hD \in [delivered -> K] /\ hB \in [bounced -> K]
  BY DEF DeliveredRows, BouncedRows
<1>4. ASSUME NEW k \in K
      PROVE  /\ DOMAIN A[k] = {"sends", "delivered", "bounces"}
             /\ A[k]["sends"] = Cardinality(Under(sent, hS, {k}))
             /\ A[k]["delivered"] = Cardinality(Under(delivered, hD, {k}))
             /\ A[k]["bounces"] = Cardinality(Under(bounced, hB, {k}))
  <2>1. A[k] = [sends |-> Cardinality(SentRows(on[k], of[k])),
                delivered |-> Cardinality(DeliveredRows(on[k], of[k])),
                bounces |-> Cardinality(BouncedRows(on[k], of[k]))]
    BY EmailFigures
  <2>2. SentRows(on[k], of[k]) = Under(sent, hS, {k})
    BY DEF Under
  <2>3. /\ DeliveredRows(on[k], of[k]) = Under(delivered, hD, {k})
        /\ BouncedRows(on[k], of[k]) = Under(bounced, hB, {k})
    BY DEF Under, DeliveredRows, BouncedRows
  <2> HIDE DEF sent, delivered, bounced, hS, hD, hB
  <2>4. QED
    BY <2>1, <2>2, <2>3
<1> HIDE DEF total, sent, delivered, bounced, hS, hD, hB
<1>5. RowsUnder(A, "sends", sent, K, hS)
  BY <1>2, <1>3, <1>4 DEF RowsUnder, Splits
<1>6. RowsUnder(A, "delivered", delivered, K, hD)
  BY <1>2, <1>3, <1>4 DEF RowsUnder, Splits
<1>7. RowsUnder(A, "bounces", bounced, K, hB)
  BY <1>2, <1>3, <1>4 DEF RowsUnder, Splits
<1>8. /\ Sums(A, "sends", Cardinality(sent)) /\ Sums(A, "delivered", Cardinality(delivered))
      /\ Sums(A, "bounces", Cardinality(bounced))
  BY <1>5, <1>6, <1>7, RowsAddUp
<1>9. /\ DOMAIN total = {"sends", "delivered", "bounces"}
      /\ total["sends"] = Cardinality(sent) /\ total["delivered"] = Cardinality(delivered)
      /\ total["bounces"] = Cardinality(bounced)
  BY <1>1
<1>10. Tally(total, A, b)
  BY <1>8, <1>9 DEF Tally
<1> QED
  BY <1>10 DEF total

LEMMA EmailsBrokenDown ==
  ASSUME category = "emails", RowsTyped, NEW days \in SUBSET Days, NEW b \in {"trend", "sources"}
  PROVE  Tally(EmailsAnswer("summary", days), EmailsAnswer(b, days), b)
<1> DEFINE R == {r \in RowIds : RowUsed(r)}
           A == EmailsAnswer(b, days)
<1>1. EmailsAnswer("summary", days) = EmailCounts(days, R)
  BY DEF EmailsAnswer, Where
<1>2. R \in SUBSET RowIds /\ b \notin Partial
  BY DEF Partial
<1>3. CASE b = "trend"
  <2> DEFINE key == [r \in RowIds |-> table[r].created]
             on == [d \in days |-> {d}]
             of == [d \in days |-> R]
  <2>1. DOMAIN A = days /\ \A d \in days : A[d] = EmailCounts(on[d], of[d])
    BY <1>3 DEF EmailsAnswer, ByDay, Where
  <2>2. \A d \in days : SentRows(on[d], of[d]) = {r \in SentRows(days, R) : key[r] = d}
    BY DEF SentRows
  <2>3. \A r \in SentRows(days, R) : key[r] \in days
    BY DEF SentRows
  <2> HIDE DEF A, R, key, on, of
  <2>4. Tally(EmailCounts(days, R), A, b)
    BY <1>2, <2>1, <2>2, <2>3, DaysFinite, EmailsUnderKey
  <2> QED
    BY <1>1, <2>4 DEF A
<1>4. CASE b = "sources"
  <2> DEFINE key == [r \in RowIds |-> table[r].source]
             on == [x \in SendSources |-> days]
             of == [x \in SendSources |-> {r \in RowIds : RowUsed(r) /\ table[r].source = x}]
  <2>1. DOMAIN A = SendSources /\ \A x \in SendSources : A[x] = EmailCounts(on[x], of[x])
    BY <1>4 DEF EmailsAnswer, Where
  <2>2. \A x \in SendSources : SentRows(on[x], of[x]) = {r \in SentRows(days, R) : key[r] = x}
    BY DEF SentRows
  <2>3. \A r \in SentRows(days, R) : key[r] \in SendSources
    BY DEF SentRows, RowsTyped, RowRecord, DeliveryRecord
  <2>4. IsFiniteSet(SendSources)
    BY PairFinite DEF SendSources
  <2> HIDE DEF A, R, key, on, of
  <2>5. Tally(EmailCounts(days, R), A, b)
    BY <1>2, <2>1, <2>2, <2>3, <2>4, EmailsUnderKey
  <2> QED
    BY <1>1, <2>5 DEF A
<1>5. QED
  BY <1>3, <1>4

LEMMA EmailsOnce ==
  ASSUME NEW days, NEW s, s = EmailsAnswer("summary", days)
  PROVE  s.sends <= Cardinality(RowIds) /\ s.delivered <= s.sends /\ s.bounces <= s.sends
<1> DEFINE R == {r \in RowIds : RowUsed(r)}
           sent == SentRows(days, R)
           delivered == DeliveredRows(days, R)
           bounced == BouncedRows(days, R)
<1>1. s = EmailCounts(days, R)
  BY DEF EmailsAnswer, Where
<1>2. sent \in SUBSET RowIds /\ delivered \in SUBSET sent /\ bounced \in SUBSET sent
  BY DEF SentRows, DeliveredRows, BouncedRows
<1> HIDE DEF R
<1>3. /\ s.sends = Cardinality(sent) /\ s.delivered = Cardinality(delivered)
      /\ s.bounces = Cardinality(bounced)
  BY <1>1, EmailFigures
<1> HIDE DEF sent, delivered, bounced
<1>4. QED
  BY <1>2, <1>3, RowSets

EnteredRows(days) == {r \in RowIds : RowUsed(r) /\ table[r].entered \in days}
CompletedRows(days) == {r \in RowIds : RowUsed(r) /\ table[r].completed \in days}
OfAutomation(a) == {r \in RowIds : RowUsed(r) /\ table[r].automation = a}

LEMMA EnrollmentFigures ==
  ASSUME NEW days, NEW R
  PROVE  LET counts == EnrollmentCounts(days, R)
         IN  /\ DOMAIN counts = {"entries", "completions", "sends"}
             /\ counts["entries"] = Cardinality({r \in R : table[r].entered \in days})
             /\ counts["completions"] = Cardinality({r \in R : table[r].completed \in days})
<1> DEFINE joined == LeftJoin(R, "sends")
           entered == {j \in joined : table[j[1]].entered \in days}
           completed == {j \in joined : table[j[1]].completed \in days}
           sends == Cardinality({j \in joined : j[2] \in days})
<1>1. {j[1] : j \in joined} = R /\ \A j \in joined : j[1] \in R
  BY JoinedOnce
<1>2. EnrollmentCounts(days, R) = [entries |-> CountDistinct(entered),
                                   completions |-> CountDistinct(completed), sends |-> sends]
  BY DEF EnrollmentCounts
<1>3. \A r \in R : \E j \in joined : j[1] = r
  BY <1>1
<1> HIDE DEF joined
<1>4. /\ {j[1] : j \in entered} = {r \in R : table[r].entered \in days}
      /\ {j[1] : j \in completed} = {r \in R : table[r].completed \in days}
  BY <1>1, <1>3
<1>5. /\ CountDistinct(entered) = Cardinality({r \in R : table[r].entered \in days})
      /\ CountDistinct(completed) = Cardinality({r \in R : table[r].completed \in days})
  BY <1>4 DEF CountDistinct
<1> HIDE DEF entered, completed, sends
<1>6. QED
  BY <1>2, <1>5

\* What the server adds up is what there is.
LEMMA AutomationFigures ==
  ASSUME category = "automations", RowsTyped, NEW days
  PROVE  LET total == AutomationTotals(days)
         IN  /\ DOMAIN total = {"entries", "completions", "sends"}
             /\ total["entries"] = Cardinality(EnteredRows(days))
             /\ total["completions"] = Cardinality(CompletedRows(days))
<1> DEFINE total == AutomationTotals(days)
           of == [a \in Automations |-> EnrollmentCounts(days, OfAutomation(a))]
           entered == EnteredRows(days)
           completed == CompletedRows(days)
           hE == [r \in entered |-> table[r].automation]
           hC == [r \in completed |-> table[r].automation]
<1>1. total = [f \in {"entries", "completions", "sends"} |-> SumOf(of, f, Automations)]
  BY DEF AutomationTotals, OfAutomation, Where
<1>2. /\ entered \in SUBSET RowIds /\ completed \in SUBSET RowIds
      /\ hE \in [entered -> Automations] /\ hC \in [completed -> Automations]
  BY DEF EnteredRows, CompletedRows, RowsTyped, RowRecord, EnrollmentRecord
<1>3. ASSUME NEW a \in Automations
      PROVE  /\ DOMAIN of[a] = {"entries", "completions", "sends"}
             /\ of[a]["entries"] = Cardinality(Under(entered, hE, {a}))
             /\ of[a]["completions"] = Cardinality(Under(completed, hC, {a}))
  <2> DEFINE mine == OfAutomation(a)
  <2>1. /\ {r \in mine : table[r].entered \in days} = Under(entered, hE, {a})
        /\ {r \in mine : table[r].completed \in days} = Under(completed, hC, {a})
    BY DEF Under, EnteredRows, CompletedRows, OfAutomation
  <2>2. of[a] = EnrollmentCounts(days, mine)
    OBVIOUS
  <2> DEFINE counts == EnrollmentCounts(days, mine)
  <2> HIDE DEF of, mine, entered, completed, hE, hC
  <2>3. /\ DOMAIN counts = {"entries", "completions", "sends"}
        /\ counts["entries"] = Cardinality({r \in mine : table[r].entered \in days})
        /\ counts["completions"] = Cardinality({r \in mine : table[r].completed \in days})
    BY EnrollmentFigures
  <2>4. of[a] = counts
    BY <2>2
  <2> HIDE DEF counts
  <2>5. QED
    BY <2>1, <2>3, <2>4
<1>4. IsFiniteSet(Automations) /\ DOMAIN of = Automations
  BY PairFinite DEF Automations
<1> HIDE DEF total, of, entered, completed, hE, hC
<1>5. /\ RowsUnder(of, "entries", entered, Automations, hE)
      /\ RowsUnder(of, "completions", completed, Automations, hC)
  BY <1>2, <1>3, <1>4 DEF RowsUnder, Splits
<1>6. Sums(of, "entries", Cardinality(entered)) /\ Sums(of, "completions", Cardinality(completed))
  BY <1>5, RowsAddUp
<1>7. PartsOf(of, "entries") = Automations /\ PartsOf(of, "completions") = Automations
  BY <1>3, <1>4 DEF PartsOf
<1>8. /\ SumOf(of, "entries", Automations) = Cardinality(entered)
      /\ SumOf(of, "completions", Automations) = Cardinality(completed)
  BY <1>6, <1>7 DEF Sums, Automations
<1>9. QED
  BY <1>1, <1>8 DEF total, entered, completed

LEMMA AutomationsByDay ==
  ASSUME category = "automations", RowsTyped, NEW days \in SUBSET Days
  PROVE  Tally(AutomationsAnswer("summary", days), AutomationsAnswer("trend", days), "trend")
<1> DEFINE total == AutomationsAnswer("summary", days)
           A == AutomationsAnswer("trend", days)
           entered == EnteredRows(days)
           completed == CompletedRows(days)
           hE == [r \in entered |-> table[r].entered]
           hC == [r \in completed |-> table[r].completed]
<1>1. /\ DOMAIN total = {"entries", "completions", "sends"}
      /\ total["entries"] = Cardinality(entered)
      /\ total["completions"] = Cardinality(completed)
  <2>1. total = AutomationTotals(days)
    BY DEF AutomationsAnswer
  <2> HIDE DEF total
  <2>2. QED
    BY <2>1, AutomationFigures
<1>2. DOMAIN A = days
  BY DEF AutomationsAnswer, ByDay
<1>3. ASSUME NEW d \in days
      PROVE  /\ DOMAIN A[d] = {"entries", "completions"}
             /\ A[d]["entries"] = Cardinality(Under(entered, hE, {d}))
             /\ A[d]["completions"] = Cardinality(Under(completed, hC, {d}))
  <2>1. /\ EnteredRows({d}) = Under(entered, hE, {d})
        /\ CompletedRows({d}) = Under(completed, hC, {d})
    BY DEF Under, EnteredRows, CompletedRows
  <2>2. A[d] = [entries |-> Cardinality(EnteredRows({d})),
                completions |-> Cardinality(CompletedRows({d}))]
    BY DEF AutomationsAnswer, ByDay, EnrollmentTrend, Where, EnteredRows, CompletedRows
  <2> HIDE DEF A, entered, completed, hE, hC
  <2>3. QED
    BY <2>1, <2>2
<1>4. /\ entered \in SUBSET RowIds /\ completed \in SUBSET RowIds
      /\ hE \in [entered -> days] /\ hC \in [completed -> days]
  BY DEF EnteredRows, CompletedRows
<1> HIDE DEF total, A, entered, completed, hE, hC
<1>5. RowsUnder(A, "entries", entered, days, hE) /\ RowsUnder(A, "completions", completed, days, hC)
  BY <1>2, <1>3, <1>4, DaysFinite DEF RowsUnder, Splits
<1>6. Sums(A, "entries", total["entries"]) /\ Sums(A, "completions", total["completions"])
  BY <1>1, <1>5, RowsAddUp
<1>7. Omits(A, "sends")
  <2>1. ASSUME NEW d \in DOMAIN A PROVE DOMAIN A[d] = {"entries", "completions"}
    BY <1>2, <1>3
  <2>2. QED
    BY <2>1 DEF Omits
<1>8. Tally(total, A, "trend")
  BY <1>1, <1>6, <1>7, NoParts DEF Tally, Partial
<1> QED
  BY <1>8 DEF total, A

LEMMA AutomationsOnce ==
  ASSUME category = "automations", RowsTyped, NEW days,
         NEW s, s = AutomationsAnswer("summary", days)
  PROVE  s.entries <= Cardinality(RowIds) /\ s.completions <= Cardinality(RowIds)
<1>1. s = AutomationTotals(days)
  BY DEF AutomationsAnswer
<1>2. /\ s["entries"] = Cardinality(EnteredRows(days))
      /\ s["completions"] = Cardinality(CompletedRows(days))
  BY <1>1, AutomationFigures
<1>3. EnteredRows(days) \in SUBSET RowIds /\ CompletedRows(days) \in SUBSET RowIds
  BY DEF EnteredRows, CompletedRows
<1>4. /\ Cardinality(EnteredRows(days)) <= Cardinality(RowIds)
      /\ Cardinality(CompletedRows(days)) <= Cardinality(RowIds)
  BY <1>3, RowSets
<1>5. QED
  BY <1>2, <1>4

LEMMA SiteByDay ==
  ASSUME category = "site", RowsTyped, NEW days \in SUBSET Days,
         NEW t \in {"summary", "formSummary"}
  PROVE  Tally(SiteAnswer(t, days), SiteAnswer("trend", days), "trend")
<1> DEFINE A == SiteAnswer("trend", days)
           views == {r \in PageViews : table[r].day \in days}
           forms == Submitted(days)
           hV == [r \in views |-> table[r].day]
           hF == [r \in forms |-> table[r].day]
<1>1. DOMAIN A = days
  BY DEF SiteAnswer, ByDay
<1>2. ASSUME NEW d \in days
      PROVE  /\ DOMAIN A[d] = {"pageViews", "submissions"}
             /\ A[d]["pageViews"] = Cardinality(Under(views, hV, {d}))
             /\ A[d]["submissions"] = Cardinality(Under(forms, hF, {d}))
  <2> DEFINE viewed == {r \in PageViews : table[r].day \in {d}}
             sent == Submitted({d})
  <2>1. viewed = Under(views, hV, {d})
    BY DEF Under
  <2>2. sent = Under(forms, hF, {d})
    BY DEF Under, Submitted, Where
  <2>3. A[d] = [pageViews |-> Cardinality(viewed), submissions |-> Cardinality(sent)]
    BY DEF SiteAnswer, ByDay, SiteTrend
  <2> HIDE DEF A, views, forms, hV, hF, viewed, sent
  <2>4. QED
    BY <2>1, <2>2, <2>3
<1>3. /\ views \in SUBSET RowIds /\ forms \in SUBSET RowIds
      /\ hV \in [views -> days] /\ hF \in [forms -> days]
  BY DEF PageViews, Submitted, Where
<1> HIDE DEF A, views, forms, hV, hF
<1>4. RowsUnder(A, "pageViews", views, days, hV) /\ RowsUnder(A, "submissions", forms, days, hF)
  BY <1>1, <1>2, <1>3, DaysFinite DEF RowsUnder, Splits
<1>5. Sums(A, "pageViews", Cardinality(views)) /\ Sums(A, "submissions", Cardinality(forms))
  BY <1>4, RowsAddUp
<1>6. CASE t = "summary"
  <2> DEFINE total == SiteAnswer("summary", days)
  <2>1. /\ DOMAIN total = {"pageViews", "uniqueVisitors", "identified"}
        /\ total["pageViews"] = Cardinality(views)
    BY DEF SiteAnswer, PageCounts, views
  <2> HIDE DEF total
  <2>2. Tally(total, A, "trend")
    BY <1>5, <2>1 DEF Tally, Partial, Additive
  <2>3. QED
    BY <1>6, <2>2 DEF total, A
<1>7. CASE t = "formSummary"
  <2> DEFINE total == SiteAnswer("formSummary", days)
  <2>1. DOMAIN total = {"submissions", "submitting"} /\ total["submissions"] = Cardinality(forms)
    BY DEF SiteAnswer, FormSummary, forms
  <2> HIDE DEF total
  <2>2. Tally(total, A, "trend")
    BY <1>5, <2>1 DEF Tally, Partial, Additive
  <2>3. QED
    BY <1>7, <2>2 DEF total, A
<1>8. QED
  BY <1>6, <1>7

\* Who saw some pages, as the query tells visitors apart.
Viewer(r) == IF table[r].visitor # Null THEN table[r].visitor ELSE table[r].contact
Viewers(seen) == {Viewer(r) : r \in seen}
Identified(seen) == {table[r].contact : r \in seen} \ {Null}

LEMMA ViewersFew ==
  ASSUME NEW seen \in SUBSET RowIds
  PROVE  /\ IsFiniteSet(Viewers(seen)) /\ IsFiniteSet(Identified(seen))
         /\ Cardinality(Viewers(seen)) <= Cardinality(seen)
         /\ Cardinality(Identified(seen)) <= Cardinality(seen)
<1> DEFINE hV == [r \in seen |-> Viewer(r)]
           hI == [r \in seen |-> table[r].contact]
           named == {hI[r] : r \in seen}
<1>1. IsFiniteSet(seen) /\ Cardinality(seen) \in Nat
  BY RowSets
<1>2. Viewers(seen) = {hV[r] : r \in seen}
  BY DEF Viewers
<1>3. Identified(seen) = named \ {Null}
  BY DEF Identified
<1>4. hV = [r \in seen |-> hV[r]] /\ hI = [r \in seen |-> hI[r]]
  OBVIOUS
<1> HIDE DEF hV, hI
<1>5. /\ IsFiniteSet(Viewers(seen)) /\ Cardinality(Viewers(seen)) <= Cardinality(seen)
  BY <1>1, <1>2, <1>4, ImageSmaller
<1>6. IsFiniteSet(named) /\ Cardinality(named) \in Nat /\ Cardinality(named) <= Cardinality(seen)
  BY <1>1, <1>4, ImageSmaller
<1>7. IsFiniteSet(Identified(seen)) /\ Cardinality(Identified(seen)) <= Cardinality(named)
  BY <1>3, <1>6, FS_Subset
<1>8. Cardinality(Identified(seen)) \in Nat
  BY <1>7, FS_CardinalityType
<1>9. QED
  BY <1>1, <1>5, <1>6, <1>7, <1>8

LEMMA PageFigures ==
  ASSUME NEW days, NEW views
  PROVE  LET seen == {r \in views : table[r].day \in days}
         IN PageCounts(days, views) =
              [pageViews |-> Cardinality(seen), uniqueVisitors |-> Cardinality(Viewers(seen)),
               identified |-> Cardinality(Identified(seen))]
BY DEF PageCounts, Viewers, Viewer, Identified

LEMMA SiteByPage ==
  ASSUME NEW days, NEW t \in {"summary", "formSummary"}
  PROVE  Tally(SiteAnswer(t, days), SiteAnswer("topPages", days), "topPages")
<1> DEFINE A == SiteAnswer("topPages", days)
           seen == {r \in PageViews : table[r].day \in days}
           of == [u \in Urls \ {Null} |-> {r \in PageViews : table[r].url = u /\ table[r].day \in days}]
<1>1. DOMAIN A = Urls \ {Null}
  BY DEF SiteAnswer
<1>2. ASSUME NEW u \in DOMAIN A
      PROVE  A[u] = [pageViews |-> Cardinality(of[u]), uniqueVisitors |-> Cardinality(Viewers(of[u])),
                     identified |-> Cardinality(Identified(of[u]))]
  <2> DEFINE views == {r \in PageViews : table[r].url = u}
  <2>1. A[u] = PageCounts(days, views)
    BY <1>1 DEF SiteAnswer
  <2>2. {r \in views : table[r].day \in days} = of[u]
    BY <1>1
  <2> HIDE DEF A, views, of
  <2>3. QED
    BY <2>1, <2>2, PageFigures
<1>3. seen \in SUBSET RowIds
  BY DEF PageViews, Where
<1>4. \A u \in DOMAIN A : of[u] \in SUBSET seen
  BY <1>1
<1> HIDE DEF A, seen, of
<1>5. CASE t = "summary"
  <2> DEFINE total == SiteAnswer("summary", days)
  <2>1. total = [pageViews |-> Cardinality(seen), uniqueVisitors |-> Cardinality(Viewers(seen)),
                 identified |-> Cardinality(Identified(seen))]
    BY PageFigures DEF SiteAnswer, seen
  <2>2. ASSUME NEW u \in DOMAIN A
        PROVE  /\ Cardinality(of[u]) <= Cardinality(seen)
               /\ Cardinality(Viewers(of[u])) <= Cardinality(Viewers(seen))
               /\ Cardinality(Identified(of[u])) <= Cardinality(Identified(seen))
    <3>1. of[u] \in SUBSET seen
      BY <1>4
    <3>2. Viewers(of[u]) \in SUBSET Viewers(seen) /\ Identified(of[u]) \in SUBSET Identified(seen)
      BY <3>1 DEF Viewers, Identified
    <3>3. IsFiniteSet(Viewers(seen)) /\ IsFiniteSet(Identified(seen))
      BY <1>3, ViewersFew
    <3>4. Cardinality(of[u]) <= Cardinality(seen)
      BY <1>3, <3>1, RowSets
    <3>5. QED
      BY <3>2, <3>3, <3>4, FS_Subset
  <2> HIDE DEF total
  <2>3. Tally(total, A, "topPages")
    BY <1>2, <2>1, <2>2 DEF Tally, Partial, PartsOf
  <2>4. QED
    BY <1>5, <2>3 DEF total, A
<1>6. CASE t = "formSummary"
  <2> DEFINE total == SiteAnswer("formSummary", days)
  <2>1. DOMAIN total = {"submissions", "submitting"}
    BY DEF SiteAnswer, FormSummary
  <2> HIDE DEF total
  <2>2. \A f \in DOMAIN total : PartsOf(A, f) = {}
    BY <1>2, <2>1 DEF PartsOf
  <2>3. Tally(total, A, "topPages")
    BY <2>2 DEF Tally, Partial
  <2>4. QED
    BY <1>6, <2>3 DEF total, A
<1>7. QED
  BY <1>5, <1>6

LEMMA SiteOnce ==
  ASSUME NEW days, NEW s, s = SiteAnswer("summary", days)
  PROVE  s.uniqueVisitors <= s.pageViews /\ s.identified <= s.pageViews
<1> DEFINE seen == {r \in PageViews : table[r].day \in days}
<1>1. s = [pageViews |-> Cardinality(seen), uniqueVisitors |-> Cardinality(Viewers(seen)),
           identified |-> Cardinality(Identified(seen))]
  BY PageFigures DEF SiteAnswer
<1>2. seen \in SUBSET RowIds
  BY DEF PageViews, Where
<1> HIDE DEF seen
<1>3. QED
  BY <1>1, <1>2, ViewersFew

-----------------------------------------------------------------------------
(* The invariant: until a row is written, each query was answered from the *)
(* rows there are.                                                         *)

ReportTyped ==
  /\ category \in Categories
  /\ today \in Days
  /\ table = [r \in RowIds |-> table[r]]
  /\ report = [asked |-> report.asked, range |-> report.range, currency |-> report.currency,
               answers |-> report.answers, torn |-> report.torn]
  /\ report.range \in Days \X Days /\ report.range[1] <= report.range[2]
  /\ report.currency \in Currencies
  /\ report.asked \in BOOLEAN /\ report.torn \in BOOLEAN
  /\ DOMAIN report.answers \subseteq Queries
  /\ ~report.asked => DOMAIN report.answers = {}

UpToDate ==
  ~report.torn => \A q \in DOMAIN report.answers :
                    report.answers[q] = AnswerTo(q, DaysOf(report.range))

\* What CountedOnce says of the totals of a report.
Once(kind, s) ==
  LET n == Cardinality(RowIds)
  IN /\ kind = "contacts" => s.added <= n /\ s.archived + s.active <= n
     /\ kind = "deals" => s.won + s.lost + s.openCount <= n
     /\ kind = "emails" => s.sends <= n /\ s.delivered <= s.sends /\ s.bounces <= s.sends
     /\ kind = "automations" => s.entries <= n /\ s.completions <= n
     /\ kind = "site" => s.uniqueVisitors <= s.pageViews /\ s.identified <= s.pageViews

Counted ==
  "summary" \in DOMAIN report.answers => Once(category, report.answers["summary"])

LEMMA TotalsOnce ==
  ASSUME category \in Categories, RowsTyped, NEW days \in SUBSET Days
  PROVE  Once(category, AnswerTo("summary", days))
<1> DEFINE s == AnswerTo("summary", days)
<1>1. CASE category = "contacts"
  <2>1. s = ContactsAnswer("summary", days)
    BY <1>1 DEF AnswerTo
  <2> HIDE DEF s
  <2>2. Once(category, s)
    BY <1>1, <2>1, ContactsOnce DEF Once
  <2>3. QED
    BY <2>2 DEF s
<1>2. CASE category = "deals"
  <2>1. s = DealsAnswer("summary", days)
    BY <1>2 DEF AnswerTo
  <2> HIDE DEF s
  <2>2. Once(category, s)
    BY <1>2, <2>1, DealsOnce DEF Once
  <2>3. QED
    BY <2>2 DEF s
<1>3. CASE category = "emails"
  <2>1. s = EmailsAnswer("summary", days)
    BY <1>3 DEF AnswerTo
  <2> HIDE DEF s
  <2>2. Once(category, s)
    BY <1>3, <2>1, EmailsOnce DEF Once
  <2>3. QED
    BY <2>2 DEF s
<1>4. CASE category = "automations"
  <2>1. s = AutomationsAnswer("summary", days)
    BY <1>4 DEF AnswerTo
  <2> HIDE DEF s
  <2>2. Once(category, s)
    BY <1>4, <2>1, AutomationsOnce DEF Once
  <2>3. QED
    BY <2>2 DEF s
<1>5. CASE category = "site"
  <2>1. s = SiteAnswer("summary", days)
    BY <1>5 DEF AnswerTo
  <2> HIDE DEF s
  <2>2. Once(category, s)
    BY <1>5, <2>1, SiteOnce DEF Once
  <2>3. QED
    BY <2>2 DEF s
<1>6. QED
  BY <1>1, <1>2, <1>3, <1>4, <1>5 DEF Categories

LEMMA AnswersTally ==
  ASSUME category \in Categories, RowsTyped, NEW days \in SUBSET Days,
         NEW t \in Queries \cap Totals, NEW b \in Queries \ Totals
  PROVE  Tally(AnswerTo(t, days), AnswerTo(b, days), b)
<1>1. CASE category = "contacts"
  <2>1. t = "summary" /\ b \in {"trend", "topTags"}
    BY <1>1 DEF Queries, Totals
  <2>2. \A q \in {t, b} : AnswerTo(q, days) = ContactsAnswer(q, days)
    BY <1>1 DEF AnswerTo
  <2>3. QED
    BY <1>1, <2>1, <2>2, ContactsByDay, ContactsByTag
<1>2. CASE category = "deals"
  <2>1. t = "summary" /\ b \in {"trend", "owners"}
    BY <1>2 DEF Queries, Totals
  <2>2. \A q \in {t, b} : AnswerTo(q, days) = DealsAnswer(q, days)
    BY <1>2 DEF AnswerTo
  <2>3. QED
    BY <1>2, <2>1, <2>2, DealsByDay, DealsByOwner
<1>3. CASE category = "emails"
  <2>1. t = "summary" /\ b \in {"trend", "sources"}
    BY <1>3 DEF Queries, Totals
  <2>2. \A q \in {t, b} : AnswerTo(q, days) = EmailsAnswer(q, days)
    BY <1>3 DEF AnswerTo
  <2>3. QED
    BY <1>3, <2>1, <2>2, EmailsBrokenDown
<1>4. CASE category = "automations"
  <2>1. t = "summary" /\ b = "trend"
    BY <1>4 DEF Queries, Totals
  <2>2. \A q \in {t, b} : AnswerTo(q, days) = AutomationsAnswer(q, days)
    BY <1>4 DEF AnswerTo
  <2>3. QED
    BY <1>4, <2>1, <2>2, AutomationsByDay
<1>5. CASE category = "site"
  <2>1. t \in {"summary", "formSummary"} /\ b \in {"trend", "topPages"}
    BY <1>5 DEF Queries, Totals
  <2>2. \A q \in {t, b} : AnswerTo(q, days) = SiteAnswer(q, days)
    BY <1>5 DEF AnswerTo
  <2>3. QED
    BY <1>5, <2>1, <2>2, SiteByDay, SiteByPage
<1>6. QED
  BY <1>1, <1>2, <1>3, <1>4, <1>5 DEF Categories

(* What a query answers depends on the rows alone.                         *)
LEMMA ContactsSame ==
  ASSUME UNCHANGED table, NEW q, NEW days
  PROVE  ContactsAnswer(q, days)' = ContactsAnswer(q, days)
<1>1. ASSUME NEW D
      PROVE  /\ Where(LAMBDA r : table[r].created \in D)' = Where(LAMBDA r : table[r].created \in D)
             /\ Where(LAMBDA r : table[r].archived \in D)' = Where(LAMBDA r : table[r].archived \in D)
  BY DEF Where, RowUsed
<1>2. /\ Where(LAMBDA r : table[r].status = "active")' = Where(LAMBDA r : table[r].status = "active")
      /\ ActiveTagged' = ActiveTagged
  BY DEF Where, RowUsed, ActiveTagged
<1>3. ASSUME NEW D PROVE ContactCounts(D)' = ContactCounts(D)
  BY <1>1 DEF ContactCounts, Where
<1>4. ContactsSummary(days)' = ContactsSummary(days)
  BY <1>2, <1>3 DEF ContactsSummary, Where
<1>5. ByDay(days, ContactCounts)' = ByDay(days, ContactCounts)
  BY <1>3 DEF ByDay
<1>6. QED
  BY <1>2, <1>4, <1>5 DEF ContactsAnswer

LEMMA DealsSame ==
  ASSUME UNCHANGED table, report'.currency = report.currency, NEW q, NEW days
  PROVE  DealsAnswer(q, days)' = DealsAnswer(q, days)
<1>1. DealsOf(report.currency)' = DealsOf(report.currency)
  BY DEF DealsOf, Where, RowUsed
<1>2. ASSUME NEW D, NEW deals
      PROVE  /\ {r \in deals : table[r].created \in D}' = {r \in deals : table[r].created \in D}
             /\ {r \in deals : table[r].won \in D}' = {r \in deals : table[r].won \in D}
             /\ {r \in deals : table[r].lost \in D}' = {r \in deals : table[r].lost \in D}
             /\ {r \in deals : table[r].status = "open"}' = {r \in deals : table[r].status = "open"}
  OBVIOUS
<1>3. ASSUME NEW D, NEW deals
      PROVE  DealCounts(D, deals)' = DealCounts(D, deals)
  BY <1>2 DEF DealCounts
<1>4. ASSUME NEW D, NEW deals
      PROVE  DealsSummary(D, deals)' = DealsSummary(D, deals)
  BY <1>2, <1>3 DEF DealsSummary
<1>5. \A o : {r \in DealsOf(report.currency) : table[r].owner = o}' =
              {r \in DealsOf(report.currency) : table[r].owner = o}
  BY <1>1
<1>6. QED
  BY <1>1, <1>3, <1>4, <1>5 DEF DealsAnswer, ByDay

LEMMA EmailsSame ==
  ASSUME UNCHANGED table, NEW q, NEW days
  PROVE  EmailsAnswer(q, days)' = EmailsAnswer(q, days)
<1>1. Where(LAMBDA r : TRUE)' = Where(LAMBDA r : TRUE)
  BY DEF Where, RowUsed
<1>2. ASSUME NEW s
      PROVE  Where(LAMBDA r : table[r].source = s)' = Where(LAMBDA r : table[r].source = s)
  BY DEF Where, RowUsed
<1>3. ASSUME NEW D, NEW R
      PROVE  EmailCounts(D, R)' = EmailCounts(D, R)
  <2> DEFINE Sent(S) == {r \in S : table[r].status # "queued" /\ table[r].created \in D}
             Event(j, type) == j[2] # Null /\ j[2][1] = type
             Arrived(J) == {j \in J : table[j[1]].status = "delivered" \/ Event(j, "delivered")}
             Bounced(J) == {j \in J : Event(j, "bounced")}
             Counts(S) == LET J == LeftJoin(S, "events")
                          IN [sends |-> CountDistinct(J), delivered |-> CountDistinct(Arrived(J)),
                              bounces |-> CountDistinct(Bounced(J))]
  <2>1. Sent(R)' = Sent(R)
    OBVIOUS
  <2>2. ASSUME NEW S PROVE LeftJoin(S, "events")' = LeftJoin(S, "events")
    BY DEF LeftJoin
  <2>3. ASSUME NEW J PROVE Arrived(J)' = Arrived(J) /\ CountDistinct(J)' = CountDistinct(J)
    BY DEF CountDistinct
  <2>4. ASSUME NEW S PROVE Counts(S)' = Counts(S)
    BY <2>2, <2>3
  <2>5. EmailCounts(D, R) = Counts(Sent(R)) /\ EmailCounts(D, R)' = Counts(Sent(R))'
    BY DEF EmailCounts
  <2> HIDE DEF Sent, Counts
  <2>6. QED
    BY <2>1, <2>4, <2>5
<1>4. QED
  BY <1>1, <1>2, <1>3 DEF EmailsAnswer, ByDay, Where, RowUsed

LEMMA AutomationsSame ==
  ASSUME UNCHANGED table, NEW q, NEW days
  PROVE  AutomationsAnswer(q, days)' = AutomationsAnswer(q, days)
<1>1. ASSUME NEW a
      PROVE  Where(LAMBDA r : table[r].automation = a)' = Where(LAMBDA r : table[r].automation = a)
  BY DEF Where, RowUsed
<1>2. ASSUME NEW R
      PROVE  EnrollmentCounts(days, R)' = EnrollmentCounts(days, R)
  <2> DEFINE Entered(J) == {j \in J : table[j[1]].entered \in days}
             Completed(J) == {j \in J : table[j[1]].completed \in days}
             Counts(J) == [entries |-> CountDistinct(Entered(J)),
                           completions |-> CountDistinct(Completed(J)),
                           sends |-> Cardinality({j \in J : j[2] \in days})]
  <2>1. LeftJoin(R, "sends")' = LeftJoin(R, "sends")
    BY DEF LeftJoin
  <2>2. ASSUME NEW J PROVE /\ Entered(J)' = Entered(J) /\ Completed(J)' = Completed(J)
                           /\ CountDistinct(J)' = CountDistinct(J)
    BY DEF CountDistinct
  <2>3. ASSUME NEW J PROVE Counts(J)' = Counts(J)
    BY <2>2
  <2>4. EnrollmentCounts(days, R) = Counts(LeftJoin(R, "sends"))
        /\ EnrollmentCounts(days, R)' = Counts(LeftJoin(R, "sends"))'
    BY DEF EnrollmentCounts
  <2> HIDE DEF Counts
  <2>5. QED
    BY <2>1, <2>3, <2>4
<1> DEFINE of == [a \in Automations |->
                    EnrollmentCounts(days, Where(LAMBDA r : table[r].automation = a))]
<1>3. of' = of
  BY <1>1, <1>2 DEF Where, RowUsed
<1>4. AutomationTotals(days)' = AutomationTotals(days)
  <2>1. /\ AutomationTotals(days) = [f \in {"entries", "completions", "sends"} |-> SumOf(of, f, Automations)]
        /\ AutomationTotals(days)' = [f \in {"entries", "completions", "sends"} |-> SumOf(of', f, Automations)]
    BY DEF AutomationTotals
  <2> HIDE DEF of
  <2>2. QED
    BY <1>3, <2>1
<1>5. ASSUME NEW D
      PROVE  EnrollmentTrend(D)' = EnrollmentTrend(D)
  <2>1. /\ EnteredRows(D)' = EnteredRows(D) /\ CompletedRows(D)' = CompletedRows(D)
    BY DEF EnteredRows, CompletedRows, RowUsed
  <2>2. /\ EnrollmentTrend(D) = [entries |-> Cardinality(EnteredRows(D)),
                                 completions |-> Cardinality(CompletedRows(D))]
        /\ EnrollmentTrend(D)' = [entries |-> Cardinality(EnteredRows(D)'),
                                  completions |-> Cardinality(CompletedRows(D)')]
    BY DEF EnrollmentTrend, Where, EnteredRows, CompletedRows
  <2>3. QED
    BY <2>1, <2>2
<1>6. QED
  BY <1>4, <1>5 DEF AutomationsAnswer, ByDay

LEMMA SiteSame ==
  ASSUME UNCHANGED table, NEW q, NEW days
  PROVE  SiteAnswer(q, days)' = SiteAnswer(q, days)
<1>1. PageViews' = PageViews /\ \A D : Submitted(D)' = Submitted(D)
  BY DEF PageViews, Submitted, Where, RowUsed
<1>2. ASSUME NEW D, NEW views
      PROVE  PageCounts(D, views)' = PageCounts(D, views)
  <2> DEFINE Counts(S) == [pageViews |-> Cardinality(S), uniqueVisitors |-> Cardinality(Viewers(S)),
                           identified |-> Cardinality(Identified(S))]
  <2>1. {r \in views : table[r].day \in D}' = {r \in views : table[r].day \in D}
    OBVIOUS
  <2>2. ASSUME NEW S PROVE Counts(S)' = Counts(S)
    <3>1. Viewers(S)' = Viewers(S) /\ Identified(S)' = Identified(S)
      BY DEF Viewers, Viewer, Identified
    <3>2. QED
      BY <3>1
  <2>3. /\ PageCounts(D, views) = Counts({r \in views : table[r].day \in D})
        /\ PageCounts(D, views)' = Counts({r \in views : table[r].day \in D})'
    BY DEF PageCounts, Viewers, Viewer, Identified
  <2> HIDE DEF Counts
  <2>4. QED
    BY <2>1, <2>2, <2>3
<1>3. FormSummary(days)' = FormSummary(days)
  <2>1. ({table[r].contact : r \in Submitted(days)} \ {Null})' = {table[r].contact : r \in Submitted(days)} \ {Null}
    BY <1>1
  <2>2. QED
    BY <1>1, <2>1 DEF FormSummary
<1>4. ASSUME NEW D
      PROVE  SiteTrend(D)' = SiteTrend(D)
  <2>1. {r \in PageViews : table[r].day \in D}' = {r \in PageViews : table[r].day \in D}
    BY <1>1
  <2>2. QED
    BY <1>1, <2>1 DEF SiteTrend
<1>5. \A u : {r \in PageViews : table[r].url = u}' = {r \in PageViews : table[r].url = u}
  BY <1>1
<1>6. QED
  BY <1>1, <1>2, <1>3, <1>4, <1>5 DEF SiteAnswer, ByDay

LEMMA AnswerSame ==
  ASSUME UNCHANGED <<category, table>>, report'.currency = report.currency, NEW q, NEW days
  PROVE  AnswerTo(q, days)' = AnswerTo(q, days)
BY ContactsSame, DealsSame, EmailsSame, AutomationsSame, SiteSame DEF AnswerTo

ReportInv == ReportTyped /\ RowsTyped /\ UpToDate /\ Counted

\* A report of which no query has been answered.
Unanswered(rep) ==
  /\ rep = [asked |-> rep.asked, range |-> rep.range, currency |-> rep.currency,
            answers |-> rep.answers, torn |-> rep.torn]
  /\ rep.range \in Days \X Days /\ rep.range[1] <= rep.range[2]
  /\ rep.currency \in Currencies
  /\ rep.asked \in BOOLEAN /\ rep.torn \in BOOLEAN
  /\ DOMAIN rep.answers = {}

LEMMA NoReportTyped == Unanswered(NoReport)
BY ReportsAssumption DEF Unanswered, NoReport, Days, Currencies

LEMMA ReportInvInit ==
  ASSUME ReportInit
  PROVE  ReportInv
<1>1. ReportTyped
  <2>1. report = NoReport /\ category \in Categories /\ today = 1
    BY DEF ReportInit
  <2>2. today \in Days
    BY <2>1, ReportsAssumption DEF Days
  <2>3. table = [r \in RowIds |-> table[r]]
    BY DEF ReportInit
  <2>4. QED
    BY <2>1, <2>2, <2>3, NoReportTyped DEF ReportTyped, Unanswered
<1>2. RowsTyped
  BY DEF ReportInit, RowsTyped, RowUsed
<1>3. UpToDate /\ Counted
  BY NoReportTyped DEF ReportInit, UpToDate, Counted, Unanswered
<1>4. QED
  BY <1>1, <1>2, <1>3 DEF ReportInv

\* A row is written; a report that runs is torn.
LEMMA RowTears ==
  ASSUME ReportInv, NEW r \in RowIds, NEW row, WriteRow(r, row), row \in RowRecord /\ Dated(row)
  PROVE  ReportInv'
<1>1. /\ table' = [table EXCEPT ![r] = row]
      /\ report' = [report EXCEPT !.torn = report.asked]
      /\ category' = category /\ today' = today
  BY DEF WriteRow
<1>2. /\ report'.asked = report.asked /\ report'.range = report.range
      /\ report'.currency = report.currency /\ report'.answers = report.answers
      /\ report'.torn = report.asked
      /\ report' = [asked |-> report'.asked, range |-> report'.range, currency |-> report'.currency,
                    answers |-> report'.answers, torn |-> report'.torn]
  BY <1>1 DEF ReportInv, ReportTyped
<1>3. ReportTyped'
  <2>1. table' = [s \in RowIds |-> table'[s]]
    BY <1>1 DEF ReportInv, ReportTyped
  <2>2. Queries' = Queries
    BY <1>1 DEF Queries
  <2>3. QED
    BY <1>1, <1>2, <2>1, <2>2 DEF ReportInv, ReportTyped
<1>4. RowsTyped'
  <2>1. RowRecord' = RowRecord /\ \A x : Dated(x)' = Dated(x)
    BY <1>1 DEF RowRecord, Dated
  <2>2. \A s \in RowIds : table'[s] = IF s = r THEN row ELSE table[s]
    BY <1>1 DEF ReportInv, ReportTyped
  <2>3. QED
    BY <2>1, <2>2 DEF ReportInv, RowsTyped, RowUsed
<1>5. UpToDate'
  <2>1. CASE report.asked
    BY <1>2, <2>1 DEF UpToDate
  <2>2. CASE ~report.asked
    <3>1. DOMAIN report'.answers = {}
      BY <1>2, <2>2 DEF ReportInv, ReportTyped
    <3>2. QED
      BY <3>1 DEF UpToDate
  <2>3. QED
    BY <2>1, <2>2
<1>6. Counted'
  BY <1>1, <1>2 DEF ReportInv, Counted
<1>7. QED
  BY <1>3, <1>4, <1>5, <1>6 DEF ReportInv

LEMMA UsedRow ==
  ASSUME ReportInv, NEW r \in RowIds, RowUsed(r)
  PROVE  table[r] \in RowRecord /\ Dated(table[r])
BY DEF ReportInv, RowsTyped

LEMMA ContactWritten ==
  ASSUME ReportInv, category = "contacts", NEW r \in RowIds, NEW flag \in BOOLEAN,
         AddContact(r, flag) \/ SetContactArchived(r, flag)
  PROVE  ReportInv'
<1>1. today \in Days /\ today \in When /\ Never \in When
  BY ReportsAssumption DEF ReportInv, ReportTyped, Days, When, Never
<1>2. CASE AddContact(r, flag)
  <2> DEFINE row == [created |-> today, status |-> "active", archived |-> Never, tagged |-> flag]
  <2>1. WriteRow(r, row)
    BY <1>2 DEF AddContact, InsertRow
  <2>2. row \in RowRecord /\ Dated(row)
    BY <1>1 DEF RowRecord, ContactRecord, Dated
  <2> HIDE DEF row
  <2>3. QED
    BY <2>1, <2>2, RowTears
<1>3. CASE SetContactArchived(r, flag)
  <2> DEFINE row == [table[r] EXCEPT !.status = IF flag THEN "archived" ELSE "active",
                                     !.archived = IF flag THEN today ELSE Never]
  <2>1. WriteRow(r, row) /\ table[r] \in ContactRecord
    BY <1>3, UsedRow DEF SetContactArchived, RowRecord
  <2>2. row \in RowRecord /\ Dated(row)
    BY <1>1, <2>1 DEF RowRecord, ContactRecord, Dated
  <2> HIDE DEF row
  <2>3. QED
    BY <2>1, <2>2, RowTears
<1>4. QED
  BY <1>2, <1>3

LEMMA DealWritten ==
  ASSUME ReportInv, category = "deals", NEW r \in RowIds, NEW s \in {"open", "won", "lost"},
         NEW o \in Owners, NEW c \in Currencies,
         CreateDeal(r, s, o, c) \/ UpdateDeal(r, s, o, c) \/ ArchiveDealRow(r)
  PROVE  ReportInv'
<1>1. today \in Days /\ today \in When /\ Never \in When
  BY ReportsAssumption DEF ReportInv, ReportTyped, Days, When, Never
<1>2. CASE CreateDeal(r, s, o, c)
  <2> DEFINE row == [created |-> today, status |-> s, owner |-> o, currency |-> c,
                     won |-> IF s = "won" THEN today ELSE Never,
                     lost |-> IF s = "lost" THEN today ELSE Never, archived |-> FALSE]
  <2>1. WriteRow(r, row)
    BY <1>2 DEF CreateDeal, InsertRow
  <2>2. row \in RowRecord /\ Dated(row)
    BY <1>1 DEF RowRecord, DealRecord, Dated
  <2> HIDE DEF row
  <2>3. QED
    BY <2>1, <2>2, RowTears
<1>3. CASE UpdateDeal(r, s, o, c)
  <2> DEFINE row == [table[r] EXCEPT
                       !.status = s, !.owner = o, !.currency = c,
                       !.won = IF s # "won" THEN Never ELSE IF table[r].status = "won" THEN @ ELSE today,
                       !.lost = IF s # "lost" THEN Never ELSE IF table[r].status = "lost" THEN @ ELSE today]
  <2>1. WriteRow(r, row) /\ table[r] \in DealRecord
    BY <1>3, UsedRow DEF UpdateDeal, RowRecord
  <2>2. row \in RowRecord /\ Dated(row)
    BY <1>1, <2>1 DEF RowRecord, DealRecord, Dated
  <2> HIDE DEF row
  <2>3. QED
    BY <2>1, <2>2, RowTears
<1>4. CASE ArchiveDealRow(r)
  <2> DEFINE row == [table[r] EXCEPT !.archived = TRUE]
  <2>1. WriteRow(r, row) /\ table[r] \in DealRecord /\ Dated(table[r])
    BY <1>4, UsedRow DEF ArchiveDealRow, RowRecord
  <2>2. row \in RowRecord /\ Dated(row)
    BY <2>1 DEF RowRecord, DealRecord, Dated
  <2> HIDE DEF row
  <2>3. QED
    BY <2>1, <2>2, RowTears
<1>5. QED
  BY <1>2, <1>3, <1>4

LEMMA DeliveryWritten ==
  ASSUME ReportInv, category = "emails", NEW r \in RowIds, NEW s \in SendSources, NEW event \in ProviderEvents,
         \/ CreateDelivery(r, s) \/ AcceptDelivery(r) \/ FailDelivery(r)
         \/ ApplyDeliveryEvent(r, event)
  PROVE  ReportInv'
<1>1. today \in Days
  BY DEF ReportInv, ReportTyped
<1>2. CASE CreateDelivery(r, s)
  <2> DEFINE row == [created |-> today, status |-> "queued", source |-> s, events |-> {}]
  <2>1. WriteRow(r, row)
    BY <1>2 DEF CreateDelivery, InsertRow
  <2>2. row \in RowRecord /\ Dated(row)
    BY <1>1 DEF RowRecord, DeliveryRecord, Dated
  <2> HIDE DEF row
  <2>3. QED
    BY <2>1, <2>2, RowTears
<1>3. CASE AcceptDelivery(r)
  <2> DEFINE row == [table[r] EXCEPT !.status = "accepted", !.events = {<<"accepted", 1>>}]
  <2>1. WriteRow(r, row) /\ table[r] \in DeliveryRecord
    BY <1>3, UsedRow DEF AcceptDelivery, RowRecord
  <2>2. {<<"accepted", 1>>} \in SUBSET DeliveryEvents
    BY DEF DeliveryEvents
  <2>3. row \in RowRecord /\ Dated(row)
    BY <2>1, <2>2 DEF RowRecord, DeliveryRecord, Dated
  <2> HIDE DEF row
  <2>4. QED
    BY <2>1, <2>3, RowTears
<1>4. CASE FailDelivery(r)
  <2> DEFINE row == [table[r] EXCEPT !.status = "failed"]
  <2>1. WriteRow(r, row) /\ table[r] \in DeliveryRecord
    BY <1>4, UsedRow DEF FailDelivery, RowRecord
  <2>2. row \in RowRecord /\ Dated(row)
    BY <2>1 DEF RowRecord, DeliveryRecord, Dated
  <2> HIDE DEF row
  <2>3. QED
    BY <2>1, <2>2, RowTears
<1>5. CASE ApplyDeliveryEvent(r, event)
  <2> DEFINE row == [table[r] EXCEPT !.status = IF event[1] = "delivered" THEN "delivered" ELSE "failed",
                                     !.events = @ \cup {event}]
  <2>1. WriteRow(r, row) /\ table[r] \in DeliveryRecord
    BY <1>5, UsedRow DEF ApplyDeliveryEvent, RowRecord
  <2>2. table[r].events \cup {event} \in SUBSET DeliveryEvents
    BY <2>1 DEF DeliveryRecord, DeliveryEvents
  <2>3. row \in RowRecord /\ Dated(row)
    BY <2>1, <2>2 DEF RowRecord, DeliveryRecord, Dated
  <2> HIDE DEF row
  <2>4. QED
    BY <2>1, <2>3, RowTears
<1>6. QED
  BY <1>2, <1>3, <1>4, <1>5

LEMMA EnrollmentWritten ==
  ASSUME ReportInv, category = "automations", NEW r \in RowIds, NEW a \in Automations,
         Enroll(r, a) \/ SendStep(r) \/ CompleteEnrollment(r)
  PROVE  ReportInv'
<1>1. today \in Days /\ today \in When /\ Never \in When
  BY ReportsAssumption DEF ReportInv, ReportTyped, Days, When, Never
<1>2. CASE Enroll(r, a)
  <2> DEFINE row == [automation |-> a, entered |-> today, completed |-> Never, sends |-> {}]
  <2>1. WriteRow(r, row)
    BY <1>2 DEF Enroll, InsertRow
  <2>2. row \in RowRecord /\ Dated(row)
    BY <1>1 DEF RowRecord, EnrollmentRecord, Dated
  <2> HIDE DEF row
  <2>3. QED
    BY <2>1, <2>2, RowTears
<1>3. CASE SendStep(r)
  <2> DEFINE row == [table[r] EXCEPT !.sends = @ \cup {today}]
  <2>1. WriteRow(r, row) /\ table[r] \in EnrollmentRecord
    BY <1>3, UsedRow DEF SendStep, RowRecord
  <2>2. row \in RowRecord /\ Dated(row)
    BY <1>1, <2>1 DEF RowRecord, EnrollmentRecord, Dated
  <2> HIDE DEF row
  <2>3. QED
    BY <2>1, <2>2, RowTears
<1>4. CASE CompleteEnrollment(r)
  <2> DEFINE row == [table[r] EXCEPT !.completed = today]
  <2>1. WriteRow(r, row) /\ table[r] \in EnrollmentRecord
    BY <1>4, UsedRow DEF CompleteEnrollment, RowRecord
  <2>2. row \in RowRecord /\ Dated(row)
    BY <1>1, <2>1 DEF RowRecord, EnrollmentRecord, Dated
  <2> HIDE DEF row
  <2>3. QED
    BY <2>1, <2>2, RowTears
<1>5. QED
  BY <1>2, <1>3, <1>4

LEMMA SiteWritten ==
  ASSUME ReportInv, category = "site", NEW r \in RowIds, NEW v \in Visitors, NEW p \in Persons, NEW u \in Urls,
         RecordPageView(r, v, p, u) \/ SubmitForm(r, p)
  PROVE  ReportInv'
<1>1. today \in Days
  BY DEF ReportInv, ReportTyped
<1>2. CASE RecordPageView(r, v, p, u)
  <2> DEFINE row == [table |-> "event", day |-> today, visitor |-> v, contact |-> p, url |-> u]
  <2>1. WriteRow(r, row)
    BY <1>2 DEF RecordPageView, InsertRow
  <2>2. row \in RowRecord /\ Dated(row)
    BY <1>1 DEF RowRecord, PageView, Dated
  <2> HIDE DEF row
  <2>3. QED
    BY <2>1, <2>2, RowTears
<1>3. CASE SubmitForm(r, p)
  <2> DEFINE row == [table |-> "submission", day |-> today, contact |-> p]
  <2>1. WriteRow(r, row)
    BY <1>3 DEF SubmitForm, InsertRow
  <2>2. row \in RowRecord /\ Dated(row)
    BY <1>1 DEF RowRecord, Submission, Dated
  <2> HIDE DEF row
  <2>3. QED
    BY <2>1, <2>2, RowTears
<1>4. QED
  BY <1>2, <1>3

LEMMA WriteKeeps ==
  ASSUME ReportInv, WriteNext
  PROVE  ReportInv'
<1>1. PICK r \in RowIds :
        \/ /\ category = "contacts"
           /\ \E flag \in BOOLEAN : AddContact(r, flag) \/ SetContactArchived(r, flag)
        \/ /\ category = "deals"
           /\ \/ \E s \in {"open", "won", "lost"}, o \in Owners :
                   \E c \in Currencies : CreateDeal(r, s, o, c) \/ UpdateDeal(r, s, o, c)
              \/ ArchiveDealRow(r)
        \/ /\ category = "emails"
           /\ \/ \E s \in SendSources : CreateDelivery(r, s)
              \/ AcceptDelivery(r) \/ FailDelivery(r)
              \/ \E event \in ProviderEvents : ApplyDeliveryEvent(r, event)
        \/ /\ category = "automations"
           /\ (\E a \in Automations : Enroll(r, a)) \/ SendStep(r) \/ CompleteEnrollment(r)
        \/ /\ category = "site"
           /\ \/ \E v \in Visitors, p \in Persons, u \in Urls : RecordPageView(r, v, p, u)
              \/ \E p \in Persons : SubmitForm(r, p)
  BY DEF WriteNext
<1>2. /\ "open" \in {"open", "won", "lost"} /\ "member" \in Owners /\ "JPY" \in Currencies
      /\ "other" \in SendSources /\ <<"bounced", 1>> \in ProviderEvents /\ "welcome" \in Automations
      /\ "browser" \in Visitors /\ "/" \in Urls
  BY DEF Owners, Currencies, SendSources, ProviderEvents, Automations, Visitors, Urls
<1>3. CASE category = "contacts"
  BY <1>1, <1>3, ContactWritten
<1>4. CASE category = "deals"
  BY <1>1, <1>2, <1>4, DealWritten
<1>5. CASE category = "emails"
  BY <1>1, <1>2, <1>5, DeliveryWritten
<1>6. CASE category = "automations"
  BY <1>1, <1>2, <1>6, EnrollmentWritten
<1>7. CASE category = "site"
  BY <1>1, <1>2, <1>7, SiteWritten
<1>8. QED
  BY <1>1, <1>3, <1>4, <1>5, <1>6, <1>7

LEMMA RowsStay ==
  ASSUME RowsTyped, UNCHANGED <<category, table>>
  PROVE  RowsTyped'
BY DEF RowsTyped, RowUsed, RowRecord, Dated

LEMMA ReportStarts ==
  ASSUME ReportInv, UNCHANGED <<category, today, table>>, Unanswered(report')
  PROVE  ReportInv'
<1>1. ReportTyped'
  BY DEF ReportInv, ReportTyped, Unanswered
<1>2. RowsTyped'
  BY RowsStay DEF ReportInv
<1>3. UpToDate' /\ Counted'
  BY DEF UpToDate, Counted, Unanswered
<1>4. QED
  BY <1>1, <1>2, <1>3 DEF ReportInv

LEMMA QueryAnswered ==
  ASSUME ReportInv, NEW q \in Queries, AnswerQuery(q)
  PROVE  ReportInv'
<1> DEFINE days == DaysOf(report.range)
           A == [p \in DOMAIN report.answers \cup {q} |->
                   IF p = q THEN AnswerTo(q, days) ELSE report.answers[p]]
<1>1. /\ report.asked /\ q \notin DOMAIN report.answers
      /\ report' = [report EXCEPT !.answers = A]
      /\ UNCHANGED <<category, today, table>>
  BY DEF AnswerQuery
<1>2. days \in SUBSET Days
  BY ReportsAssumption DEF ReportInv, ReportTyped, DaysOf, Days
<1>3. DOMAIN A = DOMAIN report.answers \cup {q}
  OBVIOUS
<1>4. \A p \in DOMAIN A : A[p] = IF p = q THEN AnswerTo(q, days) ELSE report.answers[p]
  OBVIOUS
<1> HIDE DEF A
<1>5. /\ report'.asked = report.asked /\ report'.range = report.range
      /\ report'.currency = report.currency /\ report'.torn = report.torn /\ report'.answers = A
      /\ report' = [asked |-> report'.asked, range |-> report'.range, currency |-> report'.currency,
                    answers |-> report'.answers, torn |-> report'.torn]
  BY <1>1 DEF ReportInv, ReportTyped
<1>6. ReportTyped'
  <2>1. Queries' = Queries
    BY <1>1 DEF Queries
  <2>2. QED
    BY <1>1, <1>3, <1>5, <2>1 DEF ReportInv, ReportTyped
<1>7. RowsTyped'
  BY <1>1, RowsStay DEF ReportInv
<1> HIDE DEF days
<1>8. UpToDate'
  <2> SUFFICES ASSUME ~report'.torn, NEW p \in DOMAIN report'.answers
               PROVE  report'.answers[p] = AnswerTo(p, DaysOf(report.range))'
    BY DEF UpToDate
  <2>1. DaysOf(report.range)' = days
    BY <1>5 DEF days, DaysOf
  <2>2. ASSUME NEW D PROVE AnswerTo(p, D)' = AnswerTo(p, D)
    BY <1>1, <1>5, AnswerSame
  <2>3. AnswerTo(p, DaysOf(report.range))' = AnswerTo(p, days)
    BY <2>1, <2>2
  <2>4. A[p] = AnswerTo(p, days)
    BY <1>3, <1>4, <1>5 DEF ReportInv, UpToDate, days
  <2>5. QED
    BY <1>5, <2>3, <2>4
<1>9. Counted'
  <2> SUFFICES ASSUME "summary" \in DOMAIN A
               PROVE  Once(category, A["summary"])
    BY <1>1, <1>5 DEF Counted
  <2>1. CASE q = "summary"
    BY <1>2, <1>4, <2>1, TotalsOnce DEF ReportInv, ReportTyped
  <2>2. CASE q # "summary"
    BY <1>3, <1>4, <2>2 DEF ReportInv, Counted
  <2>3. QED
    BY <2>1, <2>2
<1>10. QED
  BY <1>6, <1>7, <1>8, <1>9 DEF ReportInv

LEMMA ReportInvStep ==
  ASSUME ReportInv, [ReportNext]_reportVars
  PROVE  ReportInv'
<1>1. CASE WriteNext
  BY <1>1, WriteKeeps
<1>2. CASE DayPasses
  <2>1. /\ ~report.asked /\ today' = today + 1 /\ today < LastDay
        /\ UNCHANGED <<category, table, report>>
    BY <1>2 DEF DayPasses
  <2>2. today' \in Days
    BY <2>1, ReportsAssumption DEF ReportInv, ReportTyped, Days
  <2>3. Queries' = Queries
    BY <2>1 DEF Queries
  <2>4. ReportTyped'
    BY <2>1, <2>2, <2>3 DEF ReportInv, ReportTyped
  <2>5. UpToDate' /\ Counted'
    BY <2>1 DEF ReportInv, ReportTyped, UpToDate, Counted
  <2>6. QED
    BY <2>1, <2>4, <2>5, RowsStay DEF ReportInv
<1>3. ASSUME NEW from \in Days, NEW to \in Days, NEW c \in Currencies, from <= to,
             AskReport(<<from, to>>, c)
      PROVE  ReportInv'
  <2> DEFINE rep == [asked |-> TRUE, range |-> <<from, to>>, currency |-> CurrencyShown(c),
                     answers |-> <<>>, torn |-> FALSE]
  <2>1. report' = rep /\ UNCHANGED <<category, today, table>>
    BY <1>3 DEF AskReport
  <2>2. CurrencyShown(c) \in Currencies
    BY DEF CurrencyShown, Currencies
  <2>3. Unanswered(rep)
    BY <1>3, <2>2 DEF Unanswered
  <2> HIDE DEF rep
  <2>4. QED
    BY <2>1, <2>3, ReportStarts
<1>4. ASSUME NEW q \in Queries, AnswerQuery(q)
      PROVE  ReportInv'
  BY <1>4, QueryAnswered
<1>5. CASE ReportShown
  BY <1>5, NoReportTyped, ReportStarts DEF ReportShown
<1>6. CASE UNCHANGED reportVars
  <2>1. UNCHANGED <<category, today, table, report>>
    BY <1>6 DEF reportVars
  <2>2. ReportTyped'
    BY <2>1 DEF ReportInv, ReportTyped, Queries
  <2>3. UpToDate'
    <3> SUFFICES ASSUME ~report.torn, NEW p \in DOMAIN report.answers
                 PROVE  report.answers[p] = AnswerTo(p, DaysOf(report.range))'
      BY <2>1 DEF UpToDate
    <3>1. DaysOf(report.range)' = DaysOf(report.range)
      BY <2>1 DEF DaysOf
    <3> DEFINE days == DaysOf(report.range)
    <3>2. report.answers[p] = AnswerTo(p, days)
      BY DEF ReportInv, UpToDate
    <3>3. ASSUME NEW D PROVE AnswerTo(p, D)' = AnswerTo(p, D)
      BY <2>1, AnswerSame
    <3>4. QED
      BY <3>1, <3>2, <3>3
  <2>4. Counted'
    BY <2>1 DEF ReportInv, Counted
  <2>5. QED
    BY <2>1, <2>2, <2>3, <2>4, RowsStay DEF ReportInv
<1>7. QED
  BY <1>1, <1>2, <1>3, <1>4, <1>5, <1>6 DEF ReportNext

LEMMA InvAddsUp ==
  ASSUME ReportInv
  PROVE  ReportsAddUp
<1> SUFFICES ASSUME ~report.torn, NEW t \in DOMAIN report.answers \cap Totals,
                    NEW b \in DOMAIN report.answers \ Totals, NEW f \in DOMAIN report.answers[t]
             PROVE  LET parts == {k \in DOMAIN report.answers[b] : f \in DOMAIN report.answers[b][k]}
                    IN parts # {} =>
                         IF b \in Partial
                         THEN \A k \in parts : report.answers[b][k][f] <= report.answers[t][f]
                         ELSE f \in Additive => SumOf(report.answers[b], f, parts) = report.answers[t][f]
  <2>1. CountedOnce
    BY DEF ReportInv, ReportTyped, Counted, CountedOnce, Once, Categories
  <2>2. QED
    BY <2>1 DEF ReportsAddUp, BreakdownsAddUp
<1> DEFINE days == DaysOf(report.range)
<1>1. days \in SUBSET Days
  BY ReportsAssumption DEF ReportInv, ReportTyped, DaysOf, Days
<1>2. t \in Queries \cap Totals /\ b \in Queries \ Totals
  BY DEF ReportInv, ReportTyped
<1>3. report.answers[t] = AnswerTo(t, days) /\ report.answers[b] = AnswerTo(b, days)
  BY DEF ReportInv, UpToDate
<1> HIDE DEF days
<1>4. Tally(report.answers[t], report.answers[b], b)
  BY <1>1, <1>2, <1>3, AnswersTally DEF ReportInv, ReportTyped
<1>5. QED
  BY <1>4 DEF Tally, PartsOf, Sums

(* The invariant is one of every behaviour.                                *)
LEMMA ReportAlwaysInv == ReportSpec => []ReportInv
<1>1. ReportInit => ReportInv
  BY ReportInvInit
<1>2. ReportInv /\ [ReportNext]_reportVars => ReportInv'
  BY ReportInvStep
<1>3. QED
  BY <1>1, <1>2, PTL DEF ReportSpec

(* However rows are written between the queries of a report, and for any   *)
(* number of them: unless one was, the days, owners, sources or            *)
(* automations add up to the totals and no tag or page exceeds them; and   *)
(* even then no row is counted twice in a total.  (reports/repository.ts)  *)
THEOREM ReportsAlwaysAddUp == ReportSpec => []ReportsAddUp
<1>1. ReportInv => ReportsAddUp
  BY InvAddsUp
<1>2. QED
  BY <1>1, ReportAlwaysInv, PTL

(* The invariant has the types the runs check.                             *)
LEMMA ReportTypes == ReportInv => ReportTypeOK
BY DEF ReportInv, ReportTyped, RowsTyped, RowRecord, RowUsed, ReportTypeOK
=============================================================================
