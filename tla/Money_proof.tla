---------------------------- MODULE Money_proof ----------------------------
(* Facts about the money arithmetic, for every finite set of seats and every *)
(* amount: how sums behave, that the largest-remainder divisions hand out    *)
(* exactly what there is, and how far a rounding can be off.                 *)
EXTENDS Money, FiniteSetTheorems, TLAPS

-----------------------------------------------------------------------------
(* Induction over the subsets of a finite set: a family of subsets that has  *)
(* T whenever it has every T \ {x}, has them all.                            *)

LEMMA SubsetInduction ==
  ASSUME NEW D, IsFiniteSet(D), NEW P,
         \A T \in SUBSET D : (\A x \in T : T \ {x} \in P) => T \in P
  PROVE  SUBSET D \subseteq P
<1> DEFINE Bad == (SUBSET D) \ P
           Smaller == StrictSubsetOrdering(D)
<1>1. IsWellFoundedOn(Smaller, SUBSET D)
  BY FS_StrictSubsetOrderingWellFounded, FS_FiniteSubsetsOfFinite
<1>2. \A T \in SUBSET D : \A x \in T : <<T \ {x}, T>> \in Smaller
  BY DEF StrictSubsetOrdering
<1> HIDE DEF Smaller
<1>3. SUFFICES ASSUME Bad # {} PROVE FALSE
  OBVIOUS
<1>4. PICK T \in Bad : \A U \in Bad : ~(<<U, T>> \in Smaller)
  <2>1. Bad \subseteq SUBSET D
    OBVIOUS
  <2> HIDE DEF Bad
  <2>2. QED
    BY <1>1, <1>3, <2>1, WFMin
<1>5. ASSUME NEW x \in T PROVE T \ {x} \in P
  <2>1. T \ {x} \in SUBSET D /\ T \in SUBSET D
    OBVIOUS
  <2>2. <<T \ {x}, T>> \in Smaller
    BY <1>2, <2>1
  <2>3. QED
    BY <1>4, <2>1, <2>2
<1>6. QED
  BY <1>5

-----------------------------------------------------------------------------
(* Sums *)

\* The library sums a function over the subsets of its domain by taking out one
\* element after another
Picked(T) == CHOOSE x \in T : TRUE
IsSum(iter, f) ==
  iter = [T \in SUBSET DOMAIN f |->
            IF T = {} THEN 0
            ELSE f[CHOOSE x \in T : TRUE] + iter[T \ {CHOOSE x \in T : TRUE}]]
SumOn(f, T) == (CHOOSE iter : IsSum(iter, f))[T]

LEMMA TotalIsSum ==
  ASSUME NEW f
  PROVE  Total(f) = SumOn(f, DOMAIN f)
BY DEF Total, SumFunction, SumFunctionOnSet, FoldFunctionOnSet, MapThenFoldSet, SumOn, IsSum

\* Induction on a set of numbers
LEMMA NumbersInduction ==
  ASSUME NEW P, 0 \in P, \A n \in Nat : n \in P => n + 1 \in P
  PROVE  Nat \subseteq P
<1> DEFINE Bad == Nat \ P
           Less == OpToRel(<, Nat)
<1>1. IsWellFoundedOn(Less, Nat)
  BY NatLessThanWellFounded
<1>2. \A x, y \in Nat : x < y => <<x, y>> \in Less
  BY DEF OpToRel
<1> HIDE DEF Less
<1>3. SUFFICES ASSUME Bad # {} PROVE FALSE
  OBVIOUS
<1>4. PICK n \in Bad : \A m \in Bad : <<m, n>> \notin Less
  BY <1>1, <1>3, WFMin
<1>5. n \in Nat /\ n # 0 /\ n \notin P
  BY <1>4
<1>6. n - 1 \in Nat /\ n - 1 < n /\ (n - 1) + 1 = n
  BY <1>5
<1>7. n - 1 \in P
  BY <1>2, <1>4, <1>6
<1>8. QED
  BY <1>5, <1>6, <1>7

\* There is such a function: it can be built up by the size of the subsets
LEMMA SumExists ==
  ASSUME NEW f, IsFiniteSet(DOMAIN f)
  PROVE  \E iter : IsSum(iter, f)
<1> DEFINE D == DOMAIN f
           Step(g, T) == IF T = {} THEN 0 ELSE f[Picked(T)] + g[T \ {Picked(T)}]
           Upto(n) == \E g : /\ g = [T \in SUBSET D |-> g[T]]
                             /\ \A T \in SUBSET D : Cardinality(T) <= n => g[T] = Step(g, T)
<1>1. \A T \in SUBSET D : IsFiniteSet(T) /\ Cardinality(T) \in Nat
  BY FS_Subset, FS_CardinalityType
<1>2. \A T \in SUBSET D : T # {} => Picked(T) \in T /\ Cardinality(T \ {Picked(T)}) = Cardinality(T) - 1
  BY <1>1, FS_RemoveElement DEF Picked
<1>3. \A T \in SUBSET D : Cardinality(T) = 0 <=> T = {}
  BY <1>1, FS_EmptySet
<1>4. Upto(0)
  <2> DEFINE g == [T \in SUBSET D |-> 0]
  <2>1. \A T \in SUBSET D : Cardinality(T) <= 0 => g[T] = Step(g, T)
    BY <1>1, <1>3
  <2>2. QED
    BY <2>1
<1>5. ASSUME NEW n \in Nat, Upto(n) PROVE Upto(n + 1)
  <2>1. PICK g : /\ g = [T \in SUBSET D |-> g[T]]
                 /\ \A T \in SUBSET D : Cardinality(T) <= n => g[T] = Step(g, T)
    BY <1>5
  <2> DEFINE h == [T \in SUBSET D |-> Step(g, T)]
  <2>2. ASSUME NEW T \in SUBSET D, Cardinality(T) <= n + 1
        PROVE  h[T] = Step(h, T)
    <3>1. CASE T = {}
      BY <3>1
    <3>2. CASE T # {}
      <4> DEFINE U == T \ {Picked(T)}
      <4>1. U \in SUBSET D /\ Cardinality(U) <= n
        BY <1>1, <1>2, <2>2, <3>2
      <4>2. h[U] = g[U]
        BY <2>1, <4>1
      <4>3. QED
        BY <3>2, <4>2
    <3>3. QED
      BY <3>1, <3>2
  <2>3. QED
    BY <2>2
<1> DEFINE P == {n \in Nat : Upto(n)}
<1>6. \A n \in Nat : Upto(n)
  <2> HIDE DEF Upto
  <2>1. 0 \in P /\ \A n \in Nat : n \in P => n + 1 \in P
    BY <1>4, <1>5
  <2>2. Nat \subseteq P
    <3> HIDE DEF P
    <3> QED BY <2>1, NumbersInduction
  <2>3. QED
    BY <2>2
<1>7. PICK g : /\ g = [T \in SUBSET D |-> g[T]]
               /\ \A T \in SUBSET D : Cardinality(T) <= Cardinality(D) => g[T] = Step(g, T)
  BY <1>1, <1>6
<1>8. \A T \in SUBSET D : g[T] = Step(g, T)
  BY <1>1, <1>7, FS_Subset
<1>9. g = [T \in SUBSET D |-> Step(g, T)]
  BY <1>7, <1>8
<1>10. QED
  BY <1>9 DEF IsSum, Picked

LEMMA SumPicks ==
  ASSUME NEW f, IsFiniteSet(DOMAIN f)
  PROVE  /\ SumOn(f, {}) = 0
         /\ \A T \in SUBSET DOMAIN f :
              T # {} => Picked(T) \in T /\ SumOn(f, T) = f[Picked(T)] + SumOn(f, T \ {Picked(T)})
<1> DEFINE s == CHOOSE iter : IsSum(iter, f)
<1>1. IsSum(s, f)
  BY SumExists
<1>2. \A T : SumOn(f, T) = s[T]
  BY DEF SumOn
<1> HIDE DEF s
<1>3. s = [T \in SUBSET DOMAIN f |->
             IF T = {} THEN 0 ELSE f[Picked(T)] + s[T \ {Picked(T)}]]
  BY <1>1 DEF IsSum, Picked
<1>4. \A T \in SUBSET DOMAIN f : T # {} => Picked(T) \in T
  BY DEF Picked
<1>5. s[{}] = 0
  BY <1>3
<1>6. \A T \in SUBSET DOMAIN f : T # {} => s[T] = f[Picked(T)] + s[T \ {Picked(T)}]
  BY <1>3
<1>7. QED
  BY <1>2, <1>4, <1>5, <1>6

\* A sum of integers is an integer
LEMMA SumType ==
  ASSUME NEW D, IsFiniteSet(D), NEW f \in [D -> Int]
  PROVE  \A T \in SUBSET D : SumOn(f, T) \in Int
<1> DEFINE P == {T \in SUBSET D : SumOn(f, T) \in Int}
<1>1. \A T \in SUBSET D : (\A x \in T : T \ {x} \in P) => T \in P
  <2> SUFFICES ASSUME NEW T \in SUBSET D, \A x \in T : T \ {x} \in P
               PROVE  SumOn(f, T) \in Int
    OBVIOUS
  <2>1. CASE T = {}
    BY <2>1, SumPicks
  <2>2. CASE T # {}
    <3>1. Picked(T) \in T /\ SumOn(f, T) = f[Picked(T)] + SumOn(f, T \ {Picked(T)})
      BY <2>2, SumPicks
    <3>2. SumOn(f, T \ {Picked(T)}) \in Int
      BY <3>1
    <3>3. QED
      BY <3>1, <3>2
  <2>3. QED
    BY <2>1, <2>2
<1> HIDE DEF P
<1>2. SUBSET D \subseteq P
  BY <1>1, SubsetInduction
<1>3. QED
  BY <1>2 DEF P

\* Any element may be taken out first
LEMMA SumTakeOut ==
  ASSUME NEW D, IsFiniteSet(D), NEW f \in [D -> Int], NEW T \in SUBSET D, NEW x \in T
  PROVE  SumOn(f, T) = f[x] + SumOn(f, T \ {x})
<1> DEFINE P == {S \in SUBSET D : \A y \in S : SumOn(f, S) = f[y] + SumOn(f, S \ {y})}
<1>1. \A S \in SUBSET D : (\A y \in S : S \ {y} \in P) => S \in P
  <2> SUFFICES ASSUME NEW S \in SUBSET D, \A y \in S : S \ {y} \in P, NEW y \in S
               PROVE  SumOn(f, S) = f[y] + SumOn(f, S \ {y})
    OBVIOUS
  <2> DEFINE p == Picked(S)
  <2>1. p \in S /\ SumOn(f, S) = f[p] + SumOn(f, S \ {p})
    BY SumPicks
  <2> HIDE DEF p
  <2>2. CASE y = p
    BY <2>1, <2>2
  <2>3. CASE y # p
    <3>1. SumOn(f, S \ {p}) = f[y] + SumOn(f, (S \ {p}) \ {y})
      BY <2>1, <2>3
    <3>2. SumOn(f, S \ {y}) = f[p] + SumOn(f, (S \ {y}) \ {p})
      BY <2>1, <2>3
    <3> DEFINE rest == SumOn(f, (S \ {y}) \ {p})
               w == SumOn(f, S \ {p})
               z == SumOn(f, S \ {y})
    <3>3. (S \ {p}) \ {y} = (S \ {y}) \ {p}
      OBVIOUS
    <3>4. f[p] \in Int /\ f[y] \in Int /\ rest \in Int
      BY <2>1, SumType
    <3>5. w = f[y] + rest /\ z = f[p] + rest
      BY <3>1, <3>2, <3>3
    <3> HIDE DEF rest, w, z
    <3>6. f[p] + w = f[y] + z
      BY <3>4, <3>5
    <3>7. QED
      BY <2>1, <3>6 DEF w, z
  <2>4. QED
    BY <2>2, <2>3
<1> HIDE DEF P
<1>2. SUBSET D \subseteq P
  BY <1>1, SubsetInduction
<1>3. QED
  BY <1>2 DEF P

LEMMA SumEmpty ==
  ASSUME NEW f, IsFiniteSet(DOMAIN f)
  PROVE  SumOn(f, {}) = 0
BY SumPicks

\* Term by term no more, so no more in total
LEMMA SumMonotone ==
  ASSUME NEW D, IsFiniteSet(D), NEW f \in [D -> Int], NEW E, IsFiniteSet(E), NEW g \in [E -> Int],
         NEW T \in SUBSET D, T \subseteq E, \A x \in T : f[x] <= g[x]
  PROVE  SumOn(f, T) <= SumOn(g, T)
<1> DEFINE P == {S \in SUBSET T : SumOn(f, S) <= SumOn(g, S)}
<1>1. \A S \in SUBSET T : (\A x \in S : S \ {x} \in P) => S \in P
  <2> SUFFICES ASSUME NEW S \in SUBSET T, \A x \in S : S \ {x} \in P
               PROVE  SumOn(f, S) <= SumOn(g, S)
    OBVIOUS
  <2>1. CASE S = {}
    BY <2>1, SumEmpty
  <2>2. CASE S # {}
    <3>1. PICK x \in S : TRUE
      BY <2>2
    <3> DEFINE U == S \ {x}
    <3>2. U \in SUBSET D /\ U \in SUBSET E /\ S \in SUBSET D /\ S \in SUBSET E /\ U \in P
      OBVIOUS
    <3>3. SumOn(f, S) = f[x] + SumOn(f, U) /\ SumOn(g, S) = g[x] + SumOn(g, U)
      BY <3>2, SumTakeOut
    <3>4. SumOn(f, U) \in Int /\ SumOn(g, U) \in Int
      BY <3>2, SumType
    <3>5. f[x] \in Int /\ g[x] \in Int /\ f[x] <= g[x] /\ SumOn(f, U) <= SumOn(g, U)
      BY <3>2
    <3> HIDE DEF U
    <3>6. QED
      BY <3>3, <3>4, <3>5
  <2>3. QED
    BY <2>1, <2>2
<1> HIDE DEF P
<1>2. IsFiniteSet(T)
  BY FS_Subset
<1>3. SUBSET T \subseteq P
  BY <1>1, <1>2, SubsetInduction
<1>4. QED
  BY <1>3 DEF P

\* The same terms, so the same sum
LEMMA SumSame ==
  ASSUME NEW D, IsFiniteSet(D), NEW f \in [D -> Int], NEW E, IsFiniteSet(E), NEW g \in [E -> Int],
         NEW T \in SUBSET D, T \subseteq E, \A x \in T : f[x] = g[x]
  PROVE  SumOn(f, T) = SumOn(g, T)
<1>1. \A x \in T : f[x] \in Int /\ g[x] \in Int
  OBVIOUS
<1>2. SumOn(f, T) \in Int /\ SumOn(g, T) \in Int
  BY SumType
<1>3. SumOn(f, T) <= SumOn(g, T)
  BY <1>1, SumMonotone
<1>4. SumOn(g, T) <= SumOn(f, T)
  BY <1>1, SumMonotone
<1>5. QED
  BY <1>2, <1>3, <1>4

\* A sum of sums
LEMMA SumPlus ==
  ASSUME NEW D, IsFiniteSet(D), NEW f \in [D -> Int], NEW g \in [D -> Int], NEW h \in [D -> Int],
         NEW T \in SUBSET D, \A x \in T : h[x] = f[x] + g[x]
  PROVE  SumOn(h, T) = SumOn(f, T) + SumOn(g, T)
<1> DEFINE P == {S \in SUBSET T : SumOn(h, S) = SumOn(f, S) + SumOn(g, S)}
<1>1. \A S \in SUBSET T : (\A x \in S : S \ {x} \in P) => S \in P
  <2> SUFFICES ASSUME NEW S \in SUBSET T, \A x \in S : S \ {x} \in P
               PROVE  SumOn(h, S) = SumOn(f, S) + SumOn(g, S)
    OBVIOUS
  <2>1. CASE S = {}
    BY <2>1, SumEmpty
  <2>2. CASE S # {}
    <3>1. PICK x \in S : TRUE
      BY <2>2
    <3> DEFINE U == S \ {x}
    <3>2. U \in SUBSET D /\ S \in SUBSET D /\ U \in P
      OBVIOUS
    <3>3. /\ SumOn(f, S) = f[x] + SumOn(f, U) /\ SumOn(g, S) = g[x] + SumOn(g, U)
          /\ SumOn(h, S) = h[x] + SumOn(h, U)
      BY <3>2, SumTakeOut
    <3>4. SumOn(f, U) \in Int /\ SumOn(g, U) \in Int
      BY <3>2, SumType
    <3>5. /\ f[x] \in Int /\ g[x] \in Int /\ h[x] = f[x] + g[x]
          /\ SumOn(h, U) = SumOn(f, U) + SumOn(g, U)
      BY <3>2
    <3> HIDE DEF U
    <3>6. QED
      BY <3>3, <3>4, <3>5
  <2>3. QED
    BY <2>1, <2>2
<1> HIDE DEF P
<1>2. IsFiniteSet(T)
  BY FS_Subset
<1>3. SUBSET T \subseteq P
  BY <1>1, <1>2, SubsetInduction
<1>4. QED
  BY <1>3 DEF P

\* A common factor
LEMMA SumTimes ==
  ASSUME NEW D, IsFiniteSet(D), NEW f \in [D -> Int], NEW h \in [D -> Int], NEW a \in Int,
         NEW T \in SUBSET D, \A x \in T : h[x] = a * f[x]
  PROVE  SumOn(h, T) = a * SumOn(f, T)
<1> DEFINE P == {S \in SUBSET T : SumOn(h, S) = a * SumOn(f, S)}
<1>1. \A S \in SUBSET T : (\A x \in S : S \ {x} \in P) => S \in P
  <2> SUFFICES ASSUME NEW S \in SUBSET T, \A x \in S : S \ {x} \in P
               PROVE  SumOn(h, S) = a * SumOn(f, S)
    OBVIOUS
  <2>1. CASE S = {}
    BY <2>1, SumEmpty
  <2>2. CASE S # {}
    <3>1. PICK x \in S : TRUE
      BY <2>2
    <3> DEFINE U == S \ {x}
    <3>2. U \in SUBSET D /\ S \in SUBSET D /\ U \in P
      OBVIOUS
    <3>3. SumOn(f, S) = f[x] + SumOn(f, U) /\ SumOn(h, S) = h[x] + SumOn(h, U)
      BY <3>2, SumTakeOut
    <3>4. f[x] \in Int /\ SumOn(f, U) \in Int
      BY <3>2, SumType
    <3>5. h[x] = a * f[x] /\ SumOn(h, U) = a * SumOn(f, U)
      BY <3>2
    <3>6. \A m, n \in Int : a * (m + n) = a * m + a * n
      OBVIOUS
    <3> HIDE DEF U
    <3>7. QED
      BY <3>3, <3>4, <3>5, <3>6
  <2>3. QED
    BY <2>1, <2>2
<1> HIDE DEF P
<1>2. IsFiniteSet(T)
  BY FS_Subset
<1>3. SUBSET T \subseteq P
  BY <1>1, <1>2, SubsetInduction
<1>4. QED
  BY <1>3 DEF P

\* Two parts of a set
LEMMA SumParts ==
  ASSUME NEW D, IsFiniteSet(D), NEW f \in [D -> Int], NEW A \in SUBSET D, NEW B \in SUBSET D,
         A \cap B = {}
  PROVE  SumOn(f, A \cup B) = SumOn(f, A) + SumOn(f, B)
<1> DEFINE P == {S \in SUBSET A : SumOn(f, S \cup B) = SumOn(f, S) + SumOn(f, B)}
<1>1. \A S \in SUBSET A : (\A x \in S : S \ {x} \in P) => S \in P
  <2> SUFFICES ASSUME NEW S \in SUBSET A, \A x \in S : S \ {x} \in P
               PROVE  SumOn(f, S \cup B) = SumOn(f, S) + SumOn(f, B)
    OBVIOUS
  <2>1. SumOn(f, B) \in Int
    BY SumType
  <2>2. CASE S = {}
    <3>1. SumOn(f, S) = 0 /\ S \cup B = B
      BY <2>2, SumEmpty
    <3>2. QED
      BY <2>1, <3>1
  <2>3. CASE S # {}
    <3>1. PICK x \in S : TRUE
      BY <2>3
    <3> DEFINE U == S \ {x}
    <3>2. /\ U \in SUBSET D /\ S \in SUBSET D /\ S \cup B \in SUBSET D
          /\ (S \cup B) \ {x} = U \cup B /\ x \in S \cup B
      OBVIOUS
    <3>3. SumOn(f, S) = f[x] + SumOn(f, U)
      BY <3>2, SumTakeOut
    <3>4. SumOn(f, S \cup B) = f[x] + SumOn(f, (S \cup B) \ {x})
      BY <3>2, SumTakeOut
    <3>5. SumOn(f, U) \in Int /\ f[x] \in Int
      BY <3>2, SumType
    <3>6. SumOn(f, U \cup B) = SumOn(f, U) + SumOn(f, B)
      OBVIOUS
    <3> DEFINE u == SumOn(f, U)
               b == SumOn(f, B)
               ub == SumOn(f, U \cup B)
    <3>7. SumOn(f, S \cup B) = f[x] + ub
      BY <3>2, <3>4
    <3>8. u \in Int /\ b \in Int /\ ub = u + b /\ SumOn(f, S) = f[x] + u
      BY <2>1, <3>3, <3>5, <3>6
    <3> HIDE DEF U, u, ub, b
    <3>9. f[x] + ub = (f[x] + u) + b
      BY <3>5, <3>8
    <3>10. QED
      BY <3>7, <3>8, <3>9 DEF b
  <2>4. QED
    BY <2>2, <2>3
<1> HIDE DEF P
<1>2. IsFiniteSet(A)
  BY FS_Subset
<1>3. SUBSET A \subseteq P
  BY <1>1, <1>2, SubsetInduction
<1>4. QED
  BY <1>3 DEF P

\* Counting: the sum of the indicator of a set
LEMMA SumCounts ==
  ASSUME NEW D, IsFiniteSet(D), NEW f \in [D -> Int], NEW A \in SUBSET D,
         \A x \in D : f[x] = IF x \in A THEN 1 ELSE 0
  PROVE  SumOn(f, D) = Cardinality(A)
<1> DEFINE P == {S \in SUBSET D : SumOn(f, S) = Cardinality(S \cap A)}
<1>1. \A S \in SUBSET D : (\A x \in S : S \ {x} \in P) => S \in P
  <2> SUFFICES ASSUME NEW S \in SUBSET D, \A x \in S : S \ {x} \in P
               PROVE  SumOn(f, S) = Cardinality(S \cap A)
    OBVIOUS
  <2>1. CASE S = {}
    <3>1. S \cap A = {}
      BY <2>1
    <3>2. QED
      BY <2>1, <3>1, SumEmpty, FS_EmptySet
  <2>2. CASE S # {}
    <3>1. PICK x \in S : TRUE
      BY <2>2
    <3> DEFINE U == S \ {x}
    <3>2. SumOn(f, S) = f[x] + SumOn(f, U) /\ SumOn(f, U) = Cardinality(U \cap A)
      BY SumTakeOut
    <3>3. IsFiniteSet(U \cap A)
      <4>1. (U \cap A) \in SUBSET D
        OBVIOUS
      <4>2. QED
        BY <4>1, FS_Subset
    <3>4. Cardinality(U \cap A) \in Nat
      BY <3>3, FS_CardinalityType
    <3>5. CASE x \in A
      <4>1. S \cap A = (U \cap A) \cup {x} /\ x \notin U \cap A
        BY <3>5
      <4>2. Cardinality(S \cap A) = Cardinality(U \cap A) + 1
        BY <3>3, <4>1, FS_AddElement
      <4>3. f[x] = 1
        BY <3>5
      <4>4. QED
        BY <3>2, <3>4, <4>2, <4>3
    <3>6. CASE x \notin A
      <4>1. S \cap A = U \cap A
        BY <3>6
      <4>2. f[x] = 0
        BY <3>6
      <4>3. QED
        BY <3>2, <3>4, <4>1, <4>2
    <3>7. QED
      BY <3>5, <3>6
  <2>3. QED
    BY <2>1, <2>2
<1> HIDE DEF P
<1>2. D \in P
  BY <1>1, SubsetInduction
<1>3. D \cap A = A
  OBVIOUS
<1>4. QED
  BY <1>2, <1>3 DEF P

\* The same amounts under other names
LEMMA SumRenamed ==
  ASSUME NEW D, IsFiniteSet(D), NEW f \in [D -> Int], NEW E, IsFiniteSet(E), NEW g \in [E -> Int],
         NEW b \in [D -> E], \A x, y \in D : b[x] = b[y] => x = y,
         \A x \in D : f[x] = g[b[x]]
  PROVE  SumOn(f, D) = SumOn(g, {b[x] : x \in D})
<1> DEFINE Image(S) == {b[x] : x \in S}
           P == {S \in SUBSET D : SumOn(f, S) = SumOn(g, Image(S))}
<1>1. \A S \in SUBSET D : (\A x \in S : S \ {x} \in P) => S \in P
  <2> SUFFICES ASSUME NEW S \in SUBSET D, \A x \in S : S \ {x} \in P
               PROVE  SumOn(f, S) = SumOn(g, Image(S))
    OBVIOUS
  <2>1. CASE S = {}
    <3>1. Image(S) = {}
      BY <2>1
    <3>2. QED
      BY <2>1, <3>1, SumEmpty
  <2>2. CASE S # {}
    <3>1. PICK x \in S : TRUE
      BY <2>2
    <3> DEFINE U == S \ {x}
    <3>2. Image(U) = Image(S) \ {b[x]} /\ b[x] \in Image(S) /\ Image(S) \in SUBSET E
      OBVIOUS
    <3>3. SumOn(f, S) = f[x] + SumOn(f, U) /\ SumOn(f, U) = SumOn(g, Image(U))
      BY SumTakeOut
    <3> HIDE DEF Image
    <3>4. SumOn(g, Image(S)) = g[b[x]] + SumOn(g, Image(S) \ {b[x]})
      BY <3>2, SumTakeOut
    <3>5. QED
      BY <3>2, <3>3, <3>4
  <2>3. QED
    BY <2>1, <2>2
<1> HIDE DEF P
<1>2. D \in P
  BY <1>1, SubsetInduction
<1>3. QED
  BY <1>2 DEF P

-----------------------------------------------------------------------------
(* The same for totals, with the relation of the amounts as a predicate *)

NoMore(f, g, D) == f \in [D -> Int] /\ g \in [D -> Int] /\ \A x \in D : f[x] <= g[x]
Adds(h, f, g, D) ==
  h \in [D -> Int] /\ f \in [D -> Int] /\ g \in [D -> Int] /\ \A x \in D : h[x] = f[x] + g[x]
Times(h, a, f, D) ==
  h \in [D -> Int] /\ f \in [D -> Int] /\ a \in Int /\ \A x \in D : h[x] = a * f[x]
Marks(f, A, D) ==
  A \in SUBSET D /\ f \in [D -> Int] /\ \A x \in D : f[x] = IF x \in A THEN 1 ELSE 0
\* One amount of f becomes v
Becomes(h, f, x, v, D) ==
  /\ h \in [D -> Int] /\ f \in [D -> Int] /\ x \in D
  /\ h[x] = v /\ \A y \in D \ {x} : h[y] = f[y]

LEMMA TotalType ==
  ASSUME NEW D, IsFiniteSet(D), NEW f \in [D -> Int]
  PROVE  Total(f) \in Int
<1>1. D \in SUBSET D /\ DOMAIN f = D
  OBVIOUS
<1>2. SumOn(f, D) \in Int
  BY <1>1, SumType
<1>3. QED
  BY <1>1, <1>2, TotalIsSum

LEMMA TotalNoMore ==
  ASSUME NEW D, IsFiniteSet(D), NEW f, NEW g, NoMore(f, g, D)
  PROVE  Total(f) <= Total(g)
<1>1. /\ D \in SUBSET D /\ D \subseteq D /\ f \in [D -> Int] /\ g \in [D -> Int]
      /\ \A x \in D : f[x] <= g[x]
  BY DEF NoMore
<1>2. SumOn(f, D) <= SumOn(g, D)
  BY <1>1, SumMonotone
<1>3. Total(f) = SumOn(f, D) /\ Total(g) = SumOn(g, D)
  BY <1>1, TotalIsSum
<1>4. QED
  BY <1>2, <1>3

LEMMA TotalAdds ==
  ASSUME NEW D, IsFiniteSet(D), NEW h, NEW f, NEW g, Adds(h, f, g, D)
  PROVE  Total(h) = Total(f) + Total(g)
<1>1. /\ D \in SUBSET D /\ h \in [D -> Int] /\ f \in [D -> Int] /\ g \in [D -> Int]
      /\ \A x \in D : h[x] = f[x] + g[x]
  BY DEF Adds
<1>2. SumOn(h, D) = SumOn(f, D) + SumOn(g, D)
  BY <1>1, SumPlus
<1>3. Total(f) = SumOn(f, D) /\ Total(g) = SumOn(g, D) /\ Total(h) = SumOn(h, D)
  BY <1>1, TotalIsSum
<1>4. QED
  BY <1>2, <1>3

LEMMA TotalTimes ==
  ASSUME NEW D, IsFiniteSet(D), NEW h, NEW a, NEW f, Times(h, a, f, D)
  PROVE  Total(h) = a * Total(f)
<1>1. /\ D \in SUBSET D /\ h \in [D -> Int] /\ f \in [D -> Int] /\ a \in Int
      /\ \A x \in D : h[x] = a * f[x]
  BY DEF Times
<1>2. SumOn(h, D) = a * SumOn(f, D)
  BY <1>1, SumTimes
<1>3. Total(f) = SumOn(f, D) /\ Total(h) = SumOn(h, D)
  BY <1>1, TotalIsSum
<1>4. QED
  BY <1>2, <1>3

LEMMA TotalMarks ==
  ASSUME NEW D, IsFiniteSet(D), NEW f, NEW A, Marks(f, A, D)
  PROVE  Total(f) = Cardinality(A)
<1>1. A \in SUBSET D /\ f \in [D -> Int] /\ \A x \in D : f[x] = IF x \in A THEN 1 ELSE 0
  BY DEF Marks
<1>2. SumOn(f, D) = Cardinality(A)
  BY <1>1, SumCounts
<1>3. Total(f) = SumOn(f, D)
  BY <1>1, TotalIsSum
<1>4. QED
  BY <1>2, <1>3

LEMMA TotalBecomes ==
  ASSUME NEW D, IsFiniteSet(D), NEW h, NEW f, NEW x, NEW v, Becomes(h, f, x, v, D)
  PROVE  Total(h) = Total(f) + (v - f[x])
<1>1. /\ D \in SUBSET D /\ h \in [D -> Int] /\ f \in [D -> Int] /\ x \in D
      /\ h[x] = v /\ \A y \in D \ {x} : h[y] = f[y]
  BY DEF Becomes
<1> DEFINE R == D \ {x}
<1>2. R \in SUBSET D /\ R \subseteq D
  OBVIOUS
<1>3. SumOn(h, D) = h[x] + SumOn(h, R) /\ SumOn(f, D) = f[x] + SumOn(f, R)
  BY <1>1, SumTakeOut
<1>4. SumOn(h, R) = SumOn(f, R)
  <2>1. \A y \in R : h[y] = f[y]
    BY <1>1
  <2> HIDE DEF R
  <2>2. QED
    BY <1>1, <1>2, <2>1, SumSame
<1>5. Total(f) = SumOn(f, D) /\ Total(h) = SumOn(h, D)
  BY <1>1, TotalIsSum
<1>6. SumOn(f, R) \in Int
  BY <1>1, <1>2, SumType
<1>7. f[x] \in Int /\ v \in Int
  BY <1>1
<1> HIDE DEF R
<1>8. QED
  BY <1>1, <1>3, <1>4, <1>5, <1>6, <1>7

\* Nothing but zeros
LEMMA TotalZero ==
  ASSUME NEW D, IsFiniteSet(D), NEW f \in [D -> Int], \A x \in D : f[x] = 0
  PROVE  Total(f) = 0
<1>1. Marks(f, {}, D)
  BY DEF Marks
<1>2. Total(f) = Cardinality({})
  BY <1>1, TotalMarks
<1>3. QED
  BY <1>2, FS_EmptySet

\* Amounts that are not negative total no less than any one of them
LEMMA TotalNat ==
  ASSUME NEW D, IsFiniteSet(D), NEW f \in [D -> Nat]
  PROVE  Total(f) \in Nat /\ \A x \in D : f[x] <= Total(f)
<1>1. f \in [D -> Int] /\ Total(f) \in Int
  BY TotalType
<1> DEFINE zero == [x \in D |-> 0]
<1>2. Total(zero) = 0 /\ NoMore(zero, f, D)
  BY <1>1, TotalZero DEF NoMore
<1>3. 0 <= Total(f)
  BY <1>2, TotalNoMore
<1>4. ASSUME NEW x \in D PROVE f[x] <= Total(f)
  <2> DEFINE h == [f EXCEPT ![x] = 0]
  <2>1. Becomes(h, f, x, 0, D) /\ h \in [D -> Int] /\ NoMore(zero, h, D)
    BY <1>1 DEF Becomes, NoMore
  <2> HIDE DEF h, zero
  <2>2. Total(h) = Total(f) + (0 - f[x])
    BY <2>1, TotalBecomes
  <2>3. Total(zero) <= Total(h)
    BY <2>1, TotalNoMore
  <2>4. f[x] \in Int /\ Total(h) \in Int
    BY <1>1, <2>1, TotalType
  <2>5. QED
    BY <1>1, <1>2, <2>2, <2>3, <2>4
<1>5. QED
  BY <1>1, <1>3, <1>4

-----------------------------------------------------------------------------
(* Whole parts and remainders *)

LEMMA TimesGrows ==
  ASSUME NEW n \in Nat, NEW m \in Nat \ {0}
  PROVE  n * m >= n
OBVIOUS

LEMMA DivMod ==
  ASSUME NEW a \in Int, NEW n \in Nat \ {0}
  PROVE  /\ a \div n \in Int /\ a % n \in 0 .. n - 1
         /\ a % n = a - n * (a \div n)
<1>1. a \div n \in Int
  OBVIOUS
<1>2. a % n \in 0 .. n - 1
  OBVIOUS
<1>3. a % n = a - n * (a \div n)
  OBVIOUS
<1>4. QED
  BY <1>1, <1>2, <1>3

LEMMA DivBounds ==
  ASSUME NEW a \in Nat, NEW n \in Nat \ {0}
  PROVE  a \div n \in Nat /\ n * (a \div n) <= a
<1>1. a \in Int /\ a >= 0
  OBVIOUS
<1>2. a \div n \in Int /\ a % n \in 0 .. n - 1 /\ a % n = a - n * (a \div n)
  BY <1>1, DivMod
<1>3. a \div n >= 0
  OBVIOUS
<1> DEFINE m == n * (a \div n)
<1>4. m \in Int
  BY <1>2
<1>5. a % n = a - m /\ a % n \in Nat
  BY <1>2
<1> HIDE DEF m
<1>6. m <= a
  BY <1>4, <1>5
<1>7. QED
  BY <1>2, <1>3, <1>6 DEF m

LEMMA DivExact ==
  ASSUME NEW a \in Int, NEW n \in Nat \ {0}
  PROVE  (n * a) \div n = a
OBVIOUS

\* The conversions are exact, both ways, when a chip is worth a cent
LEMMA ParConversion ==
  ASSUME NEW c \in Int, NEW n \in Nat \ {0}
  PROVE  CentsToChips(c, n, n) = c /\ ChipsToCents(c, n, n) = c
<1>1. ASSUME NEW a \in Int PROVE (2 * (a * n) + n) \div (2 * n) = a
  OBVIOUS
<1>2. c * n \in Int /\ -(c * n) = (-c) * n /\ -c \in Int
  OBVIOUS
<1>3. (2 * (-(c * n)) + n) \div (2 * n) = -c
  BY <1>1, <1>2
<1>4. (2 * (c * n) + n) \div (2 * n) = c
  BY <1>1
<1>5. DivHalfUp(c * n, n) = c
  BY <1>2, <1>3, <1>4 DEF DivHalfUp
<1>6. QED
  BY <1>5 DEF CentsToChips, ChipsToCents

\* A conversion gives an integer, and never turns an amount negative
LEMMA ConversionType ==
  ASSUME NEW a \in Int, NEW m \in Nat \ {0}, NEW n \in Nat \ {0}
  PROVE  /\ CentsToChips(a, m, n) \in Int /\ ChipsToCents(a, m, n) \in Int
         /\ a >= 0 => CentsToChips(a, m, n) >= 0 /\ ChipsToCents(a, m, n) >= 0
<1>1. ASSUME NEW x \in Int, NEW d \in Nat \ {0}
      PROVE  DivHalfUp(x, d) \in Int /\ (x >= 0 => DivHalfUp(x, d) >= 0)
  <2>1. (2 * x + d) \in Int /\ (2 * (-x) + d) \in Int /\ 2 * d \in Nat \ {0}
    OBVIOUS
  <2>2. (2 * x + d) \div (2 * d) \in Int /\ (2 * (-x) + d) \div (2 * d) \in Int
    BY <2>1, DivMod
  <2>3. ASSUME x >= 0 PROVE (2 * x + d) \div (2 * d) >= 0
    <3>1. \A p \in Nat, q \in Nat \ {0} : p \div q >= 0
      OBVIOUS
    <3>2. (2 * x + d) \in Nat
      BY <2>3
    <3>3. QED
      BY <2>1, <3>1, <3>2
  <2>4. QED
    BY <2>2, <2>3 DEF DivHalfUp
<1>2. a * m \in Int /\ a * n \in Int /\ (a >= 0 => a * m >= 0 /\ a * n >= 0)
  OBVIOUS
<1>3. QED
  BY <1>1, <1>2 DEF CentsToChips, ChipsToCents

\* A factor that both sides have
LEMMA Cancelled ==
  ASSUME NEW n \in Nat \ {0}, NEW a \in Int, NEW b \in Int
  PROVE  /\ n * a <= n * b => a <= b
         /\ n * a < n * b => a < b
         /\ n * a = n * b => a = b
<1>1. ASSUME NEW x \in Int, NEW y \in Int, x > y PROVE n * x > n * y
  <2>1. x - y \in Nat \ {0}
    BY <1>1
  <2>2. n * (x - y) >= n
    BY <2>1, TimesGrows
  <2>3. n * (x - y) = n * x - n * y /\ n * x \in Int /\ n * y \in Int
    OBVIOUS
  <2>4. QED
    BY <2>2, <2>3
<1>2. n * a \in Int /\ n * b \in Int
  OBVIOUS
<1>3. n * a <= n * b => a <= b
  <2>1. a > b => n * a > n * b
    BY <1>1
  <2>2. QED
    BY <1>2, <2>1
<1>4. n * a < n * b => a < b
  <2>1. b > a \/ a = b \/ a > b
    OBVIOUS
  <2>2. a > b => n * a > n * b
    BY <1>1
  <2>3. QED
    BY <1>2, <2>1, <2>2
<1>5. n * a = n * b => a = b
  <2>1. a > b => n * a > n * b
    BY <1>1
  <2>2. b > a => n * b > n * a
    BY <1>1
  <2>3. QED
    BY <1>2, <2>1, <2>2
<1>6. QED
  BY <1>3, <1>4, <1>5

\* When a cent is a whole number k of chips, cents become chips exactly, and chips
\* become the nearest number of cents
LEMMA WholeConversion ==
  ASSUME NEW n \in Nat \ {0}, NEW k \in Nat \ {0}, NEW c \in Int
  PROVE  CentsToChips(c, k * n, n) = k * c
<1> DEFINE a == k * c
<1>1. a \in Int /\ c * (k * n) = a * n
  OBVIOUS
<1> HIDE DEF a
<1>2. CentsToChips(a, n, n) = a
  BY <1>1, ParConversion
<1>3. QED
  BY <1>1, <1>2 DEF CentsToChips, a

LEMMA NearestCents ==
  ASSUME NEW n \in Nat \ {0}, NEW k \in Nat \ {0}, NEW x \in Nat
  PROVE  LET q == ChipsToCents(x, k * n, n)
         IN  q \in Nat /\ k * (2 * q) <= 2 * x + k
<1> DEFINE d == k * n
           y == x * n
           z == 2 * y + d
           q == z \div (2 * d)
<1>1. d \in Nat \ {0} /\ y \in Nat /\ ~(y < 0)
  <2>1. n * k >= n /\ d = n * k
    BY TimesGrows
  <2>2. QED
    BY <2>1
<1>2. ChipsToCents(x, d, n) = q
  <2>1. ChipsToCents(x, d, n) = DivHalfUp(y, d)
    BY DEF ChipsToCents
  <2> HIDE DEF y, d
  <2>2. DivHalfUp(y, d) = q
    BY <1>1 DEF DivHalfUp
  <2>3. QED
    BY <2>1, <2>2
<1>3. q \in Nat /\ (2 * d) * q <= z
  <2>1. z \in Nat /\ 2 * d \in Nat \ {0}
    <3> HIDE DEF y, d
    <3>1. QED
      BY <1>1
  <2> HIDE DEF y, d, z
  <2>2. QED
    BY <2>1, DivBounds
<1>4. (2 * d) * q = n * (k * (2 * q)) /\ z = n * (2 * x + k)
  <2> HIDE DEF q
  <2>1. QED
    BY <1>3
<1>5. k * (2 * q) \in Int /\ 2 * x + k \in Int
  <2> HIDE DEF q
  <2>1. QED
    BY <1>3
<1> DEFINE l == k * (2 * q)
           r == 2 * x + k
<1>6. n * l <= n * r /\ l \in Int /\ r \in Int
  BY <1>3, <1>4, <1>5
<1> HIDE DEF l, r
<1>7. l <= r
  BY <1>6, Cancelled
<1>8. QED
  BY <1>2, <1>3, <1>7 DEF l, r

-----------------------------------------------------------------------------
(* The largest remainder first *)

LEMMA RangeSize ==
  ASSUME NEW n \in Nat
  PROVE  IsFiniteSet(0 .. n - 1) /\ Cardinality(0 .. n - 1) = n
<1> DEFINE m == n - 1
<1>1. m \in Int /\ m = n - 1
  OBVIOUS
<1> HIDE DEF m
<1>2. IsFiniteSet(0 .. m) /\ Cardinality(0 .. m) = IF 0 > m THEN 0 ELSE m - 0 + 1
  BY <1>1, FS_Interval
<1>3. IsFiniteSet(0 .. m) /\ Cardinality(0 .. m) = n
  BY <1>1, <1>2
<1>4. QED
  BY <1>1, <1>3

\* The ranks of a set of seats are 0, 1, 2, ..., so n of them are below n
Served(n, rem, S) == {i \in S : Rank(i, rem, S) < n}
LEMMA RankCount ==
  ASSUME NEW S, IsFiniteSet(S), S \subseteq Int, NEW D, S \subseteq D, NEW rem \in [D -> Int],
         NEW n \in 0 .. Cardinality(S)
  PROVE  Cardinality(Served(n, rem, S)) = n
<1> DEFINE Ahead(i) == {j \in S : rem[j] > rem[i] \/ (rem[j] = rem[i] /\ j < i)}
           rank == [i \in S |-> Cardinality(Ahead(i))]
           size == Cardinality(S)
           A == {i \in S : rank[i] < n}
<1>1. size \in Nat /\ n \in 0 .. size
  BY FS_CardinalityType
<1>2. ASSUME NEW i \in S
      PROVE  IsFiniteSet(Ahead(i)) /\ Cardinality(Ahead(i)) \in Nat /\ i \notin Ahead(i)
  <2>1. Ahead(i) \in SUBSET S /\ i \notin Ahead(i)
    OBVIOUS
  <2>2. QED
    BY <2>1, FS_Subset, FS_CardinalityType
<1>3. ASSUME NEW i \in S PROVE Cardinality(Ahead(i)) < size
  <2>1. Ahead(i) \in SUBSET S /\ Ahead(i) # S
    BY <1>2
  <2>2. Cardinality(Ahead(i)) <= size /\ (size = Cardinality(Ahead(i)) => S = Ahead(i))
    BY <2>1, FS_Subset
  <2>3. QED
    BY <1>1, <1>2, <2>1, <2>2
<1>4. ASSUME NEW i \in S, NEW j \in Ahead(i) PROVE Cardinality(Ahead(j)) < Cardinality(Ahead(i))
  <2>1. j \in S
    OBVIOUS
  <2>2. \A x \in S : rem[x] \in Int /\ x \in Int
    OBVIOUS
  <2>3. ASSUME NEW k \in Ahead(j) PROVE k \in Ahead(i)
    <3>1. k \in S /\ (rem[k] > rem[j] \/ (rem[k] = rem[j] /\ k < j))
      OBVIOUS
    <3>2. rem[j] > rem[i] \/ (rem[j] = rem[i] /\ j < i)
      OBVIOUS
    <3>3. rem[k] > rem[i] \/ (rem[k] = rem[i] /\ k < i)
      BY <2>1, <2>2, <3>1, <3>2
    <3>4. QED
      BY <3>1, <3>3
  <2>4. Cardinality(Ahead(j) \cup {j}) = Cardinality(Ahead(j)) + 1
    BY <1>2, <2>1, FS_AddElement
  <2>5. Cardinality(Ahead(j) \cup {j}) <= Cardinality(Ahead(i))
    <3>1. (Ahead(j) \cup {j}) \in SUBSET Ahead(i)
      BY <2>3
    <3> HIDE DEF Ahead
    <3>2. QED
      BY <1>2, <3>1, FS_Subset
  <2>6. QED
    BY <1>2, <2>1, <2>4, <2>5
<1>5. \A i, j \in S : i # j => i \in Ahead(j) \/ j \in Ahead(i)
  <2> SUFFICES ASSUME NEW i \in S, NEW j \in S, i # j PROVE i \in Ahead(j) \/ j \in Ahead(i)
    OBVIOUS
  <2>1. i \in Int /\ j \in Int /\ rem[i] \in Int /\ rem[j] \in Int
    OBVIOUS
  <2>2. \/ rem[i] > rem[j] \/ (rem[i] = rem[j] /\ i < j)
        \/ rem[j] > rem[i] \/ (rem[j] = rem[i] /\ j < i)
    BY <2>1
  <2>3. QED
    BY <2>2
<1>6. \A i \in S : rank[i] = Cardinality(Ahead(i)) /\ Rank(i, rem, S) = rank[i]
  BY DEF Rank
<1>7. A = Served(n, rem, S)
  BY <1>6 DEF Served
<1>8. \A i, j \in S : rank[i] = rank[j] => i = j
  <2> SUFFICES ASSUME NEW i \in S, NEW j \in S, i # j PROVE rank[i] # rank[j]
    OBVIOUS
  <2>1. rank[i] < rank[j] \/ rank[j] < rank[i]
    BY <1>4, <1>5, <1>6
  <2>2. rank[i] \in Nat /\ rank[j] \in Nat
    BY <1>2, <1>6
  <2>3. QED
    BY <2>1, <2>2
<1>9. rank \in [S -> 0 .. size - 1]
  <2>1. \A i \in S : rank[i] \in 0 .. size - 1
    BY <1>1, <1>2, <1>3, <1>6
  <2>2. QED
    BY <2>1
<1> HIDE DEF Ahead, rank
<1>10. rank \in Surjection(S, 0 .. size - 1)
  <2>1. rank \in Injection(S, 0 .. size - 1)
    BY <1>8, <1>9 DEF Injection, IsInjective
  <2>2. IsFiniteSet(0 .. size - 1) /\ Cardinality(0 .. size - 1) = size
    BY <1>1, RangeSize
  <2>3. QED
    BY <2>1, <2>2, FS_Injection
<1>11. A \subseteq S /\ IsFiniteSet(A)
  BY FS_Subset
<1> DEFINE b == [i \in A |-> rank[i]]
<1>12. b \in Bijection(A, 0 .. n - 1)
  <2>1. \A i \in A : b[i] \in 0 .. n - 1
    BY <1>1, <1>9
  <2>2. b \in [A -> 0 .. n - 1]
    BY <2>1
  <2>3. \A i, j \in A : b[i] = b[j] => i = j
    BY <1>8
  <2>4. ASSUME NEW t \in 0 .. n - 1 PROVE \E s \in A : b[s] = t
    <3>1. t \in 0 .. size - 1
      BY <1>1
    <3>2. PICK s \in S : rank[s] = t
      BY <1>10, <3>1 DEF Surjection
    <3>3. s \in A
      BY <3>2
    <3>4. QED
      BY <3>2, <3>3
  <2>5. QED
    BY <2>2, <2>3, <2>4 DEF Bijection, Injection, IsInjective, Surjection
<1>13. Cardinality(0 .. n - 1) = n
  BY <1>1, RangeSize
<1> HIDE DEF b, A
<1>14. ExistsBijection(A, 0 .. n - 1)
  BY <1>12 DEF ExistsBijection
<1>15. Cardinality(0 .. n - 1) = Cardinality(A)
  BY <1>11, <1>14, FS_Bijection
<1>16. QED
  BY <1>7, <1>13, <1>15
\* Whole parts of n first, then one more to the largest remainders: the seats of
\* H, the only ones that have a remainder, bring the total up to exactly t
Split(S, n, t, exact, base, rem, H, over, shares) ==
  /\ n \in Nat \ {0} /\ t \in Int
  /\ exact \in [S -> Int] /\ Total(exact) = n * t
  /\ base \in [S -> Int] /\ rem \in [S -> Int] /\ shares \in [S -> Int]
  /\ \A i \in S : base[i] = exact[i] \div n /\ rem[i] = exact[i] % n
  /\ H \in SUBSET S /\ \A i \in S \ H : rem[i] = 0
  /\ over = t - Total(base) /\ over \in Int
  /\ \A i \in S : shares[i] = base[i] + IF i \in H /\ Rank(i, rem, H) < over THEN 1 ELSE 0

LEMMA SplitParts ==
  ASSUME NEW S, NEW n, NEW t, NEW exact, NEW base, NEW rem, NEW H, NEW over, NEW shares,
         Split(S, n, t, exact, base, rem, H, over, shares), NEW i \in S
  PROVE  /\ exact[i] \in Int /\ base[i] \in Int /\ rem[i] \in Int
         /\ rem[i] = exact[i] - n * base[i] /\ rem[i] \in 0 .. n - 1
<1>1. /\ exact[i] \in Int /\ base[i] \in Int /\ rem[i] \in Int /\ n \in Nat \ {0}
      /\ base[i] = exact[i] \div n /\ rem[i] = exact[i] % n
  BY DEF Split
<1>2. QED
  BY <1>1, DivMod

IsTimes(r, n, m) == r = n * m
LEMMA SplitRest ==
  ASSUME NEW S, IsFiniteSet(S), S \subseteq Int, NEW n \in Nat \ {0}, NEW t \in Int, NEW exact,
         NEW base, NEW rem, NEW H, NEW over \in Int, NEW shares, Split(S, n, t, exact, base, rem, H, over, shares)
  PROVE  /\ Total(base) \in Int /\ IsTimes(Total(rem), n, over)
         /\ over \in 0 .. Cardinality(H)
<1> DEFINE b == Total(base)
           r == Total(rem)
           size == Cardinality(H)
           parts == [i \in S |-> n * base[i]]
           ones == [i \in S |-> IF i \in H THEN 1 ELSE 0]
           most == [i \in S |-> n * ones[i]]
           zero == [i \in S |-> 0]
<1>1. /\ n \in Nat \ {0} /\ n \in Int /\ t \in Int /\ exact \in [S -> Int] /\ base \in [S -> Int]
      /\ rem \in [S -> Int] /\ Total(exact) = n * t /\ over = t - b /\ H \in SUBSET S
  BY DEF Split
<1>2. b \in Int /\ r \in Int
  BY <1>1, TotalType
<1>3. IsFiniteSet(H) /\ size \in Nat
  BY <1>1, FS_Subset, FS_CardinalityType
<1>4. Times(parts, n, base, S)
  BY <1>1 DEF Times
<1>5. Adds(exact, parts, rem, S)
  <2>1. ASSUME NEW i \in S PROVE exact[i] = parts[i] + rem[i]
    <3>1. exact[i] \in Int /\ n * base[i] \in Int /\ rem[i] = exact[i] - n * base[i]
      BY <1>1, SplitParts
    <3>2. QED
      BY <3>1
  <2>2. parts \in [S -> Int]
    BY <1>1
  <2>3. QED
    BY <1>1, <2>1, <2>2 DEF Adds
<1>6. Marks(ones, H, S) /\ Times(most, n, ones, S) /\ Marks(zero, {}, S)
  BY <1>1 DEF Marks, Times
<1>7. NoMore(zero, rem, S) /\ NoMore(rem, most, S)
  <2>1. ASSUME NEW i \in S PROVE 0 <= rem[i] /\ rem[i] <= most[i]
    <3>1. rem[i] \in 0 .. n - 1 /\ (i \notin H => rem[i] = 0)
      BY SplitParts DEF Split
    <3>2. most[i] = IF i \in H THEN n ELSE 0
      BY <1>1
    <3>3. QED
      BY <1>1, <3>1, <3>2
  <2>2. most \in [S -> Int] /\ zero \in [S -> Int]
    BY <1>1
  <2>3. QED
    BY <1>1, <2>1, <2>2 DEF NoMore
<1> HIDE DEF parts, ones, most, zero
<1>8. r = n * over
  <2>1. Total(parts) = n * b /\ Total(exact) = Total(parts) + r
    BY <1>4, <1>5, TotalTimes, TotalAdds
  <2>2. n * (t - b) = n * t - n * b /\ n * t \in Int /\ n * b \in Int
    BY <1>1, <1>2
  <2>3. QED
    BY <1>1, <1>2, <2>1, <2>2
<1>9. r >= 0
  BY <1>6, <1>7, TotalMarks, TotalNoMore, FS_EmptySet
<1>10. r <= n * size
  BY <1>6, <1>7, TotalMarks, TotalTimes, TotalNoMore
<1> HIDE DEF b, r, size
<1>11. over \in Int /\ n * over >= 0 /\ n * over <= n * size
  BY <1>1, <1>2, <1>8, <1>9, <1>10
<1>12. over >= 0
  BY <1>1, <1>11
<1>13. over <= size
  <2>1. SUFFICES ASSUME over > size PROVE FALSE
    BY <1>3, <1>11
  <2>2. over - size \in Nat \ {0}
    BY <1>3, <1>11, <2>1
  <2>3. n * (over - size) >= n
    BY <1>1, <2>2, TimesGrows
  <2>4. n * (over - size) = n * over - n * size /\ n * over \in Int /\ n * size \in Int
    BY <1>1, <1>3, <1>11
  <2>5. QED
    BY <1>1, <1>11, <2>3, <2>4
<1>14. QED
  BY <1>2, <1>3, <1>8, <1>11, <1>12, <1>13 DEF b, r, size, IsTimes

LEMMA SplitIsWhole ==
  ASSUME NEW S, IsFiniteSet(S), S \subseteq Int, NEW n \in Nat \ {0}, NEW t \in Int, NEW exact,
         NEW base, NEW rem, NEW H, NEW over \in Int, NEW shares, Split(S, n, t, exact, base, rem, H, over, shares)
  PROVE  Total(shares) = t
<1> DEFINE odd == [i \in S |-> IF i \in H /\ Rank(i, rem, H) < over THEN 1 ELSE 0]
<1>1. over \in 0 .. Cardinality(H) /\ Total(base) \in Int
  BY SplitRest
<1>2. /\ H \in SUBSET S /\ H \subseteq Int /\ H \subseteq S /\ rem \in [S -> Int]
      /\ over = t - Total(base) /\ t \in Int /\ base \in [S -> Int] /\ shares \in [S -> Int]
      /\ \A i \in S : shares[i] = base[i] + odd[i]
  BY DEF Split
<1>3. IsFiniteSet(H)
  BY <1>2, FS_Subset
<1>4. Cardinality(Served(over, rem, H)) = over
  BY <1>1, <1>2, <1>3, RankCount
<1>5. Marks(odd, Served(over, rem, H), S)
  <2> DEFINE A == Served(over, rem, H)
  <2>1. A \in SUBSET S
    BY <1>2 DEF Served
  <2>2. ASSUME NEW i \in S PROVE odd[i] = IF i \in A THEN 1 ELSE 0
    <3>1. i \in A <=> i \in H /\ Rank(i, rem, H) < over
      BY DEF Served
    <3> HIDE DEF A
    <3>2. QED
      BY <3>1
  <2>3. odd \in [S -> Int]
    OBVIOUS
  <2> HIDE DEF A, odd
  <2>4. Marks(odd, A, S)
    BY <2>1, <2>2, <2>3 DEF Marks
  <2>5. QED
    BY <2>4 DEF A
<1>6. Adds(shares, base, odd, S)
  BY <1>2 DEF Adds
<1> HIDE DEF odd
<1>7. Total(odd) = over
  BY <1>4, <1>5, TotalMarks
<1>8. Total(shares) = Total(base) + Total(odd)
  BY <1>6, TotalAdds
<1>9. QED
  BY <1>1, <1>2, <1>7, <1>8

\* Seats without a remainder come after all that have one
Positive(H, f, S) == H = {i \in S : f[i] > 0}
LEMMA RankOfHeld ==
  ASSUME NEW S, IsFiniteSet(S), S \subseteq Int, NEW n \in Nat, NEW rem \in [S -> 0 .. n],
         NEW H, Positive(H, rem, S), NEW over \in Int, over \in 0 .. Cardinality(H),
         NEW i \in S
  PROVE  Rank(i, rem, S) < over <=> i \in H /\ Rank(i, rem, H) < over
<1>0. H = {j \in S : rem[j] > 0}
  BY DEF Positive
<1> DEFINE Ahead(T) == {j \in T : rem[j] > rem[i] \/ (rem[j] = rem[i] /\ j < i)}
<1>1. \A j \in S : rem[j] \in Int /\ rem[j] >= 0 /\ j \in Int
  OBVIOUS
<1>2. CASE i \in H
  <2>1. rem[i] > 0
    BY <1>0, <1>2
  <2>2. Ahead(S) = Ahead(H)
    <3>1. ASSUME NEW j \in S, rem[j] > rem[i] \/ (rem[j] = rem[i] /\ j < i)
          PROVE  j \in H
      BY <1>0, <1>1, <2>1, <3>1
    <3>2. H \subseteq S
      BY <1>0
    <3> HIDE DEF Ahead
    <3>3. \A j : j \in Ahead(S) <=> j \in Ahead(H)
      BY <3>1, <3>2 DEF Ahead
    <3>4. QED
      BY <3>3
  <2>3. QED
    BY <1>2, <2>2 DEF Rank
<1>3. CASE i \notin H
  <2>1. rem[i] = 0
    BY <1>0, <1>1, <1>3
  <2>2. H \subseteq Ahead(S) /\ Ahead(S) \subseteq S
    BY <1>0, <1>1, <2>1
  <2>3. Rank(i, rem, S) = Cardinality(Ahead(S))
    BY DEF Rank
  <2> DEFINE A == Ahead(S)
  <2>4. H \subseteq A /\ A \subseteq S /\ Rank(i, rem, S) = Cardinality(A)
    BY <2>2, <2>3
  <2> HIDE DEF A
  <2>5. IsFiniteSet(A)
    BY <2>4, FS_Subset
  <2>6. IsFiniteSet(H) /\ Cardinality(H) <= Cardinality(A)
    BY <2>4, <2>5, FS_Subset
  <2>7. Cardinality(H) \in Nat /\ Cardinality(A) \in Nat
    BY <2>5, <2>6, FS_CardinalityType
  <2> DEFINE size == Cardinality(H)
             more == Cardinality(A)
  <2>8. size <= more /\ size \in Nat /\ more \in Nat /\ over \in 0 .. size /\ Rank(i, rem, S) = more
    BY <2>4, <2>6, <2>7
  <2> HIDE DEF size, more
  <2>9. ~(Rank(i, rem, S) < over)
    BY <2>8
  <2>10. QED
    BY <1>3, <2>9
<1>4. QED
  BY <1>2, <1>3

\* A split of nothing: what the remainders add up to is what the whole parts fall
\* short, and only seats with a remainder are served
SameServed(S, rem, H, over) ==
  \A i \in S : Rank(i, rem, S) < over <=> i \in H /\ Rank(i, rem, H) < over
LEMMA SplitOfNothing ==
  ASSUME NEW S, IsFiniteSet(S), S \subseteq Int, NEW n \in Nat \ {0}, NEW t \in Int, t = 0,
         NEW exact, NEW base, NEW rem, NEW H, NEW over \in Int, NEW shares, Split(S, n, t, exact, base, rem, H, over, shares),
         Positive(H, rem, S)
  PROVE  IsTimes(Total(rem), n, over) /\ SameServed(S, rem, H, over)
<1>1. over \in 0 .. Cardinality(H) /\ Total(rem) = n * over
  <2>1. over \in 0 .. Cardinality(H)
    BY SplitRest
  <2>2. IsTimes(Total(rem), n, over)
    BY SplitRest
  <2>3. QED
    BY <2>1, <2>2 DEF IsTimes
<1>2. Cardinality(H) \in Nat
  <2>1. H \subseteq S
    BY DEF Split
  <2>2. QED
    BY <2>1, FS_Subset, FS_CardinalityType
<1>5. rem \in [S -> 0 .. n]
  <2>1. ASSUME NEW i \in S PROVE rem[i] \in 0 .. n
    <3>1. rem[i] \in 0 .. n - 1
      BY SplitParts
    <3>2. QED
      BY <1>1, <3>1
  <2>2. rem \in [S -> Int]
    BY DEF Split
  <2>3. QED
    BY <2>1, <2>2
<1>6. ASSUME NEW i \in S
      PROVE  Rank(i, rem, S) < over <=> i \in H /\ Rank(i, rem, H) < over
  <2>1. n \in Nat
    BY <1>1
  <2>2. QED
    BY <1>1, <1>5, <2>1, RankOfHeld
<1>7. QED
  BY <1>1, <1>6 DEF IsTimes, SameServed

\* zero_sum_cents: the results of a hand in cents add up to zero as its chips do,
\* and each is less than a cent off the exact amount, whatever the stakes
THEOREM ZeroSumTheorem ==
  ASSUME NEW S, IsFiniteSet(S), S \subseteq Int, NEW deltas \in [S -> Int], Total(deltas) = 0,
         NEW bbChips \in Nat \ {0}, NEW bbCents \in Int
  PROVE  LET cents == ZeroSumCents(deltas, bbChips, bbCents)
         IN  /\ cents \in [S -> Int] /\ Total(cents) = 0
             /\ \A i \in S : LET off == cents[i] * bbChips - deltas[i] * bbCents
                             IN  -bbChips < off /\ off < bbChips
<1> DEFINE exact == [i \in S |-> deltas[i] * bbCents]
           base == [i \in S |-> (deltas[i] * bbCents) \div bbChips]
           rem == [i \in S |-> (deltas[i] * bbCents) % bbChips]
           H == {i \in S : rem[i] > 0}
           extra == Total(rem) \div bbChips
           over == 0 - Total(base)
           cents == [i \in S |-> base[i] + IF Rank(i, rem, S) < extra THEN 1 ELSE 0]
           shares == [i \in S |-> base[i] + IF i \in H /\ Rank(i, rem, H) < over THEN 1 ELSE 0]
<1>1. \A i \in S : deltas[i] * bbCents \in Int
  OBVIOUS
<1>2. exact \in [S -> Int] /\ Times(exact, bbCents, deltas, S)
  <2>1. \A i \in S : exact[i] = bbCents * deltas[i]
    BY <1>1
  <2>2. exact \in [S -> Int]
    BY <1>1
  <2>3. QED
    BY <2>1, <2>2 DEF Times
<1>3. base \in [S -> Int] /\ \A i \in S : base[i] = exact[i] \div bbChips
  BY <1>1, DivMod
<1>4. rem \in [S -> Int] /\ \A i \in S : rem[i] = exact[i] % bbChips
  BY <1>1, DivMod
<1>5. rem \in [S -> 0 .. bbChips]
  <2>1. ASSUME NEW i \in S PROVE (deltas[i] * bbCents) % bbChips \in 0 .. bbChips
    <3> DEFINE a == deltas[i] * bbCents
    <3>1. a \in Int
      BY <1>1
    <3> HIDE DEF a
    <3>2. a % bbChips \in 0 .. bbChips - 1
      BY <3>1, DivMod
    <3>3. QED
      BY <3>2 DEF a
  <2>2. QED
    BY <2>1
<1>6. shares \in [S -> Int]
  BY <1>3
<1>7. Total(exact) = bbChips * 0
  <2> HIDE DEF exact
  <2>1. Total(exact) = bbCents * Total(deltas)
    BY <1>2, TotalTimes
  <2>2. QED
    BY <2>1
<1>8. Split(S, bbChips, 0, exact, base, rem, H, over, shares)
  <2>1. \A i \in S : shares[i] = base[i] + IF i \in H /\ Rank(i, rem, H) < over THEN 1 ELSE 0
    OBVIOUS
  <2>2. H \in SUBSET S /\ \A i \in S \ H : rem[i] = 0
    BY <1>5
  <2> DEFINE o == over
  <2>3. o = 0 - Total(base)
    OBVIOUS
  <2> HIDE DEF exact, base, rem, H, over, shares
  <2>4. QED
    BY <1>2, <1>3, <1>4, <1>6, <1>7, <2>1, <2>2, <2>3 DEF Split, o
<1>9. /\ IsTimes(Total(rem), bbChips, over) /\ over \in Int /\ Total(shares) = 0
      /\ \A i \in S : Rank(i, rem, S) < over <=> i \in H /\ Rank(i, rem, H) < over
  <2>1. Positive(H, rem, S)
    BY DEF Positive
  <2>2. over \in Int
    BY <1>8 DEF Split
  <2> HIDE DEF exact, base, rem, H, over, shares
  <2>3. PICK z \in Int : z = 0 /\ Split(S, bbChips, z, exact, base, rem, H, over, shares)
    BY <1>8
  <2>4. /\ IsTimes(Total(rem), bbChips, over) /\ Total(shares) = 0
        /\ \A i \in S : Rank(i, rem, S) < over <=> i \in H /\ Rank(i, rem, H) < over
    <3> HIDE DEF extra, cents
    <3>1. IsTimes(Total(rem), bbChips, over)
      BY <2>1, <2>2, <2>3, SplitOfNothing
    <3>2. Total(shares) = z
      BY <2>2, <2>3, SplitIsWhole
    <3>3. SameServed(S, rem, H, over)
      BY <2>1, <2>2, <2>3, SplitOfNothing
    <3>4. QED
      BY <2>3, <3>1, <3>2, <3>3 DEF SameServed
  <2>5. QED
    BY <2>2, <2>4
<1>10. extra = over
  <2> DEFINE e == extra
             o == over
  <2>1. e = Total(rem) \div bbChips /\ Total(rem) = bbChips * o /\ o \in Int
    BY <1>9 DEF IsTimes
  <2> HIDE DEF rem, o, e
  <2>2. e = o
    BY <2>1, DivExact
  <2>3. QED
    BY <2>2 DEF e, o
<1>12. cents = shares
  BY <1>9, <1>10
<1>13. ZeroSumCents(deltas, bbChips, bbCents) = cents
  <2>1. DOMAIN deltas = S
    OBVIOUS
  <2>2. QED
    BY <2>1 DEF ZeroSumCents
<1>14. ASSUME NEW i \in S
       PROVE  LET off == shares[i] * bbChips - deltas[i] * bbCents
              IN  -bbChips < off /\ off < bbChips
  <2> DEFINE x == deltas[i] * bbCents
             q == base[i]
             r == rem[i]
  <2>1. x \in Int /\ q \in Int /\ q = x \div bbChips /\ r = x % bbChips
    BY <1>1, <1>3, <1>4
  <2>2. r = x - bbChips * q /\ r \in 0 .. bbChips - 1
    <3> HIDE DEF x, q, r
    <3>1. QED
      BY <2>1, DivMod
  <2>3. shares[i] = q \/ (shares[i] = q + 1 /\ r > 0)
    OBVIOUS
  <2>4. (q + 1) * bbChips = bbChips * q + bbChips /\ q * bbChips = bbChips * q /\ bbChips * q \in Int
    <3> HIDE DEF q
    <3>1. QED
      BY <2>1
  <2> DEFINE off == shares[i] * bbChips - x
             p == bbChips * q
  <2>5. off = p - x \/ (off = p + bbChips - x /\ r > 0)
    <3> HIDE DEF shares, x, q, r
    <3>1. QED
      BY <2>1, <2>3, <2>4 DEF p
  <2>6. -bbChips < off /\ off < bbChips
    <3>1. p \in Int /\ r = x - p
      BY <2>2, <2>4
    <3> HIDE DEF off, x, q, r, p
    <3>2. QED
      BY <2>1, <2>2, <2>5, <3>1
  <2>7. QED
    BY <2>6
<1> HIDE DEF cents, shares
<1>15. QED
  BY <1>6, <1>9, <1>12, <1>13, <1>14


LEMMA LeastIsLeast ==
  ASSUME NEW S, IsFiniteSet(S), S \subseteq Int, S # {}
  PROVE  Least(S) \in S /\ \A i \in S : Least(S) <= i
<1> DEFINE HasLeast(T) == \E x \in T : \A y \in T : x <= y
           P == {T \in SUBSET S : T = {} \/ HasLeast(T)}
<1>1. ASSUME NEW T \in SUBSET S, \A x \in T : T \ {x} \in P PROVE T \in P
  <2>1. CASE T = {}
    BY <2>1
  <2>2. CASE T # {}
    <3>1. PICK x \in T : T \ {x} = {} \/ HasLeast(T \ {x})
      BY <1>1, <2>2
    <3>2. x \in Int /\ \A y \in T : y \in Int
      OBVIOUS
    <3>3. CASE T \ {x} = {}
      <4>1. T = {x}
        BY <3>3
      <4>2. QED
        BY <3>2, <4>1
    <3>4. CASE HasLeast(T \ {x})
      <4>1. PICK m \in T \ {x} : \A y \in T \ {x} : m <= y
        BY <3>4
      <4>2. CASE m <= x
        BY <3>2, <4>1, <4>2
      <4>3. CASE ~(m <= x)
        BY <3>2, <4>1, <4>3
      <4>4. QED
        BY <4>2, <4>3
    <3>5. QED
      BY <3>1, <3>3, <3>4
  <2>3. QED
    BY <2>1, <2>2
<1>2. SUBSET S \subseteq P
  <2> HIDE DEF P
  <2>1. QED
    BY <1>1, SubsetInduction
<1>3. HasLeast(S)
  <2>1. S \in P
    BY <1>2
  <2>2. QED
    BY <2>1
<1>4. QED
  BY <1>3 DEF Least

\* _apportion: what is shared out over the stacks is exactly the total (nothing, if
\* that is negative), nobody is charged, a seat without chips gets nothing while
\* others hold some, and every share is less than a cent off its exact part
THEOREM ApportionTheorem ==
  ASSUME NEW S, IsFiniteSet(S), S \subseteq Int, S # {}, NEW chips \in [S -> Int],
         NEW total \in Int
  PROVE  LET shares == Apportion(total, chips)
             t == IF total < 0 THEN 0 ELSE total
             w == [i \in S |-> IF chips[i] < 0 THEN 0 ELSE chips[i]]
             pool == Total(w)
         IN  /\ shares \in [S -> Nat] /\ Total(shares) = t
             /\ \A i, j \in S : chips[i] <= 0 /\ chips[j] > 0 => shares[i] = 0
             /\ pool # 0 => \A i \in S : LET off == shares[i] * pool - t * w[i]
                                         IN  -pool < off /\ off < pool
<1> DEFINE t == IF total < 0 THEN 0 ELSE total
           w == [i \in S |-> IF chips[i] < 0 THEN 0 ELSE chips[i]]
           pool == Total(w)
           held == {i \in S : w[i] > 0}
           exact == [i \in S |-> t * w[i]]
           base == [i \in S |-> (t * w[i]) \div pool]
           rem == [i \in S |-> (t * w[i]) % pool]
           left == t - Total(base)
           alone == [i \in S |-> IF i = Least(S) THEN t ELSE 0]
           shares == [i \in S |-> base[i] + IF i \in held /\ Rank(i, rem, held) < left THEN 1 ELSE 0]
<1>1. t \in Nat /\ t \in Int
  OBVIOUS
<1>2. w \in [S -> Nat] /\ w \in [S -> Int]
  OBVIOUS
<1>3. pool \in Nat /\ \A i \in S : w[i] <= pool
  <2> HIDE DEF w
  <2>1. QED
    BY <1>2, TotalNat
<1>4. Apportion(total, chips) = IF pool = 0 THEN alone ELSE shares
  <2>1. DOMAIN chips = S
    OBVIOUS
  <2>2. QED
    BY <2>1 DEF Apportion
<1>5. CASE pool = 0
  <2> DEFINE z == [i \in S |-> 0]
             l == Least(S)
  <2>1. l \in S
    BY LeastIsLeast
  <2>2. Becomes(alone, z, l, t, S) /\ z \in [S -> Int] /\ alone \in [S -> Nat] /\ z[l] = 0
    <3> HIDE DEF l, t
    <3>1. alone = [i \in S |-> IF i = l THEN t ELSE 0]
      BY DEF l
    <3>2. QED
      BY <1>1, <2>1, <3>1 DEF Becomes
  <2>3. Total(z) = 0
    <3>1. z \in [S -> Int] /\ \A i \in S : z[i] = 0
      OBVIOUS
    <3> HIDE DEF z
    <3>2. QED
      BY <3>1, TotalZero
  <2>4. Total(alone) = t
    <3> HIDE DEF alone, z, t, l
    <3>1. Total(alone) = Total(z) + (t - z[l])
      BY <2>2, TotalBecomes
    <3>2. QED
      BY <1>1, <2>2, <2>3, <3>1
  <2>5. ASSUME NEW j \in S PROVE ~(chips[j] > 0)
    BY <1>2, <1>3, <1>5
  <2>6. QED
    BY <1>4, <1>5, <2>2, <2>4, <2>5
<1>6. CASE pool # 0
  <2>0. pool \in Nat \ {0} /\ pool \in Int
    BY <1>3, <1>6
  <2>1. ASSUME NEW i \in S
        PROVE  /\ exact[i] \in Int /\ exact[i] >= 0
               /\ w[i] = 0 => exact[i] = 0
               /\ base[i] = exact[i] \div pool /\ rem[i] = exact[i] % pool
               /\ base[i] \in Int /\ rem[i] \in Int /\ base[i] >= 0
               /\ exact[i] = 0 => base[i] = 0 /\ rem[i] = 0
    <3> DEFINE x == t * w[i]
    <3>1. w[i] \in Nat
      BY <1>2
    <3>2. x \in Nat /\ (w[i] = 0 => x = 0)
      <4> DEFINE v == w[i]
      <4> HIDE DEF t, v
      <4>1. t * v \in Nat /\ (v = 0 => t * v = 0)
        BY <1>1, <3>1 DEF v
      <4>2. QED
        BY <4>1 DEF v
    <3>3. x \div pool \in Int /\ x % pool \in Int /\ x \div pool >= 0 /\ (x = 0 => x \div pool = 0 /\ x % pool = 0)
      <4> HIDE DEF x, pool
      <4>1. ASSUME NEW a \in Nat, NEW n \in Nat \ {0}
            PROVE  a \div n >= 0 /\ a \div n \in Int /\ a % n \in Int
        <5>1. a \div n >= 0
          OBVIOUS
        <5>2. a \div n \in Int
          OBVIOUS
        <5>3. a % n \in Int
          OBVIOUS
        <5>4. QED
          BY <5>1, <5>2, <5>3
      <4>2. \A n \in Nat \ {0} : 0 \div n = 0 /\ 0 % n = 0
        OBVIOUS
      <4>3. QED
        BY <2>0, <3>2, <4>1, <4>2
    <3>4. exact[i] = x /\ base[i] = x \div pool /\ rem[i] = x % pool
      OBVIOUS
    <3> HIDE DEF x, exact, base, rem, pool, w, t
    <3>5. QED
      BY <3>1, <3>2, <3>3, <3>4
  <2>2. exact \in [S -> Int] /\ Times(exact, t, w, S)
    <3> HIDE DEF t, w
    <3>1. QED
      BY <1>1, <1>2 DEF Times
  <2>3. base \in [S -> Int] /\ rem \in [S -> Int] /\ shares \in [S -> Int]
    <3>1. \A i \in S : base[i] \in Int /\ rem[i] \in Int
      BY <2>1
    <3> DEFINE ax(i) == (t * w[i]) \div pool
               bx(i) == (t * w[i]) % pool
    <3>2. \A i \in S : ax(i) \in Int /\ bx(i) \in Int
      BY <3>1
    <3> HIDE DEF ax, bx
    <3>3. [i \in S |-> ax(i)] \in [S -> Int] /\ [i \in S |-> bx(i)] \in [S -> Int]
      BY <3>2
    <3>4. base \in [S -> Int] /\ rem \in [S -> Int]
      BY <3>3 DEF ax, bx
    <3> HIDE DEF base, rem, pool, w, t
    <3>5. shares \in [S -> Int]
      BY <3>4
    <3>6. QED
      BY <3>4, <3>5
  <2>4. \A i \in S : shares[i] = base[i] + IF i \in held /\ Rank(i, rem, held) < left THEN 1 ELSE 0
    OBVIOUS
  <2>5. held \in SUBSET S /\ \A i \in S \ held : w[i] = 0
    BY <1>2
  <2>6. Total(exact) = pool * t
    <3> HIDE DEF exact, w, t
    <3>1. Total(exact) = t * pool
      BY <2>2, TotalTimes
    <3> HIDE DEF pool
    <3>2. QED
      BY <1>1, <2>0, <3>1
  <2>7. \A i \in S \ held : rem[i] = 0 /\ base[i] = 0
    <3> HIDE DEF exact, base, rem, w, t, held, pool
    <3>1. QED
      BY <2>1, <2>5
  <2>8. Total(base) \in Int /\ left \in Int
    <3> HIDE DEF base, t
    <3>1. Total(base) \in Int
      BY <2>3, TotalType
    <3>2. QED
      BY <1>1, <3>1
  <2>9. left = t - Total(base)
    OBVIOUS
  <2> HIDE DEF exact, base, rem, w, t, held, pool, left, shares, alone
  <2>10. Split(S, pool, t, exact, base, rem, held, left, shares)
    BY <1>1, <2>0, <2>1, <2>2, <2>3, <2>4, <2>5, <2>6, <2>7, <2>8, <2>9 DEF Split
  <2>11. Total(shares) = t
    BY <1>1, <2>0, <2>8, <2>10, SplitIsWhole
  <2>12. shares \in [S -> Nat]
    <3>1. ASSUME NEW i \in S PROVE shares[i] \in Nat
      BY <2>1, <2>3, <2>4
    <3>2. QED
      BY <2>3, <3>1
  <2>13. ASSUME NEW i \in S, chips[i] <= 0 PROVE shares[i] = 0
    <3>1. i \notin held
      BY <2>13 DEF held, w
    <3>2. QED
      BY <2>4, <2>7, <3>1
  <2>14. ASSUME NEW i \in S, i \in held, rem[i] = 0 PROVE ~(Rank(i, rem, held) < left)
    <3> DEFINE P == {j \in S : rem[j] > 0}
               more == [j \in S |-> base[j] + IF j \in P /\ Rank(j, rem, P) < left THEN 1 ELSE 0]
               ahead == {j \in held : rem[j] > rem[i] \/ (rem[j] = rem[i] /\ j < i)}
    <3>1. P \in SUBSET S /\ P \subseteq held /\ P \subseteq S
      <4>1. ASSUME NEW j \in S, rem[j] > 0 PROVE j \in held
        <5>1. ~(0 > 0)
          OBVIOUS
        <5>2. QED
          BY <2>7, <4>1, <5>1
      <4>2. QED
        BY <4>1
    <3>2. \A j \in S \ P : rem[j] = 0
      <4>1. ASSUME NEW j \in S, ~(rem[j] > 0) PROVE rem[j] = 0
        <5>1. rem[j] \in 0 .. pool - 1
          BY <2>10, SplitParts
        <5>2. QED
          BY <2>0, <4>1, <5>1
      <4>2. QED
        BY <4>1
    <3>3. more \in [S -> Int] /\ \A j \in S : more[j] = base[j] + IF j \in P /\ Rank(j, rem, P) < left THEN 1 ELSE 0
      BY <2>3
    <3>4. P \subseteq ahead /\ ahead \subseteq S
      BY <2>1, <2>5, <2>14, <3>1
    <3>5. Rank(i, rem, held) = Cardinality(ahead)
      BY DEF Rank
    <3> HIDE DEF P, more, ahead
    <3>6. Split(S, pool, t, exact, base, rem, P, left, more)
      BY <2>10, <3>1, <3>2, <3>3 DEF Split
    <3>7. left \in 0 .. Cardinality(P)
      BY <1>1, <2>0, <2>8, <3>6, SplitRest
    <3>8. IsFiniteSet(ahead)
      BY <3>4, FS_Subset
    <3>9. IsFiniteSet(P) /\ Cardinality(P) <= Cardinality(ahead)
      BY <3>4, <3>8, FS_Subset
    <3>10. Cardinality(P) \in Nat /\ Cardinality(ahead) \in Nat
      BY <3>8, <3>9, FS_CardinalityType
    <3> DEFINE a == Cardinality(P)
               b == Cardinality(ahead)
    <3>11. a \in Nat /\ b \in Nat /\ a <= b /\ left \in 0 .. a /\ Rank(i, rem, held) = b
      BY <3>5, <3>7, <3>9, <3>10
    <3> HIDE DEF a, b
    <3>12. QED
      BY <3>11
  <2>15. ASSUME NEW i \in S
         PROVE  LET off == shares[i] * pool - t * w[i] IN -pool < off /\ off < pool
    <3> DEFINE x == exact[i]
               q == base[i]
               r == rem[i]
    <3>1. x \in Int /\ q \in Int /\ r = x - pool * q /\ r \in 0 .. pool - 1
      BY <2>10, SplitParts
    <3>2. shares[i] = q \/ (shares[i] = q + 1 /\ r # 0)
      BY <2>4, <2>14, <3>1
    <3>3. x = t * w[i]
      BY <2>2 DEF Times
    <3>4. (q + 1) * pool = pool * q + pool /\ q * pool = pool * q /\ pool * q \in Int
      <4> HIDE DEF q
      <4>1. QED
        BY <2>0, <3>1
    <3> DEFINE s == shares[i]
               y == s * pool
               p == pool * q
    <3>5. y = p \/ (y = p + pool /\ r # 0)
      BY <3>2, <3>4
    <3>6. p \in Int /\ r = x - p
      BY <3>1, <3>4
    <3> HIDE DEF x, q, r, s, y, p
    <3>7. -pool < y - x /\ y - x < pool
      BY <2>0, <3>1, <3>5, <3>6
    <3>8. QED
      BY <3>3, <3>7 DEF y, s
  <2>16. QED
    BY <1>4, <1>6, <2>11, <2>12, <2>13, <2>15 DEF t, w, pool
<1>7. QED
  BY <1>5, <1>6

\* What is left over when somebody with the part s of the pool is paid share of the
\* money, in units of which a chip is a and a cent is b: less than a cent more is off
\* than before
LEMMA OffByLess ==
  ASSUME NEW p \in Nat \ {0}, NEW q \in 0 .. p, NEW b \in Nat \ {0}, NEW e \in Int, e < p,
         NEW x \in Int, NEW m \in Nat, x <= m, NEW y \in Int, p * y = q * x + b * e
  PROVE  y < m + b
<1>1. q * x <= p * m
  <2>1. q \in Nat /\ m - x \in Nat /\ p - q \in Nat
    OBVIOUS
  <2>2. q * (m - x) >= 0 /\ (p - q) * m >= 0
    <3>1. \A i, j \in Nat : i * j >= 0
      OBVIOUS
    <3>2. QED
      BY <2>1, <3>1
  <2>3. q * (m - x) = q * m - q * x /\ (p - q) * m = p * m - q * m
    OBVIOUS
  <2>4. q * m \in Int /\ q * x \in Int /\ p * m \in Int
    OBVIOUS
  <2>5. QED
    BY <2>2, <2>3, <2>4
<1>2. b * e < p * b
  <2>1. p - e \in Nat \ {0}
    OBVIOUS
  <2>2. (p - e) * b >= p - e
    BY <2>1, TimesGrows
  <2>3. (p - e) * b = p * b - b * e /\ p * b \in Int /\ b * e \in Int
    OBVIOUS
  <2>4. QED
    BY <2>1, <2>2, <2>3
<1>3. p * (m + b) = p * m + p * b /\ p * m \in Int /\ p * b \in Int /\ q * x \in Int /\ b * e \in Int
  OBVIOUS
<1>4. p * y < p * (m + b)
  BY <1>1, <1>2, <1>3
<1>5. m + b \in Int
  OBVIOUS
<1>6. QED
  BY <1>4, <1>5, Cancelled

LEMMA PayingIsNear ==
  ASSUME NEW a \in Nat \ {0}, NEW b \in Nat \ {0}, NEW pool \in Nat, NEW s \in 0 .. pool,
         NEW money \in Nat, NEW share \in 0 .. money,
         pool # 0 => -pool < share * pool - money * s /\ share * pool - money * s < pool,
         NEW m \in Nat, a * pool - b * money <= m, -(a * pool - b * money) <= m
  PROVE  LET after == a * (pool - s) - b * (money - share)
         IN  after < m + b /\ -after < m + b
<1> DEFINE before == a * pool - b * money
           after == a * (pool - s) - b * (money - share)
<1>0. before \in Int /\ after \in Int /\ before <= m /\ -before <= m
  OBVIOUS
<1>1. CASE pool = 0
  <2>1. s = 0 /\ a * pool = 0 /\ a * (pool - s) = 0
    BY <1>1
  <2>2. /\ b * money \in Nat /\ b * share \in Nat /\ b * (money - share) \in Nat
        /\ b * (money - share) = b * money - b * share
    <3>1. \A i, j \in Nat : i * j \in Nat
      OBVIOUS
    <3>2. money - share \in Nat /\ share \in Nat
      OBVIOUS
    <3>3. QED
      BY <3>1, <3>2
  <2>3. b * money <= m
    BY <1>0, <2>1, <2>2
  <2>4. QED
    BY <2>1, <2>2, <2>3
<1>2. CASE pool # 0
  <2> DEFINE e == share * pool - money * s
             q == pool - s
  <2>1. /\ e \in Int /\ -pool < e /\ e < pool /\ q \in 0 .. pool /\ pool \in Nat \ {0}
        /\ -e < pool /\ -e \in Int /\ -before \in Int /\ -after \in Int
    <3>1. share * pool \in Int /\ money * s \in Int
      OBVIOUS
    <3>2. e \in Int
      BY <3>1
    <3>3. -pool < e /\ e < pool
      BY <1>2
    <3> HIDE DEF e, before, after
    <3>4. QED
      BY <1>0, <1>2, <3>2, <3>3
  <2>2. pool * after = q * before + b * e
    OBVIOUS
  <2>3. pool * (-after) = q * (-before) + b * (-e)
    <3>1. pool * (-after) = -(pool * after) /\ q * (-before) = -(q * before) /\ b * (-e) = -(b * e)
      <4> HIDE DEF before, after, e
      <4>1. QED
        BY <1>0, <2>1
    <3>2. pool * after \in Int /\ q * before \in Int /\ b * e \in Int
      <4> HIDE DEF before, after, e
      <4>1. QED
        BY <1>0, <2>1
    <3> HIDE DEF before, after, e, q
    <3>3. QED
      BY <2>2, <3>1, <3>2
  <2> HIDE DEF before, after, e, q
  <2>4. after < m + b
    BY <1>0, <2>1, <2>2, OffByLess
  <2>5. -after < m + b
    BY <1>0, <2>1, <2>3, OffByLess
  <2>6. QED
    BY <2>4, <2>5 DEF after
<1>3. QED
  BY <1>1, <1>2

\* A part of the money as large as a part of the chips; chips worth their money; and
\* what chips are worth beyond their money
FairShare(share, s, money, pool) ==
  pool # 0 => -pool < share * pool - money * s /\ share * pool - money * s < pool
AtRate(a, chips, b, cents) == a * chips = b * cents
Owing(a, chips, b, cents) == a * chips - b * cents

\* and nothing at all when the chips are worth the money, and s is w whole cents
LEMMA PayingIsExact ==
  ASSUME NEW a \in Nat \ {0}, NEW b \in Nat \ {0}, NEW pool \in Nat, NEW s \in 0 .. pool,
         NEW money \in Nat, NEW share \in 0 .. money, FairShare(share, s, money, pool),
         AtRate(a, pool, b, money), NEW w \in Int, AtRate(a, s, b, w)
  PROVE  Owing(a, pool - s, b, money - share) = 0
<1> SUFFICES ASSUME pool # 0 => -pool < share * pool - money * s /\ share * pool - money * s < pool,
                    a * pool = b * money, a * s = b * w
             PROVE  a * (pool - s) - b * (money - share) = 0
  BY DEF FairShare, AtRate, Owing
<1>1. CASE pool = 0
  <2>1. b * money = b * 0 /\ s = 0
    BY <1>1
  <2>2. money = 0
    BY <2>1, Cancelled
  <2>3. share = 0
    BY <2>2
  <2>4. QED
    BY <1>1, <2>1, <2>2, <2>3
<1>2. CASE pool # 0
  <2>1. a * (money * s) = a * (pool * w)
    <3>1. a * (money * s) = money * (a * s) /\ money * (b * w) = (b * money) * w
      OBVIOUS
    <3>2. (a * pool) * w = a * (pool * w)
      OBVIOUS
    <3>3. QED
      BY <3>1, <3>2
  <2>2. money * s \in Int /\ pool * w \in Int
    OBVIOUS
  <2>3. money * s = pool * w
    BY <2>1, <2>2, Cancelled
  <2>4. share = w
    <3> DEFINE d == share - w
    <3>1. pool * d = share * pool - pool * w /\ d \in Int
      OBVIOUS
    <3>2. -pool < pool * d /\ pool * d < pool
      BY <1>2, <2>3, <3>1
    <3> HIDE DEF d
    <3>3. pool \in Nat \ {0} /\ pool * 1 = pool /\ pool * (-1) = -pool
      BY <1>2
    <3>4. pool * d < pool * 1 /\ pool * (-1) < pool * d
      BY <3>2, <3>3
    <3>5. d < 1
      BY <3>1, <3>3, <3>4, Cancelled
    <3>6. -1 < d
      <4>1. -1 \in Int
        OBVIOUS
      <4>2. QED
        BY <3>1, <3>3, <3>4, <4>1, Cancelled
    <3>7. d = 0
      BY <3>1, <3>5, <3>6
    <3>8. QED
      BY <3>7 DEF d
  <2>5. a * (pool - s) = a * pool - a * s /\ b * (money - share) = b * money - b * share
    OBVIOUS
  <2>6. a * pool \in Int /\ a * s \in Int /\ b * money \in Int /\ b * share \in Int
    OBVIOUS
  <2>7. QED
    BY <2>4, <2>5, <2>6
<1>3. QED
  BY <1>1, <1>2

\* Amounts that are renamed, with nothing anywhere else
LEMMA TotalRenamed ==
  ASSUME NEW D, IsFiniteSet(D), NEW f \in [D -> Int], NEW E, IsFiniteSet(E), NEW g \in [E -> Int],
         NEW b \in [D -> E], \A x, y \in D : b[x] = b[y] => x = y,
         \A x \in D : f[x] = g[b[x]],
         \A y \in E : (\A x \in D : b[x] # y) => g[y] = 0
  PROVE  Total(f) = Total(g)
<1> DEFINE R == {b[x] : x \in D}
           T == E \ R
<1>1. R \in SUBSET E /\ T \in SUBSET E /\ R \cup T = E /\ R \cap T = {} /\ \A y \in T : g[y] = 0
  OBVIOUS
<1>2. SumOn(f, D) = SumOn(g, R)
  BY SumRenamed
<1> HIDE DEF R, T
<1>3. SumOn(g, T) = 0
  <2>1. SumOn(g, T) \in Int
    BY <1>1, SumType
  <2>2. PICK zero \in Int : zero = 0
    OBVIOUS
  <2>3. \A y \in T : g[y] = zero * g[y]
    BY <1>1, <2>2
  <2>4. SumOn(g, T) = zero * SumOn(g, T)
    BY <1>1, <2>3, SumTimes
  <2>5. QED
    BY <2>1, <2>2, <2>4
<1>4. SumOn(g, E) = SumOn(g, R) + SumOn(g, T)
  BY <1>1, SumParts
<1>5. SumOn(g, R) \in Int
  BY <1>1, SumType
<1>6. DOMAIN f = D /\ DOMAIN g = E
  OBVIOUS
<1>7. QED
  BY <1>2, <1>3, <1>4, <1>5, <1>6, TotalIsSum

\* The amounts of f without the one of x
LeftOut(g, f, x, D) == x \in D /\ f \in [D -> Int] /\ g = [y \in D \ {x} |-> f[y]]
LEMMA TotalWithout ==
  ASSUME NEW D, IsFiniteSet(D), NEW f, NEW g, NEW x, LeftOut(g, f, x, D)
  PROVE  Total(g) = Total(f) - f[x]
<1> DEFINE E == D \ {x}
<1>1. x \in D /\ f \in [D -> Int] /\ g \in [E -> Int] /\ \A y \in E : g[y] = f[y]
  BY DEF LeftOut
<1>2. E \in SUBSET E /\ E \subseteq D /\ IsFiniteSet(E) /\ D \in SUBSET D
  BY FS_Subset
<1> HIDE DEF E
<1>3. SumOn(g, E) = SumOn(f, E)
  BY <1>1, <1>2, SumSame
<1>4. SumOn(f, D) = f[x] + SumOn(f, E)
  BY <1>1, <1>2, SumTakeOut DEF E
<1>5. SumOn(f, E) \in Int /\ f[x] \in Int
  BY <1>1, <1>2, SumType
<1>6. DOMAIN f = D /\ DOMAIN g = E
  BY <1>1
<1>7. Total(g) = SumOn(g, E) /\ Total(f) = SumOn(f, D)
  BY <1>6, TotalIsSum
<1>8. QED
  BY <1>3, <1>4, <1>5, <1>7

-----------------------------------------------------------------------------
(* Sums of sums *)

\* One amount that is not zero
LEMMA TotalOnly ==
  ASSUME NEW D, IsFiniteSet(D), NEW f \in [D -> Int], NEW x \in D, \A y \in D \ {x} : f[y] = 0
  PROVE  Total(f) = f[x]
<1> DEFINE zero == [y \in D |-> 0]
<1>1. Becomes(f, zero, x, f[x], D) /\ zero \in [D -> Int]
  BY DEF Becomes
<1>2. Total(zero) = 0
  BY <1>1, TotalZero
<1>3. zero[x] = 0 /\ f[x] \in Int
  OBVIOUS
<1> HIDE DEF zero
<1>4. Total(f) = Total(zero) + (f[x] - zero[x])
  BY <1>1, TotalBecomes
<1>5. QED
  BY <1>2, <1>3, <1>4

\* Only the amounts of E count
LEMMA TotalWithin ==
  ASSUME NEW D, IsFiniteSet(D), NEW f \in [D -> Int], NEW E \in SUBSET D,
         \A x \in D \ E : f[x] = 0
  PROVE  IsFiniteSet(E) /\ Total(f) = Total([x \in E |-> f[x]])
<1> DEFINE h == [x \in E |-> f[x]]
<1>1. IsFiniteSet(E) /\ IsFiniteSet(D \ E)
  BY FS_Subset
<1>2. h \in [E -> Int] /\ \A x \in E : h[x] = f[x]
  OBVIOUS
<1>3. SumOn(f, E \cup (D \ E)) = SumOn(f, E) + SumOn(f, D \ E) /\ E \cup (D \ E) = D
  BY SumParts
<1> HIDE DEF h
<1>4. SumOn(f, E) = SumOn(h, E)
  BY <1>1, <1>2, SumSame
<1>5. SumOn(f, D \ E) = 0
  <2> DEFINE zero == [x \in D \ E |-> 0]
  <2>1. zero \in [D \ E -> Int] /\ \A x \in D \ E : zero[x] = 0 /\ f[x] = zero[x]
    OBVIOUS
  <2> HIDE DEF zero
  <2>2. SumOn(f, D \ E) = SumOn(zero, D \ E)
    BY <1>1, <2>1, SumSame
  <2>3. Total(zero) = 0 /\ Total(zero) = SumOn(zero, D \ E)
    BY <1>1, <2>1, TotalZero, TotalIsSum
  <2>4. QED
    BY <2>2, <2>3
<1>6. SumOn(h, E) \in Int /\ Total(h) = SumOn(h, E) /\ Total(f) = SumOn(f, D)
  BY <1>1, <1>2, SumType, TotalIsSum
<1>7. SumOn(f, D) = SumOn(f, E) + SumOn(f, D \ E)
  BY <1>3
<1>8. Total(f) = Total(h)
  BY <1>4, <1>5, <1>6, <1>7
<1>9. QED
  BY <1>1, <1>8 DEF h

\* A table of amounts, by rows or by columns
Row(g, x, B) == [y \in B |-> g[x][y]]
Column(g, y, A) == [x \in A |-> g[x][y]]
IsTable(g, A, B) == \A x \in A, y \in B : g[x][y] \in Int
LEMMA TotalSwap ==
  ASSUME NEW A, IsFiniteSet(A), NEW B, IsFiniteSet(B), NEW g, IsTable(g, A, B)
  PROVE  /\ [x \in A |-> Total(Row(g, x, B))] \in [A -> Int]
         /\ [y \in B |-> Total(Column(g, y, A))] \in [B -> Int]
         /\ Total([x \in A |-> Total(Row(g, x, B))]) = Total([y \in B |-> Total(Column(g, y, A))])
<1> DEFINE rows == [x \in A |-> Total(Row(g, x, B))]
           col(y) == Column(g, y, A)
           upto(S) == [y \in B |-> SumOn(col(y), S)]
           P == {S \in SUBSET A : SumOn(rows, S) = Total(upto(S))}
<1>1. \A x \in A : Row(g, x, B) \in [B -> Int] /\ Total(Row(g, x, B)) \in Int
  BY TotalType DEF Row, IsTable
<1>2. \A y \in B : col(y) \in [A -> Int] /\ Total(col(y)) \in Int /\ DOMAIN col(y) = A
  BY TotalType DEF Column, IsTable
<1>3. rows \in [A -> Int]
  BY <1>1
<1>4. \A S \in SUBSET A : upto(S) \in [B -> Int]
  <2> SUFFICES ASSUME NEW S \in SUBSET A, NEW y \in B PROVE SumOn(col(y), S) \in Int
    OBVIOUS
  <2> HIDE DEF col
  <2>1. QED
    BY <1>2, SumType
<1>5. ASSUME NEW S \in SUBSET A, \A x \in S : S \ {x} \in P PROVE S \in P
  <2>1. CASE S = {}
    <3>1. SumOn(rows, {}) = 0
      BY <1>3, SumEmpty
    <3>2. \A y \in B : SumOn(col(y), {}) = 0
      <4> HIDE DEF col
      <4> QED BY <1>2, SumEmpty
    <3>3. upto({}) \in [B -> Int] /\ \A y \in B : upto({})[y] = 0
      BY <1>4, <3>2
    <3>4. Total(upto({})) = 0
      <4> HIDE DEF upto
      <4> QED BY <3>3, TotalZero
    <3>5. QED
      BY <2>1, <3>1, <3>4
  <2>2. CASE S # {}
    <3>1. PICK x \in S : TRUE
      BY <2>2
    <3> DEFINE R == S \ {x}
    <3>2. R \in SUBSET A /\ x \in A /\ SumOn(rows, R) = Total(upto(R))
      BY <1>5, <3>1
    <3>3. SumOn(rows, S) = rows[x] + SumOn(rows, R)
      <4> HIDE DEF rows
      <4> QED BY <1>3, <3>1, SumTakeOut
    <3>4. \A y \in B : SumOn(col(y), S) = col(y)[x] + SumOn(col(y), R)
      <4> HIDE DEF col
      <4> QED BY <1>2, <3>1, SumTakeOut
    <3>5. \A y \in B : col(y)[x] = Row(g, x, B)[y]
      BY <3>2 DEF Row, Column
    <3>6. Adds(upto(S), Row(g, x, B), upto(R), B)
      <4>1. upto(S) \in [B -> Int] /\ upto(R) \in [B -> Int] /\ Row(g, x, B) \in [B -> Int]
        BY <1>1, <1>4, <3>2
      <4>2. \A y \in B : upto(S)[y] = Row(g, x, B)[y] + upto(R)[y]
        BY <3>4, <3>5
      <4> HIDE DEF upto
      <4>3. QED
        BY <4>1, <4>2 DEF Adds
    <3>7. Total(upto(S)) = Total(Row(g, x, B)) + Total(upto(R))
      <4> HIDE DEF upto
      <4> QED BY <3>6, TotalAdds
    <3>8. rows[x] = Total(Row(g, x, B))
      BY <3>2
    <3>9. SumOn(rows, S) = Total(upto(S))
      BY <3>2, <3>3, <3>7, <3>8
    <3>10. QED
      BY <3>9
  <2>3. QED
    BY <2>1, <2>2
<1>6. A \in P
  <2> HIDE DEF P
  <2> QED BY <1>5, SubsetInduction
<1>7. SumOn(rows, A) = Total(rows)
  BY <1>3, TotalIsSum
<1>8. upto(A) = [y \in B |-> Total(col(y))]
  <2>1. \A y \in B : SumOn(col(y), A) = Total(col(y))
    <3> HIDE DEF col
    <3> QED BY <1>2, TotalIsSum
  <2>2. QED
    BY <2>1
<1>9. Total(rows) = Total([y \in B |-> Total(col(y))])
  BY <1>6, <1>7, <1>8
<1>10. QED
  BY <1>1, <1>2, <1>9

\* The amounts of D, kind by kind
OfKind(f, m, k, D) == [x \in {y \in D : m[y] = k} |-> f[x]]
LEMMA TotalByKind ==
  ASSUME NEW D, IsFiniteSet(D), NEW f \in [D -> Int], NEW K, IsFiniteSet(K), NEW m \in [D -> K]
  PROVE  /\ [k \in K |-> Total(OfKind(f, m, k, D))] \in [K -> Int]
         /\ Total(f) = Total([k \in K |-> Total(OfKind(f, m, k, D))])
<1> DEFINE g == [x \in D |-> [k \in K |-> IF m[x] = k THEN f[x] ELSE 0]]
<1>1. IsTable(g, D, K) /\ \A x \in D, k \in K : g[x][k] = IF m[x] = k THEN f[x] ELSE 0
  BY DEF IsTable
<1> HIDE DEF g
<1>2. ASSUME NEW x \in D PROVE Total(Row(g, x, K)) = f[x]
  <2>1. Row(g, x, K) \in [K -> Int] /\ Row(g, x, K)[m[x]] = f[x] /\ m[x] \in K
        /\ \A k \in K \ {m[x]} : Row(g, x, K)[k] = 0
    BY <1>1 DEF Row
  <2>2. QED
    BY <2>1, TotalOnly
<1>3. [x \in D |-> Total(Row(g, x, K))] = f
  BY <1>2
<1>4. ASSUME NEW k \in K PROVE Total(Column(g, k, D)) = Total(OfKind(f, m, k, D))
  <2> DEFINE E == {y \in D : m[y] = k}
             c == Column(g, k, D)
  <2>1. E \in SUBSET D /\ c \in [D -> Int] /\ \A x \in D \ E : c[x] = 0
    BY <1>1 DEF Column
  <2>2. OfKind(f, m, k, D) = [x \in E |-> c[x]]
    BY <1>1 DEF Column, OfKind
  <2> HIDE DEF E, c
  <2>3. Total(c) = Total([x \in E |-> c[x]])
    BY <2>1, TotalWithin
  <2>4. QED
    BY <2>2, <2>3 DEF c
<1>5. [k \in K |-> Total(Column(g, k, D))] = [k \in K |-> Total(OfKind(f, m, k, D))]
  BY <1>4
<1>6. QED
  BY <1>1, <1>3, <1>5, TotalSwap

=============================================================================
