---------------------------- MODULE SetLemmas -----------------------------
(* Finite sets: least and greatest elements, which the CHOOSE expressions of   *)
(* the components ask for, and sums over finite sets.                          *)
EXTENDS Integers, FiniteSets, FiniteSetsExt, Functions, FiniteSetTheorems, WellFoundedInduction, TLAPS

\* A set of natural numbers has a least element.
LEMMA LeastExists ==
  ASSUME NEW S \in SUBSET Nat, S # {}
  PROVE  \E n \in S : \A m \in S : n <= m
<1>1. IsWellFoundedOn(OpToRel(<, Nat), Nat)
  BY NatLessThanWellFounded
<1>2. PICK n \in S : \A m \in S : ~(<<m, n>> \in OpToRel(<, Nat))
  <2> HIDE DEF OpToRel
  <2> QED
    BY <1>1, WFMin
<1>3. ASSUME NEW m \in S PROVE n <= m
  <2>1. ~(<<m, n>> \in {ss \in Nat \X Nat : ss[1] < ss[2]})
    BY <1>2 DEF OpToRel
  <2> QED
    BY <2>1
<1> QED
  BY <1>2, <1>3

\* A finite set of integers has a greatest element.
LEMMA GreatestExists ==
  ASSUME NEW S \in SUBSET Int, IsFiniteSet(S), S # {}
  PROVE  \E n \in S : \A m \in S : m <= n
<1> DEFINE HasGreatest(T) == \E n \in T : \A m \in T : m <= n
           Bad == {T \in SUBSET S : T # {} /\ ~HasGreatest(T)}
<1>1. IsWellFoundedOn(StrictSubsetOrdering(S), SUBSET S)
  BY FS_StrictSubsetOrderingWellFounded, FS_FiniteSubsetsOfFinite
<1>2. SUFFICES ASSUME Bad # {} PROVE FALSE
  BY DEF HasGreatest
<1>3. PICK T \in Bad : \A U \in Bad : ~(<<U, T>> \in StrictSubsetOrdering(S))
  <2>1. Bad \subseteq SUBSET S
    OBVIOUS
  <2> HIDE DEF Bad
  <2> QED
    BY <1>1, <1>2, <2>1, WFMin
<1>4. PICK x \in T : TRUE
  BY <1>3
<1>5. T \ {x} \notin Bad
  <2>1. <<T \ {x}, T>> \in StrictSubsetOrdering(S)
    BY <1>3, <1>4 DEF StrictSubsetOrdering
  <2> QED
    BY <1>3, <2>1
<1>6. T \subseteq Int /\ T \in SUBSET S
  BY <1>3
<1>7. CASE T \ {x} = {}
  <2>1. \A m \in T : m <= x
    BY <1>4, <1>6, <1>7
  <2> QED
    BY <1>3, <1>4, <2>1
<1>8. CASE T \ {x} # {}
  <2>1. PICK y \in T \ {x} : \A m \in T \ {x} : m <= y
    BY <1>5, <1>6, <1>8
  <2>2. CASE y <= x
    BY <1>3, <1>4, <1>6, <2>1, <2>2
  <2>3. CASE ~(y <= x)
    BY <1>3, <1>4, <1>6, <2>1, <2>3
  <2> QED
    BY <2>2, <2>3
<1> QED
  BY <1>7, <1>8

\* The CHOOSEs of Max and Min.
LEMMA MaxFacts ==
  ASSUME NEW S \in SUBSET Int, IsFiniteSet(S), S # {}
  PROVE  Max(S) \in S /\ \A y \in S : y <= Max(S)
<1>1. PICK n \in S : \A m \in S : m <= n
  BY GreatestExists
<1>2. \A y \in S : n >= y
  BY <1>1
<1> QED
  BY <1>1, <1>2 DEF Max

LEMMA MaxIs ==
  ASSUME NEW S \in SUBSET Int, NEW m \in S, \A y \in S : y <= m
  PROVE  Max(S) = m
<1>1. \A y \in S : m >= y
  OBVIOUS
<1>2. Max(S) \in S /\ \A y \in S : Max(S) >= y
  BY <1>1 DEF Max
<1>3. Max(S) \in Int /\ m \in Int /\ m >= Max(S) /\ Max(S) >= m
  BY <1>1, <1>2
<1> QED
  BY <1>3

LEMMA MaxOfOne ==
  ASSUME NEW n \in Int
  PROVE  Max({n}) = n
<1>1. {n} \in SUBSET Int /\ n \in {n} /\ \A y \in {n} : y <= n
  OBVIOUS
<1> QED
  BY <1>1, MaxIs

LEMMA MaxOfTwo ==
  ASSUME NEW m \in Int, NEW n \in Int
  PROVE  Max({m, n}) = IF m <= n THEN n ELSE m
<1>1. CASE m <= n
  BY <1>1, MaxIs
<1>2. CASE ~(m <= n)
  <2>1. \A y \in {m, n} : y <= m
    BY <1>2
  <2>2. Max({m, n}) = m
    BY <2>1, MaxIs
  <2> QED
    BY <1>2, <2>2
<1> QED
  BY <1>1, <1>2

LEMMA MinFacts ==
  ASSUME NEW S \in SUBSET Nat, S # {}
  PROVE  Min(S) \in S /\ \A y \in S : Min(S) <= y
<1>1. PICK n \in S : \A m \in S : n <= m
  BY LeastExists
<1> QED
  BY <1>1 DEF Min

LEMMA MinIs ==
  ASSUME NEW S \in SUBSET Int, NEW m \in S, \A y \in S : m <= y
  PROVE  Min(S) = m
<1>1. Min(S) \in S /\ \A y \in S : Min(S) <= y
  BY DEF Min
<1>2. Min(S) \in Int /\ m \in Int /\ m <= Min(S) /\ Min(S) <= m
  BY <1>1
<1> QED
  BY <1>2

-----------------------------------------------------------------------------
(* Sums over a finite set.  SumFunctionOnSet is a recursive function on the    *)
(* subsets; a minimal counterexample (WFMin) stands for induction over them.   *)
Pick(s) == CHOOSE x \in s : TRUE
SumStep(f, S, g) ==
  [s \in SUBSET S |-> IF s = {} THEN 0 ELSE f[Pick(s)] + g[s \ {Pick(s)}]]
SumFcn(f, S) == CHOOSE g : g = SumStep(f, S, g)

LEMMA SumIsIteration ==
  ASSUME NEW f, NEW S
  PROVE  SumFunctionOnSet(f, S) = SumFcn(f, S)[S]
BY DEF SumFunctionOnSet, FoldFunctionOnSet, MapThenFoldSet, SumFcn, SumStep, Pick

\* A property of subsets that fails has a smallest set for which it fails.
LEMMA SmallestSet ==
  ASSUME NEW S, IsFiniteSet(S), NEW Bad \in SUBSET SUBSET S, Bad # {}
  PROVE  \E T \in Bad : IsFiniteSet(T) /\ \A x \in T : T \ {x} \notin Bad
<1>1. IsWellFoundedOn(StrictSubsetOrdering(S), SUBSET S)
  BY FS_StrictSubsetOrderingWellFounded, FS_FiniteSubsetsOfFinite
<1>2. PICK T \in Bad : \A U \in Bad : ~(<<U, T>> \in StrictSubsetOrdering(S))
  BY <1>1, WFMin
<1>3. ASSUME NEW x \in T PROVE T \ {x} \notin Bad
  <2>1. <<T \ {x}, T>> \in StrictSubsetOrdering(S)
    BY <1>2, <1>3 DEF StrictSubsetOrdering
  <2> QED
    BY <1>2, <2>1
<1>4. IsFiniteSet(T)
  BY FS_Subset
<1> QED
  BY <1>2, <1>3, <1>4

LEMMA Picked ==
  ASSUME NEW S, S # {}
  PROVE  Pick(S) \in S
BY DEF Pick

LEMMA SumUnique ==
  ASSUME NEW f, NEW U, NEW V, NEW g, NEW h, g = SumStep(f, U, g), h = SumStep(f, V, h),
         NEW S \in SUBSET (U \cap V), IsFiniteSet(S)
  PROVE  g[S] = h[S]
<1> DEFINE Bad == {T \in SUBSET S : g[T] # h[T]}
<1>1. SUFFICES ASSUME Bad # {} PROVE FALSE
  OBVIOUS
<1>2. PICK T \in Bad : \A x \in T : T \ {x} \notin Bad
  <2> HIDE DEF Bad
  <2>1. Bad \in SUBSET SUBSET S
    BY DEF Bad
  <2> QED
    BY <1>1, <2>1, SmallestSet
<1>3. T \in SUBSET U /\ T \in SUBSET V /\ \A x : T \ {x} \in SUBSET S
  OBVIOUS
<1>4. /\ g[T] = IF T = {} THEN 0 ELSE f[Pick(T)] + g[T \ {Pick(T)}]
      /\ h[T] = IF T = {} THEN 0 ELSE f[Pick(T)] + h[T \ {Pick(T)}]
  BY <1>3 DEF SumStep
<1>5. T # {} => g[T \ {Pick(T)}] = h[T \ {Pick(T)}]
  BY <1>2, <1>3, Picked
<1> QED
  BY <1>2, <1>4, <1>5

LEMMA SumExists ==
  ASSUME NEW f, NEW S, IsFiniteSet(S)
  PROVE  SumFcn(f, S) = SumStep(f, S, SumFcn(f, S))
<1> DEFINE Bad == {T \in SUBSET S : SumFcn(f, T) # SumStep(f, T, SumFcn(f, T))}
<1>1. SUFFICES ASSUME Bad # {} PROVE FALSE
  OBVIOUS
<1>2. PICK T \in Bad : IsFiniteSet(T) /\ \A U \in SUBSET T : U # T => U \notin Bad
  <2>1. IsWellFoundedOn(StrictSubsetOrdering(S), SUBSET S)
    BY FS_StrictSubsetOrderingWellFounded, FS_FiniteSubsetsOfFinite
  <2>2. PICK T \in Bad : \A U \in Bad : ~(<<U, T>> \in StrictSubsetOrdering(S))
    <3>1. Bad \in SUBSET SUBSET S
      OBVIOUS
    <3> HIDE DEF Bad
    <3> QED
      BY <1>1, <2>1, <3>1, WFMin
  <2>3. \A U \in SUBSET T : U # T => U \notin Bad
    <3>1. \A U \in SUBSET T : U # T => <<U, T>> \in StrictSubsetOrdering(S)
      BY <2>2 DEF StrictSubsetOrdering
    <3> QED
      BY <2>2, <3>1
  <2>4. T \in SUBSET S
    OBVIOUS
  <2>5. IsFiniteSet(T)
    BY <2>4, FS_Subset
  <2> QED
    BY <2>2, <2>3, <2>5
<1>3. \A U \in SUBSET T : U # T => SumFcn(f, U) = SumStep(f, U, SumFcn(f, U))
  BY <1>2
<1>4. \A U \in SUBSET T : IsFiniteSet(U)
  BY <1>2, FS_Subset
<1> HIDE DEF Bad
<1> DEFINE part == [U \in SUBSET T |-> SumFcn(f, U)[U]]
           g == [U \in SUBSET T |-> IF U = {} THEN 0 ELSE f[Pick(U)] + part[U \ {Pick(U)}]]
<1>5. ASSUME NEW U \in SUBSET T, U # T PROVE g[U] = part[U]
  <2>1. SumFcn(f, U) = SumStep(f, U, SumFcn(f, U))
    BY <1>3, <1>5
  <2>2. SumFcn(f, U)[U] = IF U = {} THEN 0 ELSE f[Pick(U)] + SumFcn(f, U)[U \ {Pick(U)}]
    BY <2>1 DEF SumStep
  <2>3. ASSUME U # {} PROVE SumFcn(f, U)[U \ {Pick(U)}] = SumFcn(f, U \ {Pick(U)})[U \ {Pick(U)}]
    <3> DEFINE W == U \ {Pick(U)}
    <3>1. W \in SUBSET T /\ W # T /\ W \in SUBSET (U \cap W)
      BY <1>5, <2>3, Picked
    <3>2. SumFcn(f, W) = SumStep(f, W, SumFcn(f, W)) /\ IsFiniteSet(W)
      BY <1>3, <1>4, <3>1
    <3> HIDE DEF W
    <3> QED
      BY <2>1, <3>1, <3>2, SumUnique DEF W
  <2> QED
    BY <2>2, <2>3
<1>6. g = SumStep(f, T, g)
  <2>1. ASSUME NEW U \in SUBSET T, U # {} PROVE part[U \ {Pick(U)}] = g[U \ {Pick(U)}]
    <3>1. U \ {Pick(U)} \in SUBSET T /\ U \ {Pick(U)} # T
      BY <2>1, Picked
    <3> HIDE DEF part, g
    <3> QED
      BY <1>5, <3>1
  <2>2. \A U \in SUBSET T : g[U] = IF U = {} THEN 0 ELSE f[Pick(U)] + g[U \ {Pick(U)}]
    <3> SUFFICES ASSUME NEW U \in SUBSET T
                 PROVE  g[U] = IF U = {} THEN 0 ELSE f[Pick(U)] + g[U \ {Pick(U)}]
      OBVIOUS
    <3>1. g[U] = IF U = {} THEN 0 ELSE f[Pick(U)] + part[U \ {Pick(U)}]
      OBVIOUS
    <3> HIDE DEF part, g
    <3> QED
      BY <2>1, <3>1
  <2>3. g = [U \in SUBSET T |-> g[U]]
    OBVIOUS
  <2> HIDE DEF part, g
  <2> QED
    BY <2>2, <2>3 DEF SumStep
<1> HIDE DEF part, g
<1>7. SumFcn(f, T) = SumStep(f, T, SumFcn(f, T))
  BY <1>6 DEF SumFcn
<1> QED
  BY <1>2, <1>7 DEF Bad

LEMMA SumOfNone ==
  ASSUME NEW f
  PROVE  SumFunctionOnSet(f, {}) = 0
<1>1. SumFcn(f, {}) = SumStep(f, {}, SumFcn(f, {}))
  BY SumExists, FS_EmptySet
<1>2. SumFcn(f, {})[{}] = 0
  BY <1>1 DEF SumStep
<1> QED
  BY <1>2, SumIsIteration

LEMMA SumPicks ==
  ASSUME NEW f, NEW S, IsFiniteSet(S), S # {}
  PROVE  SumFunctionOnSet(f, S) = f[Pick(S)] + SumFunctionOnSet(f, S \ {Pick(S)})
<1> DEFINE T == S \ {Pick(S)}
<1>1. IsFiniteSet(T) /\ T \in SUBSET (S \cap T)
  BY FS_Subset
<1> HIDE DEF T
<1>2. SumFcn(f, S) = SumStep(f, S, SumFcn(f, S)) /\ SumFcn(f, T) = SumStep(f, T, SumFcn(f, T))
  BY <1>1, SumExists
<1>3. SumFcn(f, S)[T] = SumFcn(f, T)[T]
  BY <1>1, <1>2, SumUnique
<1>4. SumFcn(f, S)[S] = f[Pick(S)] + SumFcn(f, S)[T]
  BY <1>2 DEF SumStep, T
<1> QED
  BY <1>3, <1>4, SumIsIteration DEF T

LEMMA SumIsInt ==
  ASSUME NEW f, NEW S, IsFiniteSet(S), \A x \in S : f[x] \in Int
  PROVE  SumFunctionOnSet(f, S) \in Int
<1> DEFINE Bad == {T \in SUBSET S : SumFunctionOnSet(f, T) \notin Int}
<1>1. SUFFICES ASSUME Bad # {} PROVE FALSE
  OBVIOUS
<1>2. PICK T \in Bad : IsFiniteSet(T) /\ \A x \in T : T \ {x} \notin Bad
  <2> HIDE DEF Bad
  <2>1. Bad \in SUBSET SUBSET S
    BY DEF Bad
  <2> QED
    BY <1>1, <2>1, SmallestSet
<1>3. T # {}
  BY SumOfNone
<1>4. SumFunctionOnSet(f, T \ {Pick(T)}) \in Int /\ Pick(T) \in T
  BY <1>2, <1>3, Picked
<1>5. SumFunctionOnSet(f, T) = f[Pick(T)] + SumFunctionOnSet(f, T \ {Pick(T)})
  BY <1>2, <1>3, SumPicks
<1> QED
  BY <1>4, <1>5

\* A sum depends on the summands only.
LEMMA SumOfSame ==
  ASSUME NEW f, NEW g, NEW S, IsFiniteSet(S), \A x \in S : f[x] = g[x]
  PROVE  SumFunctionOnSet(f, S) = SumFunctionOnSet(g, S)
<1> DEFINE Bad == {T \in SUBSET S : SumFunctionOnSet(f, T) # SumFunctionOnSet(g, T)}
<1>1. SUFFICES ASSUME Bad # {} PROVE FALSE
  OBVIOUS
<1>2. PICK T \in Bad : IsFiniteSet(T) /\ \A x \in T : T \ {x} \notin Bad
  <2> HIDE DEF Bad
  <2>1. Bad \in SUBSET SUBSET S
    BY DEF Bad
  <2> QED
    BY <1>1, <2>1, SmallestSet
<1>3. T # {}
  BY SumOfNone
<1>4. SumFunctionOnSet(f, T \ {Pick(T)}) = SumFunctionOnSet(g, T \ {Pick(T)}) /\ f[Pick(T)] = g[Pick(T)]
  BY <1>2, <1>3, Picked
<1> QED
  BY <1>2, <1>3, <1>4, SumPicks

\* The sum without one element, whichever it is.
LEMMA SumWithout ==
  ASSUME NEW f, NEW S, IsFiniteSet(S), \A x \in S : f[x] \in Int, NEW a \in S
  PROVE  SumFunctionOnSet(f, S) = f[a] + SumFunctionOnSet(f, S \ {a})
<1> DEFINE Sum(T) == SumFunctionOnSet(f, T)
           Bad == {T \in SUBSET S : \E x \in T : Sum(T) # f[x] + Sum(T \ {x})}
<1>1. SUFFICES ASSUME Bad # {} PROVE FALSE
  OBVIOUS
<1>2. PICK T \in Bad : IsFiniteSet(T) /\ \A x \in T : T \ {x} \notin Bad
  <2> HIDE DEF Bad
  <2>1. Bad \in SUBSET SUBSET S
    BY DEF Bad
  <2> QED
    BY <1>1, <2>1, SmallestSet
<1>3. T \in SUBSET S
  OBVIOUS
<1>4. PICK x \in T : Sum(T) # f[x] + Sum(T \ {x})
  OBVIOUS
<1>5. \A y \in T : \A z \in T \ {y} : Sum(T \ {y}) = f[z] + Sum((T \ {y}) \ {z})
  BY <1>2, <1>3
<1>6. \A U \in SUBSET T : Sum(U) \in Int
  <2> SUFFICES ASSUME NEW U \in SUBSET T PROVE Sum(U) \in Int
    OBVIOUS
  <2>1. IsFiniteSet(U) /\ \A y \in U : f[y] \in Int
    BY <1>2, <1>3, FS_Subset
  <2> QED
    BY <2>1, SumIsInt
<1> DEFINE p == Pick(T)
<1>7. p \in T /\ Sum(T) = f[p] + Sum(T \ {p})
  BY <1>2, <1>4, Picked, SumPicks
<1> HIDE DEF Sum, p, Bad
<1>8. p # x
  BY <1>4, <1>7
<1>9. Sum(T \ {p}) = f[x] + Sum((T \ {p}) \ {x}) /\ Sum(T \ {x}) = f[p] + Sum((T \ {x}) \ {p})
  BY <1>4, <1>5, <1>7, <1>8
<1>10. (T \ {p}) \ {x} = (T \ {x}) \ {p}
  OBVIOUS
<1>11. f[x] \in Int /\ f[p] \in Int /\ Sum((T \ {x}) \ {p}) \in Int
  BY <1>3, <1>4, <1>6, <1>7
<1>12. Sum(T) = f[p] + (f[x] + Sum((T \ {x}) \ {p})) /\ Sum(T \ {x}) = f[p] + Sum((T \ {x}) \ {p})
  BY <1>7, <1>9, <1>10
<1>13. Sum(T) = f[x] + Sum(T \ {x})
  <2> DEFINE s == Sum((T \ {x}) \ {p})
  <2>1. f[p] + (f[x] + s) = f[x] + (f[p] + s)
    <3> HIDE DEF s
    <3>1. \A i, j, k \in Int : i + (j + k) = j + (i + k)
      OBVIOUS
    <3> QED
      BY <1>11, <3>1 DEF s
  <2> QED
    BY <1>12, <2>1
<1> QED
  BY <1>4, <1>13

LEMMA SumWith ==
  ASSUME NEW f, NEW S, IsFiniteSet(S), NEW a, a \notin S, \A x \in S \cup {a} : f[x] \in Int
  PROVE  SumFunctionOnSet(f, S \cup {a}) = f[a] + SumFunctionOnSet(f, S)
<1>1. IsFiniteSet(S \cup {a}) /\ (S \cup {a}) \ {a} = S
  BY FS_AddElement
<1> DEFINE T == S \cup {a}
<1>2. SumFunctionOnSet(f, T) = f[a] + SumFunctionOnSet(f, T \ {a})
  BY <1>1, SumWithout
<1> QED
  BY <1>1, <1>2

LEMMA SumOfConstant ==
  ASSUME NEW c \in Int, NEW S, IsFiniteSet(S), NEW f, \A x \in S : f[x] = c
  PROVE  SumFunctionOnSet(f, S) = c * Cardinality(S)
<1> DEFINE Bad == {T \in SUBSET S : SumFunctionOnSet(f, T) # c * Cardinality(T)}
<1>1. SUFFICES ASSUME Bad # {} PROVE FALSE
  OBVIOUS
<1>2. PICK T \in Bad : IsFiniteSet(T) /\ \A x \in T : T \ {x} \notin Bad
  <2> HIDE DEF Bad
  <2>1. Bad \in SUBSET SUBSET S
    BY DEF Bad
  <2> QED
    BY <1>1, <2>1, SmallestSet
<1>3. T # {}
  BY SumOfNone, FS_EmptySet
<1> DEFINE U == T \ {Pick(T)}
<1>4. SumFunctionOnSet(f, U) = c * Cardinality(U) /\ f[Pick(T)] = c
  BY <1>2, <1>3, Picked
<1>5. Cardinality(U) = Cardinality(T) - 1 /\ Cardinality(T) \in Nat
  BY <1>2, <1>3, Picked, FS_RemoveElement, FS_CardinalityType
<1>6. SumFunctionOnSet(f, T) = c + SumFunctionOnSet(f, U)
  BY <1>2, <1>3, <1>4, SumPicks
<1>7. SumFunctionOnSet(f, T) = c + c * (Cardinality(T) - 1)
  BY <1>4, <1>5, <1>6
<1>8. \A n \in Nat : c + c * (n - 1) = c * n
  OBVIOUS
<1>9. SumFunctionOnSet(f, T) = c * Cardinality(T)
  BY <1>5, <1>7, <1>8
<1> QED
  BY <1>9

\* Before FS_Image, which takes an operator.
LEMMA FiniteImage ==
  ASSUME NEW f, IsFiniteSet(DOMAIN f), f = [x \in DOMAIN f |-> f[x]]
  PROVE  IsFiniteSet({f[x] : x \in DOMAIN f})
<1> DEFINE T == {f[x] : x \in DOMAIN f}
<1>1. f \in Surjection(DOMAIN f, T)
  BY DEF Surjection
<1> HIDE DEF T
<1> QED
  BY <1>1, FS_Surjection DEF T

LEMMA SumOfUnion ==
  ASSUME NEW f, NEW A, NEW B, IsFiniteSet(A), IsFiniteSet(B), A \cap B = {}, \A x \in A \cup B : f[x] \in Int
  PROVE  SumFunctionOnSet(f, A \cup B) = SumFunctionOnSet(f, A) + SumFunctionOnSet(f, B)
<1> DEFINE Bad == {T \in SUBSET B : SumFunctionOnSet(f, A \cup T) # SumFunctionOnSet(f, A) + SumFunctionOnSet(f, T)}
<1> SUFFICES ASSUME Bad # {} PROVE FALSE
  BY DEF Bad
<1>1. PICK T \in Bad : IsFiniteSet(T) /\ \A x \in T : T \ {x} \notin Bad
  <2>1. Bad \in SUBSET SUBSET B
    OBVIOUS
  <2> HIDE DEF Bad
  <2> QED
    BY <2>1, SmallestSet
<1>2. T \subseteq B /\ SumFunctionOnSet(f, A \cup T) # SumFunctionOnSet(f, A) + SumFunctionOnSet(f, T)
  OBVIOUS
<1>3. SumFunctionOnSet(f, A) \in Int
  BY SumIsInt
<1>4. CASE T = {}
  <2>1. A \cup T = A
    BY <1>4
  <2> QED
    BY <1>2, <1>3, <1>4, <2>1, SumOfNone
<1>5. ASSUME NEW a \in T PROVE FALSE
  <2> DEFINE R == T \ {a}
  <2>1. SumFunctionOnSet(f, A \cup R) = SumFunctionOnSet(f, A) + SumFunctionOnSet(f, R)
    BY <1>1, <1>2
  <2>2. SumFunctionOnSet(f, T) = f[a] + SumFunctionOnSet(f, R)
    BY <1>1, <1>2, SumWithout
  <2>3. SumFunctionOnSet(f, A \cup T) = f[a] + SumFunctionOnSet(f, A \cup R)
    <3>1. IsFiniteSet(A \cup T) /\ (A \cup T) \ {a} = A \cup R /\ a \in A \cup T
      BY <1>1, <1>2, FS_Union
    <3>2. \A x \in A \cup T : f[x] \in Int
      BY <1>2
    <3>3. SumFunctionOnSet(f, A \cup T) = f[a] + SumFunctionOnSet(f, (A \cup T) \ {a})
      BY <3>1, <3>2, SumWithout
    <3> QED
      BY <3>1, <3>3
  <2>4. IsFiniteSet(R) /\ SumFunctionOnSet(f, R) \in Int /\ f[a] \in Int
    <3>1. IsFiniteSet(R) /\ \A x \in R : f[x] \in Int
      BY <1>1, <1>2, FS_Subset
    <3> QED
      BY <1>2, <3>1, SumIsInt
  <2> HIDE DEF R
  <2> QED
    BY <1>2, <1>3, <2>1, <2>2, <2>3, <2>4
<1> QED
  BY <1>4, <1>5

\* The differences of a history h between the numbers of some elements and the
\* numbers before them add up, if nothing else changes h.
LEMMA SumTelescopes ==
  ASSUME NEW S, IsFiniteSet(S), NEW id, \A x \in S : id[x] \in Nat \ {0},
         \A x, y \in S : id[x] = id[y] => x = y,
         NEW h, \A k \in Nat : h[k] \in Int,
         NEW f, \A x \in S : f[x] = h[id[x]] - h[id[x] - 1],
         \A k \in Nat \ {0} : (\A x \in S : id[x] # k) => h[k] = h[k - 1]
  PROVE  \A k \in Nat : SumFunctionOnSet(f, {x \in S : id[x] <= k}) = h[k] - h[0]
<1> DEFINE Upto(k) == {x \in S : id[x] <= k}
           Bad == {k \in Nat : SumFunctionOnSet(f, Upto(k)) # h[k] - h[0]}
<1> SUFFICES ASSUME Bad # {} PROVE FALSE
  OBVIOUS
<1>1. PICK n \in Bad : \A m \in Bad : n <= m
  <2>1. Bad \in SUBSET Nat
    OBVIOUS
  <2> HIDE DEF Bad
  <2> QED
    BY <2>1, LeastExists
<1>2. n \in Nat /\ SumFunctionOnSet(f, Upto(n)) # h[n] - h[0]
  OBVIOUS
<1>3. CASE n = 0
  <2>1. SumFunctionOnSet(f, Upto(n)) = 0
    <3>1. Upto(n) = {}
      BY <1>3
    <3> QED
      BY <3>1, SumOfNone
  <2>2. h[0] \in Int
    OBVIOUS
  <2> QED
    BY <1>2, <1>3, <2>1, <2>2
<1>4. CASE n # 0
  <2> DEFINE o == n - 1
  <2>1. o \in Nat /\ o < n
    BY <1>2, <1>4
  <2>2. SumFunctionOnSet(f, Upto(o)) = h[o] - h[0]
    <3>1. o \notin Bad
      BY <1>1, <1>2, <2>1
    <3> QED
      BY <2>1, <3>1
  <2>3. ASSUME NEW x \in S, id[x] = n PROVE FALSE
    <3>1. Upto(n) = Upto(o) \cup {x} /\ x \notin Upto(o)
      BY <1>2, <2>3
    <3>2. IsFiniteSet(Upto(o)) /\ \A y \in S : f[y] \in Int
      <4>1. \A y \in S : id[y] - 1 \in Nat /\ id[y] \in Nat
        OBVIOUS
      <4> QED
        BY <4>1, FS_Subset
    <3>3. f[x] = h[n] - h[o]
      BY <2>3
    <3> HIDE DEF Upto, o
    <3>4. SumFunctionOnSet(f, Upto(n)) = f[x] + SumFunctionOnSet(f, Upto(o))
      <4>1. \A y \in Upto(o) \cup {x} : f[y] \in Int
        BY <3>2 DEF Upto
      <4> QED
        BY <3>1, <3>2, <4>1, SumWith
    <3>5. h[n] \in Int /\ h[o] \in Int /\ h[0] \in Int
      BY <1>2, <2>1
    <3> QED
      BY <1>2, <2>2, <3>3, <3>4, <3>5
  <2>4. CASE \A x \in S : id[x] # n
    <3>1. Upto(n) = Upto(o)
      BY <1>2, <2>4
    <3>2. h[n] = h[o]
      BY <1>2, <1>4, <2>4
    <3> QED
      BY <1>2, <2>2, <3>1, <3>2
  <2> QED
    BY <2>3, <2>4
<1> QED
  BY <1>3, <1>4

\* The greatest of all is the greatest of a part's greatest and of the rest.
LEMMA MaxOfUnion ==
  ASSUME NEW A \in SUBSET Int, NEW B \in SUBSET Int, IsFiniteSet(A), IsFiniteSet(B), A # {}
  PROVE  Max(A \cup B) = Max({Max(A)} \cup B)
<1>1. Max(A) \in A /\ \A y \in A : y <= Max(A)
  BY MaxFacts
<1> DEFINE m == Max(A)
           C == {m} \cup B
<1>2. Max(C) \in C /\ \A y \in C : y <= Max(C)
  <2>1. IsFiniteSet(C) /\ C \in SUBSET Int /\ C # {}
    BY <1>1, FS_Singleton, FS_Union
  <2> HIDE DEF C
  <2> QED
    BY <2>1, MaxFacts
<1> DEFINE c == Max(C)
           D == A \cup B
<1>3. c \in D /\ \A y \in D : y <= c
  <2> HIDE DEF c
  <2> SUFFICES ASSUME NEW y \in D PROVE c \in D /\ y <= c
    BY <1>1
  <2>1. c \in C /\ \A z \in C : z <= c
    BY <1>2 DEF c
  <2>2. CASE y \in A
    <3>1. y <= m /\ m <= c
      BY <1>1, <2>1, <2>2
    <3>2. y \in Int /\ m \in Int /\ c \in Int
      BY <1>1, <2>1, <2>2
    <3>3. c \in D
      BY <1>1, <2>1 DEF D
    <3> HIDE DEF m
    <3> QED
      BY <3>1, <3>2, <3>3
  <2>3. CASE y \in B
    BY <1>1, <2>1, <2>3
  <2> QED
    BY <2>2, <2>3
<1> HIDE DEF c, D
<1>4. D \in SUBSET Int
  BY DEF D
<1>5. Max(D) = c
  BY <1>3, <1>4, MaxIs
<1> QED
  BY <1>5 DEF c, D
=============================================================================
