----------------------------- MODULE SumProofs -----------------------------
(***************************************************************************)
(* Finite sums: what SumFunctionOnSet of the community modules returns when *)
(* an element joins the set or a value changes.  The recursion behind it    *)
(* runs over the subsets of the set, so these are inductions over their      *)
(* cardinality.  The provers cannot instantiate an induction rule that takes *)
(* a predicate, so induction is stated for sets of numbers.  Remainders, which *)
(* sums of wrapping integers need, are at the end.                          *)
(***************************************************************************)
EXTENDS Integers, FiniteSets, Functions, FiniteSetTheorems, TLAPS

-----------------------------------------------------------------------------
(* Induction.                                                              *)

\* A nonempty set of natural numbers has a least element.
LEMMA LeastElement ==
    ASSUME NEW T \in SUBSET Nat, T # {}
    PROVE  \E x \in T : \A y \in T : x <= y
<1>1. PICK x \in T : \A y \in T : ~ (<<y, x>> \in OpToRel(<, Nat))
  BY WFMin, NatLessThanWellFounded
<1>2. \A y \in T : y < x => <<y, x>> \in OpToRel(<, Nat)
  BY DEF OpToRel
<1>3. \A y \in T : x <= y
  <2>1. TAKE y \in T
  <2>2. x \in Nat /\ y \in Nat
    OBVIOUS
  <2>3. ~(y < x)
    BY <1>1, <1>2
  <2>4. QED BY <2>2, <2>3
<1>4. QED BY <1>3

\* A set that holds 0 and with every number its successor holds all of them.
LEMMA SetInduction ==
    ASSUME NEW T, 0 \in T, \A n \in Nat : n \in T => n + 1 \in T
    PROVE  Nat \subseteq T
<1> DEFINE C == Nat \ T
<1>1. SUFFICES ASSUME C # {} PROVE FALSE
  OBVIOUS
<1>2. PICK x \in C : \A y \in C : x <= y
  <2>1. C \in SUBSET Nat
    OBVIOUS
  <2> HIDE DEF C
  <2>2. QED BY <1>1, <2>1, LeastElement
<1>3. x \in Nat /\ x # 0
  OBVIOUS
<1>4. x - 1 \in Nat /\ x - 1 < x /\ (x - 1) + 1 = x
  BY <1>3
<1>5. x - 1 \in T
  BY <1>2, <1>4
<1>6. QED BY <1>4, <1>5

-----------------------------------------------------------------------------
(* The recursion.                                                          *)

Pick(s) == CHOOSE x \in s : TRUE

\* g is the recursive function that SumFunctionOnSet(f, S) evaluates at S.
IsIter(g, f, S) ==
    g = [s \in SUBSET S |-> IF s = {} THEN 0 ELSE f[Pick(s)] + g[s \ {Pick(s)}]]

\* The folds behind a sum choose a solution of the recursion.
LEMMA SumIsIter ==
    ASSUME NEW f, NEW S
    PROVE  SumFunctionOnSet(f, S) = (CHOOSE g : IsIter(g, f, S))[S]
BY DEF SumFunctionOnSet, FoldFunctionOnSet, MapThenFoldSet, IsIter, Pick

\* What the recursion needs of the function and of the set it sums over.
Summable(f, S) == IsFiniteSet(S) /\ \A x \in S : f[x] \in Int

\* The element removed is one of the set.
LEMMA PickInside == ASSUME NEW s, s # {} PROVE Pick(s) \in s
BY DEF Pick

\* Restricted to the subsets of at most n elements, the recursion has a solution.
Level(S, n) == {s \in SUBSET S : Cardinality(s) <= n}
Solves(g, f, S, n) ==
    /\ g \in [Level(S, n) -> Int]
    /\ \A s \in Level(S, n) : g[s] = IF s = {} THEN 0 ELSE f[Pick(s)] + g[s \ {Pick(s)}]

\* Subsets of a finite set are finite.
LEMMA SubsetFinite ==
    ASSUME NEW S, IsFiniteSet(S), NEW s \in SUBSET S
    PROVE  IsFiniteSet(s) /\ Cardinality(s) \in Nat
BY FS_Subset, FS_CardinalityType

\* Without one element a set has one element less.
LEMMA PickSmaller ==
    ASSUME NEW S, IsFiniteSet(S), NEW s \in SUBSET S, NEW x \in s
    PROVE  /\ s \ {x} \in SUBSET S
           /\ Cardinality(s \ {x}) = Cardinality(s) - 1
           /\ Cardinality(s) \in Nat
BY SubsetFinite, FS_RemoveElement

\* Solutions exist for subsets of any size, by induction on it.
LEMMA LevelsSolved ==
    ASSUME NEW f, NEW S, Summable(f, S)
    PROVE  \A n \in Nat : \E g : Solves(g, f, S, n)
<1> DEFINE T == {n \in Nat : \E g : Solves(g, f, S, n)}
<1>1. 0 \in T
  <2> DEFINE g == [s \in Level(S, 0) |-> 0]
  <2>1. \A s \in Level(S, 0) : s = {}
    BY SubsetFinite, FS_EmptySet DEF Level, Summable
  <2>2. Solves(g, f, S, 0)
    BY <2>1 DEF Solves
  <2>3. QED BY <2>2
<1>2. \A n \in Nat : n \in T => n + 1 \in T
  <2>1. SUFFICES ASSUME NEW n \in Nat, NEW g, Solves(g, f, S, n)
                 PROVE  \E h : Solves(h, f, S, n + 1)
    OBVIOUS
  <2> DEFINE h == [s \in Level(S, n + 1) |->
                      IF s = {} THEN 0 ELSE f[Pick(s)] + g[s \ {Pick(s)}]]
  <2>2. ASSUME NEW s \in Level(S, n + 1), s # {}
        PROVE  s \ {Pick(s)} \in Level(S, n) /\ f[Pick(s)] \in Int
    BY <2>2, PickInside, PickSmaller DEF Level, Summable
  <2>3. h \in [Level(S, n + 1) -> Int]
    <3>1. ASSUME NEW s \in Level(S, n + 1), s # {}
          PROVE  f[Pick(s)] + g[s \ {Pick(s)}] \in Int
      <4>1. g[s \ {Pick(s)}] \in Int
        BY <2>1, <2>2, <3>1 DEF Solves
      <4>2. QED BY <2>2, <3>1, <4>1
    <3>2. QED BY <3>1
  <2>4. \A s \in Level(S, n) : s \in Level(S, n + 1) /\ h[s] = g[s]
    <3>1. \A s \in Level(S, n) : s \in Level(S, n + 1)
      BY SubsetFinite DEF Level, Summable
    <3>2. QED BY <2>1, <3>1 DEF Solves
  <2>5. ASSUME NEW s \in Level(S, n + 1)
        PROVE  h[s] = IF s = {} THEN 0 ELSE f[Pick(s)] + h[s \ {Pick(s)}]
    BY <2>2, <2>4
  <2>6. Solves(h, f, S, n + 1)
    <3> HIDE DEF h
    <3>1. QED BY <2>3, <2>5 DEF Solves
  <2>7. QED BY <2>6
<1>3. Nat \subseteq T
  <2> HIDE DEF T
  <2>1. QED BY <1>1, <1>2, SetInduction
<1>4. QED BY <1>3

\* So the recursive function exists, and it is the one CHOOSE takes.
LEMMA IterExists ==
    ASSUME NEW f, NEW S, Summable(f, S)
    PROVE  \E g : IsIter(g, f, S) /\ g \in [SUBSET S -> Int]
<1>1. Cardinality(S) \in Nat
  BY FS_CardinalityType DEF Summable
<1>2. Level(S, Cardinality(S)) = SUBSET S
  BY FS_Subset DEF Level, Summable
<1>3. PICK g : Solves(g, f, S, Cardinality(S))
  BY <1>1, LevelsSolved
<1>4. g \in [SUBSET S -> Int]
  BY <1>2, <1>3 DEF Solves
<1>5. \A s \in SUBSET S : g[s] = IF s = {} THEN 0 ELSE f[Pick(s)] + g[s \ {Pick(s)}]
  BY <1>2, <1>3 DEF Solves
<1>6. IsIter(g, f, S)
  BY <1>4, <1>5 DEF IsIter
<1>7. QED BY <1>4, <1>6

-----------------------------------------------------------------------------
(* What the recursion computes.                                            *)

\* A solution of the recursion satisfies its equations.
LEMMA IterStep ==
    ASSUME NEW f, NEW S, NEW g, IsIter(g, f, S)
    PROVE  /\ g[{}] = 0
           /\ \A s \in SUBSET S : s # {} => g[s] = f[Pick(s)] + g[s \ {Pick(s)}]
<1>1. DOMAIN g = SUBSET S
  BY DEF IsIter
<1>2. \A s \in SUBSET S : g[s] = IF s = {} THEN 0 ELSE f[Pick(s)] + g[s \ {Pick(s)}]
  BY DEF IsIter
<1>3. QED BY <1>2

\* The value at a set depends on what the function is on that set only.
LEMMA IterUnique ==
    ASSUME NEW f, NEW S, NEW g, IsIter(g, f, S), IsFiniteSet(S),
           NEW k, NEW R, NEW h, IsIter(h, k, R),
           NEW s \in SUBSET (S \cap R), \A x \in s : f[x] = k[x]
    PROVE  g[s] = h[s]
<1>g. \A u \in SUBSET S : u # {} => g[u] = f[Pick(u)] + g[u \ {Pick(u)}]
  BY ONLY IsIter(g, f, S), IterStep
<1>h. \A u \in SUBSET R : u # {} => h[u] = k[Pick(u)] + h[u \ {Pick(u)}]
  BY ONLY IsIter(h, k, R), IterStep
<1> DEFINE U == SUBSET s
<1> DEFINE T == {n \in Nat : \A u \in U : Cardinality(u) = n => g[u] = h[u]}
<1>1. \A u \in U : u \in SUBSET S /\ u \in SUBSET R /\ Cardinality(u) \in Nat
                   /\ IsFiniteSet(u)
  BY SubsetFinite
<1>2. 0 \in T
  <2>1. g[{}] = 0 /\ h[{}] = 0
    BY IterStep
  <2>2. \A u \in U : Cardinality(u) = 0 => u = {}
    BY <1>1, FS_EmptySet
  <2>3. QED BY <2>1, <2>2
<1>3. \A n \in Nat : n \in T => n + 1 \in T
  <2>1. SUFFICES ASSUME NEW n \in Nat, n \in T, NEW u \in U, Cardinality(u) = n + 1
                 PROVE  g[u] = h[u]
    OBVIOUS
  <2>2. u # {}
    BY <2>1, FS_EmptySet
  <2>3. Pick(u) \in u
    BY <2>2, PickInside
  <2>4. u \ {Pick(u)} \in U /\ Cardinality(u \ {Pick(u)}) = n
    BY <1>1, <2>1, <2>3, PickSmaller
  <2>5. g[u \ {Pick(u)}] = h[u \ {Pick(u)}]
    BY <2>1, <2>4
  <2>6. f[Pick(u)] = k[Pick(u)]
    BY <2>3
  <2>7. g[u] = f[Pick(u)] + g[u \ {Pick(u)}]
    BY <1>1, <1>g, <2>2
  <2>8. h[u] = k[Pick(u)] + h[u \ {Pick(u)}]
    BY <1>1, <1>h, <2>2
  <2>9. QED BY <2>5, <2>6, <2>7, <2>8
<1>4. Nat \subseteq T
  <2> HIDE DEF T
  <2>1. QED BY <1>2, <1>3, SetInduction
<1>5. s \in U /\ Cardinality(s) \in T
  BY <1>1, <1>4
<1>6. QED BY <1>5

\* Its values are integers.
LEMMA IterInt ==
    ASSUME NEW f, NEW S, Summable(f, S), NEW g, IsIter(g, f, S), NEW s \in SUBSET S
    PROVE  g[s] \in Int
<1>1. PICK h : IsIter(h, f, S) /\ h \in [SUBSET S -> Int]
  BY IterExists
<1>2. s \in SUBSET (S \cap S) /\ IsFiniteSet(S)
  BY DEF Summable
<1>3. g[s] = h[s]
  BY <1>1, <1>2, IterUnique
<1>4. QED BY <1>1, <1>3

\* The order in which the elements are taken does not matter.
LEMMA IterAnyOrder ==
    ASSUME NEW f, NEW S, Summable(f, S), NEW g, IsIter(g, f, S)
    PROVE  \A s \in SUBSET S : \A x \in s : g[s] = f[x] + g[s \ {x}]
<1> DEFINE T == {n \in Nat : \A s \in SUBSET S : Cardinality(s) = n =>
                                \A x \in s : g[s] = f[x] + g[s \ {x}]}
<1>0. IsFiniteSet(S)
  BY DEF Summable
<1>1. 0 \in T
  BY <1>0, SubsetFinite, FS_EmptySet
<1>2. \A n \in Nat : n \in T => n + 1 \in T
  <2>0. SUFFICES ASSUME NEW n \in Nat, n \in T
                 PROVE  \A s \in SUBSET S : Cardinality(s) = n + 1 =>
                                \A x \in s : g[s] = f[x] + g[s \ {x}]
    OBVIOUS
  <2>1. SUFFICES ASSUME NEW s \in SUBSET S, Cardinality(s) = n + 1, NEW x \in s
                 PROVE  g[s] = f[x] + g[s \ {x}]
    OBVIOUS
  <2> DEFINE y == Pick(s)
  <2>2. y \in s
    BY PickInside
  <2> HIDE DEF y
  <2>3. g[s] = f[y] + g[s \ {y}]
    <3>1. s # {}
      OBVIOUS
    <3>2. QED BY <3>1, IterStep DEF y
  <2>4. CASE x = y
    BY <2>3, <2>4
  <2>5. CASE x # y
    <3>1. /\ s \ {y} \in SUBSET S /\ Cardinality(s \ {y}) = n /\ x \in s \ {y}
          /\ s \ {x} \in SUBSET S /\ Cardinality(s \ {x}) = n /\ y \in s \ {x}
      BY <1>0, <2>1, <2>2, <2>5, PickSmaller
    <3> DEFINE w == (s \ {x}) \ {y}
    <3>2. w \in SUBSET S /\ w = (s \ {y}) \ {x}
      OBVIOUS
    <3>3. g[s \ {y}] = f[x] + g[w]
      BY <2>0, <3>1, <3>2
    <3>4. g[s \ {x}] = f[y] + g[w]
      BY <2>0, <3>1
    <3> HIDE DEF w
    <3>5. f[x] \in Int /\ f[y] \in Int /\ g[w] \in Int
      BY <2>2, <3>2, IterInt DEF Summable
    <3>6. g[s] = f[y] + (f[x] + g[w])
      BY <2>3, <3>3
    <3>7. QED BY <3>4, <3>5, <3>6
  <2>6. QED BY <2>4, <2>5
<1>3. Nat \subseteq T
  <2> HIDE DEF T
  <2>1. QED BY <1>1, <1>2, SetInduction
<1>4. \A s \in SUBSET S : Cardinality(s) \in T
  BY <1>0, <1>3, SubsetFinite
<1>5. QED BY <1>4

-----------------------------------------------------------------------------
(* The facts about sums.                                                   *)

\* A sum is the value of a solution.
LEMMA SumValue ==
    ASSUME NEW f, NEW S, Summable(f, S)
    PROVE  \E g : IsIter(g, f, S) /\ SumFunctionOnSet(f, S) = g[S]
BY IterExists, SumIsIter

\* A sum of integers is an integer.
LEMMA SumInt ==
    ASSUME NEW f, NEW S, Summable(f, S)
    PROVE  SumFunctionOnSet(f, S) \in Int
BY SumValue, IterInt

\* The empty sum is 0.
LEMMA SumEmpty == ASSUME NEW f PROVE SumFunctionOnSet(f, {}) = 0
<1>1. Summable(f, {})
  BY FS_EmptySet DEF Summable
<1>2. QED BY <1>1, SumValue, IterStep

\* The sum depends on what the function is on the set only.
LEMMA SumSame ==
    ASSUME NEW f, NEW k, NEW S, Summable(f, S), \A x \in S : f[x] = k[x]
    PROVE  SumFunctionOnSet(f, S) = SumFunctionOnSet(k, S)
<1>1. Summable(k, S) /\ IsFiniteSet(S)
  BY DEF Summable
<1>2. PICK g : IsIter(g, f, S) /\ SumFunctionOnSet(f, S) = g[S]
  BY SumValue
<1>3. PICK h : IsIter(h, k, S) /\ SumFunctionOnSet(k, S) = h[S]
  BY <1>1, SumValue
<1>4. S \in SUBSET (S \cap S)
  OBVIOUS
<1>5. g[S] = h[S]
  BY <1>1, <1>2, <1>3, <1>4, IterUnique
<1>6. QED BY <1>2, <1>3, <1>5

\* One element more or less changes the sum by its value.
LEMMA SumRemove ==
    ASSUME NEW f, NEW S, Summable(f, S), NEW x \in S
    PROVE  /\ SumFunctionOnSet(f, S) = f[x] + SumFunctionOnSet(f, S \ {x})
           /\ Summable(f, S \ {x})
<1>1. Summable(f, S \ {x}) /\ IsFiniteSet(S \ {x})
  BY FS_RemoveElement DEF Summable
<1>2. PICK g : IsIter(g, f, S) /\ SumFunctionOnSet(f, S) = g[S]
  BY SumValue
<1>3. PICK h : IsIter(h, f, S \ {x}) /\ SumFunctionOnSet(f, S \ {x}) = h[S \ {x}]
  BY <1>1, SumValue
<1>4. S \ {x} \in SUBSET ((S \ {x}) \cap S)
  OBVIOUS
<1>5. h[S \ {x}] = g[S \ {x}]
  BY <1>1, <1>2, <1>3, <1>4, IterUnique
<1>6. g[S] = f[x] + g[S \ {x}]
  BY <1>2, IterAnyOrder
<1>7. QED BY <1>1, <1>2, <1>3, <1>5, <1>6

\* One summand more.
LEMMA SumInsert ==
    ASSUME NEW f, NEW S, Summable(f, S), NEW x, x \notin S, f[x] \in Int
    PROVE  /\ SumFunctionOnSet(f, S \cup {x}) = f[x] + SumFunctionOnSet(f, S)
           /\ Summable(f, S \cup {x})
<1>1. Summable(f, S \cup {x})
  BY FS_AddElement DEF Summable
<1>2. (S \cup {x}) \ {x} = S /\ x \in S \cup {x}
  OBVIOUS
<1>3. SumFunctionOnSet(f, S \cup {x}) = f[x] + SumFunctionOnSet(f, (S \cup {x}) \ {x})
  BY <1>1, <1>2, SumRemove
<1>4. QED BY <1>1, <1>2, <1>3

\* A function with one argument more has a sum greater by the value there.
LEMMA SumExtend ==
    ASSUME NEW f, Summable(f, DOMAIN f), NEW g, NEW x, x \notin DOMAIN f,
           DOMAIN g = DOMAIN f \cup {x}, g[x] \in Int, \A y \in DOMAIN f : f[y] = g[y]
    PROVE  SumFunction(g) = SumFunction(f) + g[x] /\ Summable(g, DOMAIN g)
<1> DEFINE S == DOMAIN f
<1>1. Summable(g, S) /\ SumFunctionOnSet(f, S) = SumFunctionOnSet(g, S)
  BY SumSame DEF Summable
<1>2. SumFunctionOnSet(g, S \cup {x}) = g[x] + SumFunctionOnSet(g, S) /\ Summable(g, S \cup {x})
  BY <1>1, SumInsert
<1>3. SumFunctionOnSet(f, S) \in Int
  BY SumInt
<1>4. QED BY <1>1, <1>2, <1>3 DEF SumFunction

\* One value that changes changes the sum by the difference.
LEMMA SumUpdate ==
    ASSUME NEW f, NEW k, NEW S, Summable(f, S), NEW x \in S, k[x] \in Int,
           \A y \in S \ {x} : f[y] = k[y]
    PROVE  /\ SumFunctionOnSet(k, S) = SumFunctionOnSet(f, S) - f[x] + k[x]
           /\ Summable(k, S)
<1>1. Summable(k, S)
  BY DEF Summable
<1>2. Summable(f, S \ {x}) /\ f[x] \in Int
  BY SumRemove DEF Summable
<1>3. SumFunctionOnSet(f, S) = f[x] + SumFunctionOnSet(f, S \ {x})
  BY SumRemove
<1>4. SumFunctionOnSet(k, S) = k[x] + SumFunctionOnSet(k, S \ {x})
  BY <1>1, SumRemove
<1>5. SumFunctionOnSet(f, S \ {x}) = SumFunctionOnSet(k, S \ {x})
  BY <1>2, SumSame
<1>6. SumFunctionOnSet(f, S \ {x}) \in Int
  BY <1>2, SumInt
<1>7. QED BY <1>1, <1>2, <1>3, <1>4, <1>5, <1>6

\* A sum of natural numbers is one, and at least each of them.
LEMMA SumNat ==
    ASSUME NEW f, NEW S, IsFiniteSet(S), \A x \in S : f[x] \in Nat
    PROVE  /\ SumFunctionOnSet(f, S) \in Nat
           /\ \A x \in S : f[x] <= SumFunctionOnSet(f, S)
<1> DEFINE T == {n \in Nat : \A s \in SUBSET S : Cardinality(s) = n =>
                                SumFunctionOnSet(f, s) \in Nat}
<1>1. \A s \in SUBSET S : Summable(f, s) /\ Cardinality(s) \in Nat
  BY SubsetFinite DEF Summable
<1>2. 0 \in T
  BY SubsetFinite, FS_EmptySet, SumEmpty
<1>3. \A n \in Nat : n \in T => n + 1 \in T
  <2>1. SUFFICES ASSUME NEW n \in Nat, n \in T, NEW s \in SUBSET S, Cardinality(s) = n + 1
                 PROVE  SumFunctionOnSet(f, s) \in Nat
    OBVIOUS
  <2>2. PICK x : x \in s
    BY <2>1, FS_EmptySet
  <2>3. s \ {x} \in SUBSET S /\ Cardinality(s \ {x}) = n
    BY <2>1, <2>2, PickSmaller
  <2>4. SumFunctionOnSet(f, s \ {x}) \in Nat
    BY <2>1, <2>3
  <2>5. SumFunctionOnSet(f, s) = f[x] + SumFunctionOnSet(f, s \ {x})
    BY <1>1, <2>2, SumRemove
  <2>6. QED BY <2>2, <2>4, <2>5
<1>4. Nat \subseteq T
  <2> HIDE DEF T
  <2>1. QED BY <1>2, <1>3, SetInduction
<1>5. \A s \in SUBSET S : SumFunctionOnSet(f, s) \in Nat
  BY <1>1, <1>4
<1>6. ASSUME NEW x \in S PROVE f[x] <= SumFunctionOnSet(f, S)
  <2>1. SumFunctionOnSet(f, S) = f[x] + SumFunctionOnSet(f, S \ {x})
    BY <1>1, SumRemove
  <2>2. SumFunctionOnSet(f, S \ {x}) \in Nat
    BY <1>5
  <2>3. QED BY <2>1, <2>2
<1>7. QED BY <1>5, <1>6

\* A sum of nothing but zeros is zero.
LEMMA SumZero ==
    ASSUME NEW f, NEW S, IsFiniteSet(S), \A x \in S : f[x] = 0
    PROVE  SumFunctionOnSet(f, S) = 0
<1> DEFINE T == {n \in Nat : \A s \in SUBSET S : Cardinality(s) = n =>
                                SumFunctionOnSet(f, s) = 0}
<1>1. \A s \in SUBSET S : Summable(f, s) /\ Cardinality(s) \in Nat
  BY SubsetFinite DEF Summable
<1>2. 0 \in T
  BY SubsetFinite, FS_EmptySet, SumEmpty
<1>3. \A n \in Nat : n \in T => n + 1 \in T
  <2>1. SUFFICES ASSUME NEW n \in Nat, n \in T, NEW s \in SUBSET S, Cardinality(s) = n + 1
                 PROVE  SumFunctionOnSet(f, s) = 0
    OBVIOUS
  <2>2. PICK x : x \in s
    BY <2>1, FS_EmptySet
  <2>3. s \ {x} \in SUBSET S /\ Cardinality(s \ {x}) = n
    BY <2>1, <2>2, PickSmaller
  <2>4. SumFunctionOnSet(f, s \ {x}) = 0
    BY <2>1, <2>3
  <2>5. SumFunctionOnSet(f, s) = f[x] + SumFunctionOnSet(f, s \ {x})
    BY <1>1, <2>2, SumRemove
  <2>6. QED BY <2>2, <2>4, <2>5
<1>4. Nat \subseteq T
  <2> HIDE DEF T
  <2>1. QED BY <1>2, <1>3, SetInduction
<1>5. QED BY <1>1, <1>4

-----------------------------------------------------------------------------
(* Remainders.                                                             *)

\* Division with remainder.
LEMMA DivMod ==
    ASSUME NEW M \in Nat \ {0}, NEW x \in Int
    PROVE  x \div M \in Int /\ x % M \in 0 .. (M - 1) /\ x = M * (x \div M) + (x % M)
OBVIOUS

\* The remainder is determined by its range.
LEMMA ModUnique ==
    ASSUME NEW M \in Nat \ {0}, NEW q \in Int, NEW r \in 0 .. (M - 1), NEW x \in Int,
           x = M * q + r
    PROVE  x % M = r
OBVIOUS

\* Products distribute over sums.
LEMMA Distributive ==
    ASSUME NEW M \in Int, NEW p \in Int, NEW q \in Int
    PROVE  M * (p + q) = M * p + M * q /\ M * p \in Int
OBVIOUS

\* A multiple of the modulus does not change the remainder.
LEMMA ModShift ==
    ASSUME NEW M \in Nat \ {0}, NEW q \in Int, NEW x \in Int
    PROVE  (x + M * q) % M = x % M
<1> DEFINE d == x \div M  r == x % M
<1>1. d \in Int /\ r \in 0 .. (M - 1) /\ x = M * d + r
  BY DivMod
<1> HIDE DEF d, r
<1>2. M * (d + q) = M * d + M * q /\ M * d \in Int /\ M * q \in Int
  BY <1>1, Distributive
<1>3. x + M * q = M * (d + q) + r /\ d + q \in Int /\ x + M * q \in Int
  BY <1>1, <1>2
<1>4. (x + M * q) % M = r
  BY <1>1, <1>3, ModUnique
<1>5. QED BY <1>4 DEF r

\* Reducing one summand first does not change the remainder of a sum.
LEMMA ModAbsorb ==
    ASSUME NEW M \in Nat \ {0}, NEW y \in Int, NEW x \in Int
    PROVE  (x - y + (y % M)) % M = x % M
<1> DEFINE q == y \div M
<1>1. q \in Int /\ y % M \in Int /\ y = M * q + (y % M)
  BY DivMod
<1> HIDE DEF q
<1>2. -q \in Int /\ M * (-q) = -(M * q) /\ M * q \in Int
  BY <1>1
<1>3. x - y + (y % M) = x + M * (-q)
  BY <1>1, <1>2
<1>4. QED BY <1>2, <1>3, ModShift

\* Equal remainders stay equal when the same number is added.
LEMMA ModAdd ==
    ASSUME NEW M \in Nat \ {0}, NEW x \in Int, NEW y \in Int, NEW b \in Int, x % M = y % M
    PROVE  (x + b) % M = (y + b) % M
<1> DEFINE p == x \div M  q == y \div M  r == y % M
<1>1. p \in Int /\ q \in Int /\ r \in Int /\ x = M * p + r /\ y = M * q + r
  BY DivMod
<1> HIDE DEF p, q, r
<1>2. x + b = (r + b) + M * p /\ y + b = (r + b) + M * q /\ r + b \in Int
  BY <1>1
<1>3. ((r + b) + M * p) % M = (r + b) % M
  BY <1>1, <1>2, ModShift
<1>4. ((r + b) + M * q) % M = (r + b) % M
  BY <1>1, <1>2, ModShift
<1>5. QED BY <1>2, <1>3, <1>4
=============================================================================
