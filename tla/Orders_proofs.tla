----------------------------- MODULE Orders_proofs -----------------------------
(***************************************************************************)
(* The orders of a maker.  For any ladder, order and pool: a mirror order  *)
(* does not trade at a loss, and what the feed advertises is filled with   *)
(* no coin too many.  For any number of fills, writes and faults: the      *)
(* strategy loop handles every fill it marks, and adds none more often     *)
(* than failures made it.                                                  *)
(***************************************************************************)
EXTENDS AutoMirror, Liquidity, SequenceTheorems, WellFoundedInduction, FiniteSetTheorems, TLAPS

-----------------------------------------------------------------------------
(***************************************************************************)
(* Induction and recursion over finite sets and numbers                    *)
(***************************************************************************)

\* A collection of subsets of a finite set that is not empty has a least one, in
\* the order of inclusion.
LEMMA LeastSet ==
  ASSUME NEW S, IsFiniteSet(S), NEW B, B \subseteq SUBSET S, B # {}
  PROVE  \E T \in B : \A U \in B : U \subseteq T => U = T
<1> DEFINE R == StrictSubsetOrdering(S)
           F == FiniteSubsetsOf(S)
<1>1. IsWellFoundedOn(R, F)
  BY FS_StrictSubsetOrderingWellFounded
<1>2. B \subseteq F
  BY FS_Subset DEF FiniteSubsetsOf
<1>3. \E x \in B : \A y \in B : ~(<<y, x>> \in R)
  <2> HIDE DEF R, F
  <2> QED BY <1>1, <1>2, WFMin
<1>4. PICK T \in B : \A y \in B : ~(<<y, T>> \in R)
  BY <1>3
<1>5. ASSUME NEW U \in B, U \subseteq T, U # T PROVE FALSE
  <2>1. <<U, T>> \in R
    BY <1>5 DEF StrictSubsetOrdering
  <2> QED BY <1>4, <2>1
<1> QED BY <1>5

\* Induction over the subsets of a finite set.
LEMMA SetInduction ==
  ASSUME NEW S, IsFiniteSet(S), NEW C, {} \in C,
         \A T \in SUBSET S : \A x \in S \ T : T \in C => T \cup {x} \in C
  PROVE  \A T \in SUBSET S : T \in C
<1> DEFINE B == {T \in SUBSET S : T \notin C}
<1> SUFFICES ASSUME B # {} PROVE FALSE
  OBVIOUS
<1>1. PICK T \in B : \A U \in B : U \subseteq T => U = T
  <2> HIDE DEF B
  <2>1. B \subseteq SUBSET S
    BY DEF B
  <2> QED BY <2>1, LeastSet
<1>2. PICK x : x \in T
  BY <1>1
<1>3. T \ {x} \in C
  BY <1>1, <1>2
<1>4. (T \ {x}) \cup {x} = T
  BY <1>2
<1> QED BY <1>1, <1>2, <1>3, <1>4

\* Induction over the numbers, on the set of those a formula holds of.
LEMMA Induction ==
  ASSUME NEW T, 0 \in T, \A n \in Nat : n \in T => n + 1 \in T
  PROVE  \A n \in Nat : n \in T
<1> SUFFICES ASSUME NEW n \in Nat, n \notin T PROVE FALSE
  OBVIOUS
<1> DEFINE K == {k \in 0..n : k \notin T}
           B == {1..k : k \in K}
<1>1. B \subseteq SUBSET (1..n) /\ B # {} /\ IsFiniteSet(1..n)
  <2>1. \A k \in K : 1..k \subseteq 1..n
    OBVIOUS
  <2>2. n \in K
    OBVIOUS
  <2>3. IsFiniteSet(1..n)
    BY FS_Interval
  <2> HIDE DEF K
  <2> QED BY <2>1, <2>2, <2>3
<1>2. \E U \in B : \A V \in B : V \subseteq U => V = U
  <2> HIDE DEF B
  <2>1. PICK I : I = 1..n
    OBVIOUS
  <2>2. B \subseteq SUBSET I /\ B # {} /\ IsFiniteSet(I)
    BY <1>1, <2>1
  <2> QED BY <2>2, LeastSet
<1>3. PICK k \in K : \A j \in K : 1..j \subseteq 1..k => 1..j = 1..k
  <2> HIDE DEF K
  <2>1. PICK U \in B : \A V \in B : V \subseteq U => V = U
    BY <1>2
  <2>2. PICK k \in K : U = 1..k
    BY <2>1
  <2>3. \A j \in K : 1..j \in B
    OBVIOUS
  <2> QED BY <2>1, <2>2, <2>3
<1>4. k # 0 /\ k \in Nat
  BY <1>3
<1>5. k - 1 \notin T
  BY <1>3, <1>4
<1>6. k - 1 \in K
  BY <1>3, <1>4, <1>5
<1>7. 1..(k - 1) \subseteq 1..k /\ k \in 1..k /\ k \notin 1..(k - 1)
  BY <1>4
<1> QED BY <1>3, <1>6, <1>7

\* A set of numbers up to some n has its maximum, if it is not empty.
LEMMA MaxIsIn ==
  ASSUME NEW n \in Nat, NEW s \in SUBSET (1..n), s # {}
  PROVE  Max(s) \in s /\ \A i \in s : i <= Max(s)
<1> DEFINE T == {m \in Nat : \A r \in SUBSET (1..m) : r # {} => \E x \in r : \A y \in r : x >= y}
<1>1. 0 \in T
  <2>1. \A r \in SUBSET (1..0) : r = {}
    OBVIOUS
  <2> QED BY <2>1
<1>2. ASSUME NEW m \in Nat, m \in T PROVE m + 1 \in T
  <2> SUFFICES ASSUME NEW r \in SUBSET (1..(m + 1)), r # {}
               PROVE  \E x \in r : \A y \in r : x >= y
    OBVIOUS
  <2>1. CASE m + 1 \in r
    BY <2>1
  <2>2. CASE m + 1 \notin r
    <3>1. r \in SUBSET (1..m)
      BY <2>2
    <3> QED BY <1>2, <3>1
  <2> QED BY <2>1, <2>2
<1>3. n \in T
  <2> HIDE DEF T
  <2> QED BY <1>1, <1>2, Induction
<1>4. \E x \in s : \A y \in s : x >= y
  BY <1>3
<1> QED BY <1>4 DEF Max

\* A set of numbers that is not empty has its minimum.
LEMMA MinIsIn ==
  ASSUME NEW n \in Nat, NEW s \in SUBSET (1..n), s # {}
  PROVE  Min(s) \in s /\ \A i \in s : Min(s) <= i
<1> DEFINE r == {n + 1 - i : i \in s}
<1>1. r \in SUBSET (1..n) /\ r # {}
  <2>1. \A i \in s : n + 1 - i \in 1..n
    OBVIOUS
  <2> QED BY <2>1
<1>2. Max(r) \in r /\ \A i \in r : i <= Max(r)
  <2> HIDE DEF r
  <2> QED BY <1>1, MaxIsIn
<1>3. PICK i \in s : Max(r) = n + 1 - i
  BY <1>2
<1>4. \A j \in s : n + 1 - j \in r
  OBVIOUS
<1>5. \A j \in s : n + 1 - j <= n + 1 - i
  BY <1>2, <1>3, <1>4
<1>6. \A j \in s : i <= j
  BY <1>5
<1> QED BY <1>6 DEF Min

-----------------------------------------------------------------------------
(***************************************************************************)
(* Functions defined by recursion over the subsets of a finite set         *)
(***************************************************************************)

\* A set is a picked element and the rest of it; the value at a set is a step from
\* the value at the rest.
Recurs(g, S, pick, base, step, Ty) ==
  /\ g[{}] = base
  /\ \A s \in SUBSET S : s # {} => g[s] = step[s][g[s \ {pick[s]}]]
  /\ \A s \in SUBSET S : g[s] \in Ty[s]

\* What is so defined exists, and has the types its steps preserve.
LEMMA SetRecursion ==
  ASSUME NEW S, IsFiniteSet(S), NEW pick, NEW step, NEW base, NEW Ty,
         \A s \in SUBSET S : s # {} => pick[s] \in s,
         base \in Ty[{}],
         \A s \in SUBSET S : s # {} => \A v \in Ty[s \ {pick[s]}] : step[s][v] \in Ty[s]
  PROVE  \E g : Recurs(g, S, pick, base, step, Ty)
<1> DEFINE D(n) == {s \in SUBSET S : Cardinality(s) <= n}
           Is(g, n) == /\ g = [s \in D(n) |-> IF s = {} THEN base ELSE step[s][g[s \ {pick[s]}]]]
                       /\ \A s \in D(n) : g[s] \in Ty[s]
           C == {n \in Nat : \E g : Is(g, n)}
<1>0. /\ \A s \in SUBSET S : IsFiniteSet(s) /\ Cardinality(s) \in Nat
      /\ \A s \in SUBSET S : Cardinality(s) = 0 <=> s = {}
      /\ Cardinality({}) = 0 /\ {} \in SUBSET S
      /\ \A s \in SUBSET S : s # {} => Cardinality(s \ {pick[s]}) = Cardinality(s) - 1
  BY FS_Subset, FS_CardinalityType, FS_EmptySet, FS_RemoveElement
<1>1. 0 \in C
  <2>1. D(0) = {{}}
    <3>1. \A s \in SUBSET S : Cardinality(s) <= 0 <=> s = {}
      BY <1>0
    <3> QED BY <3>1
  <2>2. Is([s \in D(0) |-> base], 0)
    BY <2>1
  <2> QED BY <2>2
<1>2. ASSUME NEW n \in Nat, n \in C PROVE n + 1 \in C
  <2>1. PICK g : Is(g, n)
    BY <1>2
  <2> DEFINE h == [s \in D(n + 1) |-> IF s \in D(n) THEN g[s] ELSE step[s][g[s \ {pick[s]}]]]
  <2>2. \A s \in D(n + 1) : s # {} => s \ {pick[s]} \in D(n) /\ s \ {pick[s]} \in D(n + 1)
    <3> SUFFICES ASSUME NEW s \in D(n + 1), s # {}
                 PROVE  s \ {pick[s]} \in D(n) /\ s \ {pick[s]} \in D(n + 1)
      OBVIOUS
    <3>1. PICK r : r = s \ {pick[s]}
      OBVIOUS
    <3>2. r \in SUBSET S /\ Cardinality(r) = Cardinality(s) - 1 /\ Cardinality(s) \in Nat
      BY <1>0, <3>1
    <3>3. r \in D(n) /\ r \in D(n + 1)
      BY <3>2
    <3> QED BY <3>1, <3>3
  <2>3. \A s \in D(n + 1) : s \in D(n) => h[s] = g[s]
    OBVIOUS
  <2>4. {} \in D(n)
    BY <1>0
  <2>5. \A s \in D(n + 1) : h[s] = IF s = {} THEN base ELSE step[s][h[s \ {pick[s]}]]
    BY <2>1, <2>2, <2>3, <2>4
  <2>6. \A s \in D(n + 1) : h[s] \in Ty[s]
    <3> SUFFICES ASSUME NEW s \in D(n + 1) PROVE h[s] \in Ty[s]
      OBVIOUS
    <3>1. CASE s \in D(n)
      BY <2>1, <3>1
    <3>2. CASE s \notin D(n)
      <4>1. s # {} /\ g[s \ {pick[s]}] \in Ty[s \ {pick[s]}]
        BY <2>1, <2>2, <2>4, <3>2
      <4> QED BY <3>2, <4>1
    <3> QED BY <3>1, <3>2
  <2>7. h = [s \in D(n + 1) |-> IF s = {} THEN base ELSE step[s][h[s \ {pick[s]}]]]
    <3>1. h = [s \in D(n + 1) |-> h[s]]
      OBVIOUS
    <3> HIDE DEF h, D
    <3> QED BY <2>5, <3>1
  <2>8. Is(h, n + 1)
    <3> HIDE DEF h, D
    <3> QED BY <2>6, <2>7
  <2> HIDE DEF Is, h
  <2> QED BY <2>8
<1>3. Cardinality(S) \in C
  <2> HIDE DEF C
  <2>1. \A n \in Nat : n \in C
    BY <1>1, <1>2, Induction
  <2> QED BY <1>0, <2>1
<1>4. D(Cardinality(S)) = SUBSET S
  BY <1>0, FS_Subset
<1>5. PICK g : Is(g, Cardinality(S))
  BY <1>3
<1>6. {} \in SUBSET S
  OBVIOUS
<1> HIDE DEF D
<1>7. Recurs(g, S, pick, base, step, Ty)
  BY <1>4, <1>5, <1>6 DEF Recurs
<1> QED BY <1>7

\* And so has whatever obeys the equation.
LEMMA SetTyped ==
  ASSUME NEW S, IsFiniteSet(S), NEW pick, NEW g, NEW Ty,
         g[{}] \in Ty[{}],
         \A s \in SUBSET S : s # {} => /\ pick[s] \in s
                                       /\ g[s \ {pick[s]}] \in Ty[s \ {pick[s]}] => g[s] \in Ty[s]
  PROVE  \A s \in SUBSET S : g[s] \in Ty[s]
<1> DEFINE B == {s \in SUBSET S : g[s] \notin Ty[s]}
<1> SUFFICES ASSUME B # {} PROVE FALSE
  OBVIOUS
<1>1. PICK T \in B : \A U \in B : U \subseteq T => U = T
  <2>1. B \subseteq SUBSET S
    OBVIOUS
  <2> HIDE DEF B
  <2> QED BY <2>1, LeastSet
<1>2. T # {} /\ pick[T] \in T
  BY <1>1
<1>3. T \ {pick[T]} \notin B
  BY <1>1, <1>2
<1> QED BY <1>1, <1>2, <1>3

-----------------------------------------------------------------------------
(***************************************************************************)
(* Sums                                                                    *)
(***************************************************************************)

\* A table of the sums over the subsets.
IsSum(g, pick, f, S) ==
  /\ g[{}] = 0
  /\ \A s \in SUBSET S : s # {} => pick[s] \in s /\ g[s] = f[pick[s]] + g[s \ {pick[s]}]
  /\ \A s \in SUBSET S : g[s] \in Int
  /\ \A s \in SUBSET S : SumFunctionOnSet(f, s) = g[s]

\* The sum over a set of numbers' positions, element by element: the function
\* that SumFunctionOnSet applies is the same for every subset.
LEMMA SumExists ==
  ASSUME NEW S, IsFiniteSet(S), NEW f, \A x \in S : f[x] \in Int
  PROVE  \E g, pick : IsSum(g, pick, f, S)
<1> DEFINE pick == [s \in SUBSET S |-> CHOOSE x \in s : TRUE]
           step == [s \in SUBSET S |-> [v \in Int |-> f[pick[s]] + v]]
           Ty == [s \in SUBSET S |-> Int]
           Is(g, T) == g = [s \in SUBSET T |->
                              IF s = {} THEN 0
                              ELSE f[CHOOSE x \in s : TRUE] + g[s \ {CHOOSE x \in s : TRUE}]]
<1>1. /\ \A s \in SUBSET S : pick[s] = CHOOSE x \in s : TRUE
      /\ \A s \in SUBSET S : s # {} => pick[s] \in s
  OBVIOUS
<1>2. \A s \in SUBSET S : s # {} => f[pick[s]] \in Int
  BY <1>1
<1>3. \A s \in SUBSET S : s # {} => \A v \in Int : step[s][v] = f[pick[s]] + v
  BY <1>1
<1>4. \A s \in SUBSET S : Ty[s] = Int
  OBVIOUS
<1>5. \A s \in SUBSET S : s \ {pick[s]} \in SUBSET S
  OBVIOUS
<1>6. PICK g : Recurs(g, S, pick, 0, step, Ty)
  <2> HIDE DEF pick, step, Ty, Is
  <2>1. 0 \in Ty[{}]
    BY <1>4
  <2>2. \A s \in SUBSET S : s # {} => \A v \in Ty[s \ {pick[s]}] : step[s][v] \in Ty[s]
    BY <1>2, <1>3, <1>4, <1>5
  <2> QED BY <1>1, <2>1, <2>2, SetRecursion
<1>7. \A s \in SUBSET S : g[s] \in Int
  BY <1>4, <1>6 DEF Recurs
<1>8. /\ g[{}] = 0
      /\ \A s \in SUBSET S : s # {} => g[s] = f[pick[s]] + g[s \ {pick[s]}]
  <2> HIDE DEF pick, step, Ty
  <2> QED BY <1>3, <1>5, <1>6, <1>7 DEF Recurs
<1>9. ASSUME NEW T \in SUBSET S
      PROVE  SumFunctionOnSet(f, T) = g[T]
  <2> DEFINE r == [s \in SUBSET T |-> g[s]]
             h == CHOOSE k : Is(k, T)
  <2>1. Is(r, T)
    <3>1. \A s \in SUBSET T : s \in SUBSET S /\ s \ {CHOOSE x \in s : TRUE} \in SUBSET T
      OBVIOUS
    <3>2. \A s \in SUBSET T : r[s] = IF s = {} THEN 0
                              ELSE f[CHOOSE x \in s : TRUE] + r[s \ {CHOOSE x \in s : TRUE}]
      BY <1>1, <1>8, <3>1
    <3>3. r = [s \in SUBSET T |-> r[s]]
      OBVIOUS
    <3> HIDE DEF r
    <3> QED BY <3>2, <3>3
  <2>2. Is(h, T)
    <3> HIDE DEF Is, r
    <3> QED BY <2>1
  <2>3. SumFunctionOnSet(f, T) = h[T]
    BY DEF SumFunctionOnSet, FoldFunctionOnSet, MapThenFoldSet
  <2> HIDE DEF h
  <2>4. /\ h[{}] = 0
        /\ \A s \in SUBSET T : s # {} => h[s] = f[pick[s]] + h[s \ {pick[s]}]
    <3>1. \A s \in SUBSET T : s \in SUBSET S
      OBVIOUS
    <3> QED BY <1>1, <2>2, <3>1
  <2> DEFINE Same == [s \in SUBSET T |-> {g[s]}]
  <2>5. \A s \in SUBSET T : h[s] \in Same[s]
    <3>1. h[{}] \in Same[{}]
      BY <1>8, <2>4
    <3>2. \A s \in SUBSET T : s # {} => /\ pick[s] \in s
                                        /\ h[s \ {pick[s]}] \in Same[s \ {pick[s]}] => h[s] \in Same[s]
      <4>1. \A s \in SUBSET T : s \in SUBSET S /\ s \ {pick[s]} \in SUBSET T
        OBVIOUS
      <4> SUFFICES ASSUME NEW s \in SUBSET T, s # {},
                          h[s \ {pick[s]}] \in Same[s \ {pick[s]}]
                   PROVE  h[s] \in Same[s]
        BY <1>1, <4>1
      <4>2. PICK v : v = s \ {pick[s]}
        OBVIOUS
      <4>3. h[v] = g[v]
        BY <4>1, <4>2
      <4>4. h[s] = g[s]
        <5>1. h[s] = f[pick[s]] + h[v]
          BY <2>4, <4>2
        <5>2. g[s] = f[pick[s]] + g[v]
          BY <1>8, <4>1, <4>2
        <5> QED BY <4>3, <5>1, <5>2
      <4> QED BY <4>4
    <3>3. IsFiniteSet(T)
      BY FS_Subset
    <3> HIDE DEF Same, pick
    <3> QED BY <3>1, <3>2, <3>3, SetTyped
  <2> QED BY <2>3, <2>5
<1> HIDE DEF pick
<1>10. IsSum(g, pick, f, S)
  BY <1>1, <1>7, <1>8, <1>9 DEF IsSum
<1> QED BY <1>10

\* A sum is a number, and nothing sums to nothing.
LEMMA SumIsInt ==
  ASSUME NEW S, IsFiniteSet(S), NEW f, \A x \in S : f[x] \in Int
  PROVE  SumFunctionOnSet(f, S) \in Int /\ SumFunctionOnSet(f, {}) = 0
<1>1. PICK g, pick : IsSum(g, pick, f, S)
  BY SumExists
<1>2. S \in SUBSET S /\ {} \in SUBSET S
  OBVIOUS
<1> QED BY <1>1, <1>2 DEF IsSum

\* Any element can be taken out of a sum.
LEMMA SumTake ==
  ASSUME NEW S, IsFiniteSet(S), NEW f, \A x \in S : f[x] \in Int, NEW x \in S
  PROVE  /\ SumFunctionOnSet(f, S) = f[x] + SumFunctionOnSet(f, S \ {x})
         /\ SumFunctionOnSet(f, S \ {x}) \in Int
<1>1. PICK g, pick : IsSum(g, pick, f, S)
  BY SumExists
<1> DEFINE B == {s \in SUBSET S : \E y \in s : g[s] # f[y] + g[s \ {y}]}
<1>2. B = {}
  <2> SUFFICES ASSUME B # {} PROVE FALSE
    OBVIOUS
  <2>1. PICK T \in B : \A U \in B : U \subseteq T => U = T
    <3>1. B \subseteq SUBSET S
      OBVIOUS
    <3> HIDE DEF B
    <3> QED BY <3>1, LeastSet
  <2>2. PICK y \in T : g[T] # f[y] + g[T \ {y}]
    BY <2>1
  <2>3. PICK c : c = pick[T]
    OBVIOUS
  <2>4. c \in T /\ g[T] = f[c] + g[T \ {c}] /\ T \in SUBSET S
    BY <1>1, <2>1, <2>2, <2>3 DEF IsSum
  <2>5. c # y
    BY <2>2, <2>4
  <2>6. T \ {c} \notin B /\ T \ {y} \notin B
    BY <2>1, <2>2, <2>4
  <2>7. g[T \ {c}] = f[y] + g[(T \ {c}) \ {y}]
    BY <2>2, <2>4, <2>5, <2>6
  <2>8. g[T \ {y}] = f[c] + g[(T \ {y}) \ {c}]
    BY <2>2, <2>4, <2>5, <2>6
  <2>9. (T \ {c}) \ {y} = (T \ {y}) \ {c} /\ (T \ {c}) \ {y} \in SUBSET S
    BY <2>4
  <2>10. f[c] \in Int /\ f[y] \in Int /\ g[(T \ {c}) \ {y}] \in Int
    BY <1>1, <2>4, <2>9 DEF IsSum
  <2>11. PICK v, w, i, j : /\ v = g[(T \ {c}) \ {y}] /\ w = g[T \ {y}] /\ i = f[c] /\ j = f[y]
    OBVIOUS
  <2>12. g[T] = i + (j + v) /\ w = i + v /\ g[T] # j + w
    BY <2>2, <2>4, <2>7, <2>8, <2>9, <2>11
  <2> QED BY <2>10, <2>11, <2>12
<1>3. g[S] = f[x] + g[S \ {x}]
  BY <1>2
<1> QED BY <1>1, <1>3 DEF IsSum

\* One element more.
LEMMA SumPut ==
  ASSUME NEW S, IsFiniteSet(S), NEW x, x \notin S, NEW f, \A y \in S \cup {x} : f[y] \in Int
  PROVE  /\ SumFunctionOnSet(f, S \cup {x}) = SumFunctionOnSet(f, S) + f[x]
         /\ SumFunctionOnSet(f, S) \in Int
<1>1. IsFiniteSet(S \cup {x})
  BY FS_AddElement
<1>2. PICK T : T = S \cup {x}
  OBVIOUS
<1>3. T \ {x} = S /\ x \in T
  BY <1>2
<1>4. /\ SumFunctionOnSet(f, T) = f[x] + SumFunctionOnSet(f, T \ {x})
      /\ SumFunctionOnSet(f, T \ {x}) \in Int
  BY <1>1, <1>2, <1>3, SumTake
<1>5. PICK v, i : v = SumFunctionOnSet(f, T \ {x}) /\ i = f[x]
  OBVIOUS
<1>6. v \in Int /\ i \in Int /\ i + v = v + i
  BY <1>2, <1>4, <1>5
<1>7. v = SumFunctionOnSet(f, S)
  BY <1>3, <1>5
<1>8. SumFunctionOnSet(f, S \cup {x}) = i + v
  BY <1>2, <1>4, <1>5
<1> QED BY <1>5, <1>6, <1>7, <1>8

\* One element alone.
LEMMA SumOne ==
  ASSUME NEW x, NEW f, f[x] \in Int
  PROVE  SumFunctionOnSet(f, {x}) = f[x]
<1>1. IsFiniteSet({}) /\ {} \cup {x} = {x}
  BY FS_EmptySet
<1>2. SumFunctionOnSet(f, {}) = 0
  BY <1>1, SumIsInt
<1>3. SumFunctionOnSet(f, {} \cup {x}) = SumFunctionOnSet(f, {}) + f[x]
  BY <1>1, SumPut
<1> QED BY <1>1, <1>2, <1>3

\* Only the values at the elements count.
LEMMA SumAgrees ==
  ASSUME NEW S, IsFiniteSet(S), NEW f, NEW g, \A x \in S : f[x] \in Int /\ f[x] = g[x]
  PROVE  SumFunctionOnSet(f, S) = SumFunctionOnSet(g, S)
<1> DEFINE C == {T \in SUBSET S : SumFunctionOnSet(f, T) = SumFunctionOnSet(g, T)}
<1>1. {} \in C
  <2>1. IsFiniteSet({})
    BY FS_EmptySet
  <2> QED BY <2>1, SumIsInt
<1>2. ASSUME NEW T \in SUBSET S, NEW x \in S \ T, T \in C PROVE T \cup {x} \in C
  <2>1. IsFiniteSet(T) /\ T \cup {x} \in SUBSET S
    BY FS_Subset
  <2>2. /\ SumFunctionOnSet(f, T \cup {x}) = SumFunctionOnSet(f, T) + f[x]
        /\ SumFunctionOnSet(g, T \cup {x}) = SumFunctionOnSet(g, T) + g[x]
    BY <2>1, SumPut
  <2> QED BY <1>2, <2>1, <2>2
<1>3. S \in C
  <2> HIDE DEF C
  <2> QED BY <1>1, <1>2, SetInduction
<1> QED BY <1>3

\* What is nothing does not count.
LEMMA SumWithout ==
  ASSUME NEW S, IsFiniteSet(S), NEW T \in SUBSET S, NEW f, \A x \in S : f[x] \in Int,
         \A x \in S \ T : f[x] = 0
  PROVE  SumFunctionOnSet(f, S) = SumFunctionOnSet(f, T)
<1> DEFINE C == {U \in SUBSET (S \ T) : SumFunctionOnSet(f, T \cup U) = SumFunctionOnSet(f, T)}
           R == S \ T
<1>1. {} \in C
  <2>1. T \cup {} = T
    OBVIOUS
  <2> QED BY <2>1
<1>2. ASSUME NEW U \in SUBSET R, NEW x \in R \ U, U \in C PROVE U \cup {x} \in C
  <2>1. PICK V : V = T \cup U
    OBVIOUS
  <2>2. IsFiniteSet(V) /\ x \notin V /\ V \cup {x} \subseteq S
    BY <2>1, FS_Subset
  <2>3. SumFunctionOnSet(f, V \cup {x}) = SumFunctionOnSet(f, V) + f[x] /\ SumFunctionOnSet(f, V) \in Int
    BY <2>2, SumPut
  <2>4. V \cup {x} = T \cup (U \cup {x}) /\ f[x] = 0
    BY <2>1
  <2>5. SumFunctionOnSet(f, T \cup (U \cup {x})) = SumFunctionOnSet(f, T \cup U)
    <3>1. SumFunctionOnSet(f, V) + 0 = SumFunctionOnSet(f, V)
      BY <2>3
    <3> QED BY <2>1, <2>3, <2>4, <3>1
  <2> QED BY <1>2, <2>5
<1>3. R \in C
  <2>1. IsFiniteSet(R) /\ R \in SUBSET R
    BY FS_Subset
  <2> HIDE DEF C, R
  <2> QED BY <1>1, <1>2, <2>1, SetInduction
<1>4. T \cup (S \ T) = S
  OBVIOUS
<1> QED BY <1>3, <1>4

\* The sum of a sequence, and of one that is longer by one.
LEMMA SumAppend ==
  ASSUME NEW u \in Seq(Int), NEW x \in Int
  PROVE  /\ SumFunction(Append(u, x)) = SumFunction(u) + x
         /\ SumFunction(u) \in Int
<1>1. /\ DOMAIN u = 1..Len(u) /\ Len(u) \in Nat
      /\ DOMAIN Append(u, x) = 1..(Len(u) + 1)
      /\ \A i \in 1..Len(u) : u[i] \in Int /\ Append(u, x)[i] = u[i]
      /\ Append(u, x)[Len(u) + 1] = x
  OBVIOUS
<1>2. PICK n, S, T, w : n = Len(u) + 1 /\ S = 1..Len(u) /\ T = 1..n /\ w = Append(u, x)
  OBVIOUS
<1>3. IsFiniteSet(S) /\ n \notin S /\ T = S \cup {n}
  <2>1. IsFiniteSet(1..Len(u))
    BY <1>1, FS_Interval
  <2>2. Len(u) + 1 \notin 1..Len(u) /\ 1..(Len(u) + 1) = (1..Len(u)) \cup {Len(u) + 1}
    BY <1>1
  <2> QED BY <1>2, <2>1, <2>2
<1>4. \A i \in S \cup {n} : w[i] \in Int
  BY <1>1, <1>2
<1>5. SumFunctionOnSet(w, S \cup {n}) = SumFunctionOnSet(w, S) + w[n]
  BY <1>3, <1>4, SumPut
<1>6. SumFunctionOnSet(w, S) = SumFunctionOnSet(u, S)
  BY <1>1, <1>2, <1>3, SumAgrees
<1>7. SumFunctionOnSet(u, S) \in Int
  BY <1>1, <1>2, <1>3, SumIsInt
<1> QED BY <1>1, <1>2, <1>3, <1>5, <1>6, <1>7 DEF SumFunction

\* The empty sequence sums to nothing.
LEMMA SumEmpty ==
  SumFunction(<<>>) = 0
<1>1. DOMAIN <<>> = {} /\ IsFiniteSet({})
  BY FS_EmptySet
<1> QED BY <1>1, SumIsInt DEF SumFunction

\* A sequence of one.
LEMMA SumSingle ==
  ASSUME NEW x \in Int
  PROVE  SumFunction(<<x>>) = x
<1>1. DOMAIN <<x>> = {1} /\ <<x>>[1] = x
  OBVIOUS
<1> QED BY <1>1, SumOne DEF SumFunction

\* The sum of two sequences in a row.
LEMMA SumConcat ==
  ASSUME NEW u \in Seq(Int), NEW v \in Seq(Int)
  PROVE  /\ SumFunction(u \o v) = SumFunction(u) + SumFunction(v)
         /\ SumFunction(u) \in Int /\ SumFunction(v) \in Int
<1> DEFINE C == {n \in Nat : \A w \in Seq(Int) : Len(w) = n =>
                   SumFunction(u \o w) = SumFunction(u) + SumFunction(w)}
<1>0. \A w \in Seq(Int) : SumFunction(w) \in Int
  BY SumAppend
<1>1. 0 \in C
  <2> SUFFICES ASSUME NEW w \in Seq(Int), Len(w) = 0
               PROVE  SumFunction(u \o w) = SumFunction(u) + SumFunction(w)
    OBVIOUS
  <2>1. w = <<>> /\ u \o <<>> = u
    OBVIOUS
  <2> QED BY <1>0, <2>1, SumEmpty
<1>2. ASSUME NEW n \in Nat, n \in C PROVE n + 1 \in C
  <2> SUFFICES ASSUME NEW w \in Seq(Int), Len(w) = n + 1
               PROVE  SumFunction(u \o w) = SumFunction(u) + SumFunction(w)
    OBVIOUS
  <2>1. PICK h, x : h = SubSeq(w, 1, n) /\ x = w[n + 1]
    OBVIOUS
  <2>2. /\ h \in Seq(Int) /\ Len(h) = n /\ \A i \in 1..n : h[i] = w[i]
        /\ x \in Int
    BY <2>1
  <2>3. w = Append(h, x)
    <3>1. Len(Append(h, x)) = Len(w) /\ \A i \in 1..(n + 1) : Append(h, x)[i] = w[i]
      BY <2>1, <2>2
    <3>2. Append(h, x) \in Seq(Int)
      BY <2>2
    <3> QED BY <3>1, <3>2, SeqEqual
  <2>4. u \o h \in Seq(Int)
    BY <2>2
  <2>5. u \o w = Append(u \o h, x)
    <3>1. Len(u \o w) = Len(Append(u \o h, x))
      BY <2>2, <2>3, <2>4
    <3>2. \A i \in 1..Len(u \o w) : (u \o w)[i] = Append(u \o h, x)[i]
      <4> SUFFICES ASSUME NEW i \in 1..Len(u \o w)
                   PROVE  (u \o w)[i] = Append(u \o h, x)[i]
        OBVIOUS
      <4>1. Len(u) \in Nat /\ Len(u \o w) = Len(u) + n + 1 /\ Len(u \o h) = Len(u) + n
        <5>1. Len(u) \in Nat
          OBVIOUS
        <5>2. Len(u \o w) = Len(u) + Len(w)
          BY ConcatProperties
        <5>3. Len(u \o h) = Len(u) + Len(h)
          BY <2>2, ConcatProperties
        <5> QED BY <2>2, <5>1, <5>2, <5>3
      <4>2. CASE i <= Len(u)
        BY <2>2, <2>4, <4>1, <4>2
      <4>3. CASE i > Len(u) /\ i <= Len(u) + n
        <5>1. (u \o w)[i] = w[i - Len(u)] /\ (u \o h)[i] = h[i - Len(u)]
          BY <2>2, <4>1, <4>3
        <5>2. h[i - Len(u)] = w[i - Len(u)]
          BY <2>2, <4>1, <4>3
        <5> QED BY <2>2, <2>4, <4>1, <4>3, <5>1, <5>2
      <4>4. CASE i = Len(u) + n + 1
        <5>1. (u \o w)[i] = w[n + 1]
          BY <4>1, <4>4
        <5>2. Append(u \o h, x)[i] = x
          <6>1. PICK q : q = u \o h
            OBVIOUS
          <6>2. q \in Seq(Int) /\ Len(q) + 1 = i
            BY <2>4, <4>1, <4>4, <6>1
          <6>3. Append(q, x)[Len(q) + 1] = x
            BY <2>2, <6>2
          <6> QED BY <6>1, <6>2, <6>3
        <5> QED BY <2>1, <5>1, <5>2
      <4> QED BY <4>1, <4>2, <4>3, <4>4
    <3>3. u \o w \in Seq(Int) /\ Append(u \o h, x) \in Seq(Int)
      BY <2>2, <2>4
    <3> QED BY <3>1, <3>2, <3>3, SeqEqual
  <2>6. SumFunction(u \o w) = SumFunction(u \o h) + x
    BY <2>2, <2>4, <2>5, SumAppend
  <2>7. SumFunction(w) = SumFunction(h) + x
    BY <2>2, <2>3, SumAppend
  <2>8. SumFunction(u \o h) = SumFunction(u) + SumFunction(h)
    BY <1>2, <2>2
  <2> QED BY <1>0, <2>2, <2>6, <2>7, <2>8
<1>3. Len(v) \in C
  <2> HIDE DEF C
  <2>1. \A n \in Nat : n \in C
    BY <1>1, <1>2, Induction
  <2> QED BY <2>1
<1> QED BY <1>0, <1>3

\* The same number so many times.
LEMMA SumOfSame ==
  ASSUME NEW n \in Nat, NEW k \in Int
  PROVE  SumFunction([i \in 1..n |-> k]) = n * k
<1> DEFINE f(m) == [i \in 1..m |-> k]
           C == {m \in Nat : SumFunction(f(m)) = m * k}
<1>1. 0 \in C
  <2>1. f(0) = <<>>
    OBVIOUS
  <2> HIDE DEF f
  <2> QED BY <2>1, SumEmpty
<1>2. ASSUME NEW m \in Nat, m \in C PROVE m + 1 \in C
  <2>1. f(m) \in Seq(Int) /\ f(m + 1) = Append(f(m), k)
    OBVIOUS
  <2>2. SumFunction(f(m + 1)) = SumFunction(f(m)) + k
    <3> HIDE DEF f
    <3> QED BY <2>1, SumAppend
  <2>3. m * k + k = (m + 1) * k
    OBVIOUS
  <2> HIDE DEF f
  <2> QED BY <1>2, <2>2, <2>3
<1>3. n \in C
  <2> HIDE DEF C
  <2> QED BY <1>1, <1>2, Induction
<1> QED BY <1>3

-----------------------------------------------------------------------------
(***************************************************************************)
(* Prices                                                                  *)
(***************************************************************************)

\* A quotient, by what it leaves.
LEMMA Quotient ==
  ASSUME NEW n \in Int, NEW d \in Nat \ {0}
  PROVE  /\ n \div d \in Int
         /\ (n \div d) * d <= n /\ n < (n \div d) * d + d
         /\ n \in Nat => n \div d \in Nat
  OBVIOUS

\* Of two numbers the smaller, and the larger.
LEMMA OfTwo ==
  ASSUME NEW a \in Int, NEW b \in Int
  PROVE  /\ Min({a, b}) = IF a <= b THEN a ELSE b
         /\ Max({a, b}) = IF a >= b THEN a ELSE b
<1>1. Min({a, b}) \in {a, b} /\ \A x \in {a, b} : Min({a, b}) <= x
  <2>1. \E x \in {a, b} : \A y \in {a, b} : x <= y
    BY DEF Min
  <2> QED BY <2>1 DEF Min
<1>2. Max({a, b}) \in {a, b} /\ \A x \in {a, b} : Max({a, b}) >= x
  <2>1. \E x \in {a, b} : \A y \in {a, b} : x >= y
    OBVIOUS
  <2> QED BY <2>1 DEF Max
<1> QED BY <1>1, <1>2

\* Rounding up.
LEMMA Ceiling ==
  ASSUME NEW n \in Nat, NEW d \in Nat \ {0}
  PROVE  /\ DivCeil(n, d) \in Nat
         /\ n <= DivCeil(n, d) * d /\ DivCeil(n, d) * d < n + d
<1>1. n + d - 1 \in Nat
  OBVIOUS
<1> QED BY <1>1, Quotient DEF DivCeil

\* Products keep the order, and a factor can be cancelled.
LEMMA Products ==
  ASSUME NEW a \in Int, NEW b \in Int, NEW k \in Nat
  PROVE  /\ a <= b => a * k <= b * k
         /\ k # 0 /\ a * k <= b * k => a <= b
  OBVIOUS

\* The unit price of a mirror order is worth no more than the fill of a sale.
LEMMA MirrorOfSale ==
  ASSUME NEW gross \in Nat, NEW amount \in Nat \ {0}, NEW scale \in Nat \ {0},
         NEW spread \in Nat \ {0}, amount <= gross * scale
  PROVE  LET unit == MirrorUnit("buy", RecoveredUnit(gross, amount, scale), spread)
         IN unit \in Nat /\ unit * amount <= gross * scale
<1>1. PICK u, h : u = RecoveredUnit(gross, amount, scale) /\ h = amount \div 2
  OBVIOUS
<1>2. gross * scale \in Nat /\ h \in Nat /\ h * 2 <= amount /\ h <= amount
  BY <1>1, Quotient
<1>3. u \in Nat /\ u * amount <= gross * scale + h
  BY <1>1, <1>2, Quotient DEF RecoveredUnit
<1>4. (u - 1) * amount <= gross * scale
  <2>1. (u - 1) * amount = u * amount - amount /\ u * amount \in Int
    BY <1>3
  <2> QED BY <1>2, <1>3, <2>1
<1>5. BPS \in Nat \ {0}
  BY QuotingAssumption
<1>6. PICK b : b = Max({0, BPS - spread})
  OBVIOUS
<1>7. b \in Nat
  <2>1. PICK z, d : z = 0 /\ d = BPS - spread
    OBVIOUS
  <2>2. z \in Int /\ d \in Int
    BY <1>5, <2>1
  <2>3. b = IF z >= d THEN z ELSE d
    BY <1>6, <2>1, <2>2, OfTwo
  <2> QED BY <2>1, <2>2, <2>3
<1>8. PICK c, m, e : /\ c = (u * b) \div BPS /\ e = Max({0, u - 1})
                     /\ m = Min({c, e})
  OBVIOUS
<1>9. c \in Int /\ e \in Nat /\ (e = 0 \/ e = u - 1)
  <2>1. u * b \in Int
    BY <1>3, <1>7
  <2>2. c \in Int
    BY <1>5, <1>8, <2>1, Quotient
  <2>3. PICK z, d : z = 0 /\ d = u - 1
    OBVIOUS
  <2>4. z \in Int /\ d \in Int
    BY <1>3, <2>3
  <2>5. e = IF z >= d THEN z ELSE d
    BY <1>8, <2>3, <2>4, OfTwo
  <2> QED BY <2>2, <2>3, <2>4, <2>5
<1>10. m \in Int /\ m <= e
  BY <1>8, <1>9, OfTwo
<1>11. MirrorUnit("buy", u, spread) = Max({1, m})
  BY <1>6, <1>8 DEF MirrorUnit
<1>12. Max({1, m}) \in Nat /\ (Max({1, m}) = 1 \/ Max({1, m}) <= u - 1)
  <2>1. PICK x : x = 1
    OBVIOUS
  <2>2. Max({x, m}) = IF x >= m THEN x ELSE m
    BY <1>10, <2>1, OfTwo
  <2>3. m >= 1 => m <= u - 1
    BY <1>3, <1>9, <1>10
  <2> QED BY <1>10, <2>1, <2>2, <2>3
<1>13. PICK w : w = Max({1, m})
  OBVIOUS
<1>14. w * amount <= gross * scale
  <2>1. CASE w = 1
    BY <2>1
  <2>2. CASE w <= u - 1
    <3>1. w * amount <= (u - 1) * amount
      BY <1>3, <1>12, <1>13, <2>2, Products
    <3>2. w * amount \in Int /\ (u - 1) * amount \in Int
      BY <1>3, <1>12, <1>13
    <3> QED BY <1>2, <1>4, <3>1, <3>2
  <2> QED BY <1>12, <1>13, <2>1, <2>2
<1> QED BY <1>1, <1>11, <1>12, <1>13, <1>14

\* The unit price of a mirror order is worth no less than the fill of a purchase.
LEMMA MirrorOfPurchase ==
  ASSUME NEW gross \in Nat, NEW amount \in Nat \ {0}, NEW scale \in Nat \ {0},
         NEW spread \in Nat \ {0}
  PROVE  LET unit == MirrorUnit("sell", RecoveredUnit(gross, amount, scale), spread)
         IN unit \in Nat /\ unit * amount >= gross * scale
<1>1. PICK u, h : u = RecoveredUnit(gross, amount, scale) /\ h = amount \div 2
  OBVIOUS
<1>2. gross * scale \in Nat /\ h \in Nat
  BY <1>1, Quotient
<1>3. u \in Nat /\ gross * scale + h < u * amount + amount
  BY <1>1, <1>2, Quotient DEF RecoveredUnit
<1>4. (u + 1) * amount >= gross * scale
  <2>1. (u + 1) * amount = u * amount + amount /\ u * amount \in Int
    BY <1>3
  <2> QED BY <1>2, <1>3, <2>1
<1>5. BPS \in Nat \ {0}
  BY QuotingAssumption
<1>6. PICK c, m : c = DivCeil(u * (BPS + spread), BPS) /\ m = Max({1, c, u + 1})
  OBVIOUS
<1>7. c \in Nat
  <2>1. u * (BPS + spread) \in Nat
    BY <1>3, <1>5
  <2> QED BY <1>5, <1>6, <2>1, Ceiling
<1>8. m \in Nat /\ m >= u + 1
  <2>1. \E x \in {1, c, u + 1} : \A y \in {1, c, u + 1} : x >= y
    BY <1>3, <1>7
  <2>2. m \in {1, c, u + 1} /\ \A y \in {1, c, u + 1} : m >= y
    BY <1>6, <2>1 DEF Max
  <2> QED BY <1>3, <1>7, <2>2
<1>9. MirrorUnit("sell", u, spread) = m
  BY <1>6 DEF MirrorUnit
<1>10. m * amount >= gross * scale
  <2>1. (u + 1) * amount <= m * amount
    BY <1>3, <1>8, Products
  <2>2. m * amount \in Int /\ (u + 1) * amount \in Int
    BY <1>3, <1>8
  <2> QED BY <1>2, <1>4, <2>1, <2>2
<1> QED BY <1>1, <1>8, <1>9, <1>10

\* What the trade back pays or asks is then no more, or no less, in proportion.
LEMMA TradeBack ==
  ASSUME NEW gross \in Nat, NEW amount \in Nat \ {0}, NEW scale \in Nat \ {0},
         NEW unit \in Nat, NEW back \in Nat
  PROVE  /\ unit * amount <= gross * scale =>
              amount * QuoteTotalSats(unit, back, scale, FALSE) <= gross * back
         /\ unit * amount >= gross * scale =>
              amount * QuoteTotalSats(unit, back, scale, TRUE) >= gross * back
<1>1. unit * back \in Nat /\ gross * back \in Nat
  OBVIOUS
<1>2. (unit * back) * amount = (unit * amount) * back
  OBVIOUS
<1>3. (gross * scale) * back = (gross * back) * scale
  OBVIOUS
<1>4. unit * amount \in Int /\ gross * scale \in Int
  OBVIOUS
<1>5. ASSUME unit * amount <= gross * scale
      PROVE  amount * QuoteTotalSats(unit, back, scale, FALSE) <= gross * back
  <2>1. PICK q : q = (unit * back) \div scale
    OBVIOUS
  <2>2. q \in Int /\ q * scale <= unit * back
    BY <1>1, <2>1, Quotient
  <2>3. (q * scale) * amount <= (unit * back) * amount
    <3>1. q * scale \in Int
      BY <2>2
    <3> QED BY <1>1, <2>2, <3>1, Products
  <2>4. (unit * amount) * back <= (gross * scale) * back
    BY <1>4, <1>5, Products
  <2>5. (q * scale) * amount = (amount * q) * scale
    BY <2>2
  <2>6. (amount * q) * scale <= (gross * back) * scale
    <3>1. PICK a, b, c, d : /\ a = (q * scale) * amount /\ b = (unit * back) * amount
                            /\ c = (gross * scale) * back
      OBVIOUS
    <3>2. a \in Int /\ b \in Int /\ c \in Int
      BY <1>1, <1>4, <2>2, <3>1
    <3>3. a <= b /\ b <= c
      BY <1>2, <2>3, <2>4, <3>1
    <3>4. a <= c
      BY <3>2, <3>3
    <3> QED BY <1>3, <2>5, <3>1, <3>4
  <2>7. amount * q <= gross * back
    <3>1. amount * q \in Int
      BY <2>2
    <3> QED BY <1>1, <2>6, <3>1, Products
  <2> QED BY <2>1, <2>7 DEF QuoteTotalSats
<1>6. ASSUME unit * amount >= gross * scale
      PROVE  amount * QuoteTotalSats(unit, back, scale, TRUE) >= gross * back
  <2>1. PICK q : q = DivCeil(unit * back, scale)
    OBVIOUS
  <2>2. q \in Nat /\ unit * back <= q * scale
    BY <1>1, <2>1, Ceiling
  <2>3. (unit * back) * amount <= (q * scale) * amount
    <3>1. q * scale \in Int
      BY <2>2
    <3> QED BY <1>1, <2>2, <3>1, Products
  <2>4. (gross * scale) * back <= (unit * amount) * back
    BY <1>4, <1>6, Products
  <2>5. (q * scale) * amount = (amount * q) * scale
    BY <2>2
  <2>6. (gross * back) * scale <= (amount * q) * scale
    <3>1. PICK a, b, c, d : /\ a = (q * scale) * amount /\ b = (unit * back) * amount
                            /\ c = (gross * scale) * back
      OBVIOUS
    <3>2. a \in Int /\ b \in Int /\ c \in Int
      BY <1>1, <1>4, <2>2, <3>1
    <3>3. b <= a /\ c <= b
      BY <1>2, <2>3, <2>4, <3>1
    <3>4. c <= a
      BY <3>2, <3>3
    <3> QED BY <1>3, <2>5, <3>1, <3>4
  <2>7. gross * back <= amount * q
    <3>1. amount * q \in Int
      BY <2>2
    <3> QED BY <1>1, <2>6, <3>1, Products
  <2>8. amount * q \in Int
    BY <2>2
  <2> QED BY <1>1, <2>1, <2>7, <2>8 DEF QuoteTotalSats
<1> QED BY <1>5, <1>6

-----------------------------------------------------------------------------
(***************************************************************************)
(* Coin selection                                                          *)
(***************************************************************************)

\* A pool: amounts, smallest first.
Pools == {s \in Seq(Nat) : \A i, j \in 1..Len(s) : i <= j => s[i] <= s[j]}

\* The coins of a pool are finitely many, and every sum of them is a number.
LEMMA PoolSums ==
  ASSUME NEW pool \in Pools
  PROVE  /\ DOMAIN pool = 1..Len(pool) /\ Len(pool) \in Nat
         /\ \A i \in DOMAIN pool : pool[i] \in Nat
         /\ IsFiniteSet(DOMAIN pool)
         /\ \A s \in SUBSET DOMAIN pool : IsFiniteSet(s) /\ SumOf(pool, s) \in Int
         /\ SumOf(pool, {}) = 0
<1>1. pool \in Seq(Nat)
  BY DEF Pools
<1>2. /\ DOMAIN pool = 1..Len(pool) /\ Len(pool) \in Nat
      /\ \A i \in DOMAIN pool : pool[i] \in Nat
  BY <1>1
<1>3. IsFiniteSet(DOMAIN pool)
  BY <1>2, FS_Interval
<1>4. ASSUME NEW s \in SUBSET DOMAIN pool
      PROVE  IsFiniteSet(s) /\ SumOf(pool, s) \in Int
  <2>1. IsFiniteSet(s)
    BY <1>3, FS_Subset
  <2>2. \A x \in s : pool[x] \in Int
    BY <1>2
  <2> QED BY <2>1, <2>2, SumIsInt DEF SumOf
<1>5. SumOf(pool, {}) = 0
  BY <1>2, <1>3, SumIsInt DEF SumOf
<1> QED BY <1>2, <1>3, <1>4, <1>5

\* One of some coins, and the rest of them.
LEMMA CoinTaken ==
  ASSUME NEW pool \in Pools, NEW s \in SUBSET DOMAIN pool, NEW i \in s
  PROVE  /\ SumOf(pool, s) = pool[i] + SumOf(pool, s \ {i})
         /\ SumOf(pool, s \ {i}) \in Int
<1>1. IsFiniteSet(s) /\ \A x \in s : pool[x] \in Int
  BY PoolSums
<1> QED BY <1>1, SumTake DEF SumOf

\* A few coins.
LEMMA FewCoins ==
  ASSUME NEW pool \in Pools, NEW a \in DOMAIN pool, NEW b \in DOMAIN pool,
         NEW c \in DOMAIN pool
  PROVE  /\ SumOf(pool, {a}) = pool[a]
         /\ a # b => SumOf(pool, {a, b}) = pool[a] + pool[b]
         /\ a # b /\ a # c /\ b # c => SumOf(pool, {a, b, c}) = pool[a] + pool[b] + pool[c]
<1>0. pool[a] \in Nat /\ pool[b] \in Nat /\ pool[c] \in Nat /\ SumOf(pool, {}) = 0
  BY PoolSums
<1>1. SumOf(pool, {a}) = pool[a]
  <2>1. {a} \in SUBSET DOMAIN pool /\ {a} \ {a} = {} /\ a \in {a}
    OBVIOUS
  <2>2. SumOf(pool, {a}) = pool[a] + SumOf(pool, {a} \ {a})
    BY <2>1, CoinTaken
  <2> QED BY <1>0, <2>1, <2>2
<1>2. ASSUME NEW x \in DOMAIN pool, NEW y \in DOMAIN pool, x # y, SumOf(pool, {y}) = pool[y]
      PROVE  SumOf(pool, {x, y}) = pool[x] + pool[y]
  <2>1. {x, y} \in SUBSET DOMAIN pool /\ {x, y} \ {x} = {y} /\ x \in {x, y}
    BY <1>2
  <2>2. SumOf(pool, {x, y}) = pool[x] + SumOf(pool, {x, y} \ {x})
    BY <2>1, CoinTaken
  <2> QED BY <1>2, <2>1, <2>2
<1>3. a # b => SumOf(pool, {a, b}) = pool[a] + pool[b]
  <2>1. {b, a} = {a, b} /\ pool[b] + pool[a] = pool[a] + pool[b]
    BY <1>0
  <2> QED BY <1>1, <1>2, <2>1
<1>4. ASSUME a # b, a # c, b # c
      PROVE  SumOf(pool, {a, b, c}) = pool[a] + pool[b] + pool[c]
  <2>1. {a, b, c} \in SUBSET DOMAIN pool /\ {a, b, c} \ {c} = {a, b} /\ c \in {a, b, c}
    BY <1>4
  <2>2. SumOf(pool, {a, b, c}) = pool[c] + SumOf(pool, {a, b, c} \ {c})
    BY <2>1, CoinTaken
  <2>3. PICK x, y, z : x = pool[a] /\ y = pool[b] /\ z = pool[c]
    OBVIOUS
  <2>4. SumOf(pool, {a, b, c}) = z + (x + y)
    BY <1>3, <1>4, <2>1, <2>2, <2>3
  <2> QED BY <1>0, <2>3, <2>4
<1> QED BY <1>1, <1>3, <1>4

\* What a selection promises: enough, with no coin too many.
Enough(pool, chosen, amount) ==
  /\ chosen \subseteq DOMAIN pool
  /\ SumOf(pool, chosen) >= amount
  /\ \A i \in chosen : SumOf(pool, chosen \ {i}) < amount

\* GreedyLargestFirst finds it whenever there is one.
LEMMA GreedyIsEnough ==
  ASSUME NEW pool \in Pools, NEW amount \in Nat \ {0}
  PROVE  /\ GreedyLargestFirst(pool, amount) # {} =>
              Enough(pool, GreedyLargestFirst(pool, amount), amount)
         /\ SumOf(pool, DOMAIN pool) >= amount => GreedyLargestFirst(pool, amount) # {}
<1> DEFINE n == Len(pool)
           From(i) == i..n
           enough == {i \in 1..(n + 1) : SumOf(pool, From(i)) >= amount}
<1>1. GreedyLargestFirst(pool, amount) = IF enough = {} THEN {} ELSE From(Max(enough))
  BY DEF GreedyLargestFirst, NoCoins
<1>2. /\ n \in Nat /\ DOMAIN pool = 1..n /\ \A i \in 1..n : pool[i] \in Nat
      /\ \A i, j \in 1..n : i <= j => pool[i] <= pool[j]
  BY PoolSums DEF Pools
<1>3. ASSUME enough # {}
      PROVE  /\ From(Max(enough)) # {}
             /\ Enough(pool, From(Max(enough)), amount)
  <2>1. PICK m : m = Max(enough)
    OBVIOUS
  <2>2. m \in enough /\ \A i \in enough : i <= m
    <3>1. enough \in SUBSET (1..(n + 1)) /\ n + 1 \in Nat
      BY <1>2
    <3> HIDE DEF enough
    <3> QED BY <1>3, <2>1, <3>1, MaxIsIn
  <2>3. SumOf(pool, From(m)) >= amount /\ m \in 1..(n + 1)
    BY <2>2
  <2>4. m \in 1..n
    <3>1. From(n + 1) = {}
      BY <1>2
    <3>2. ASSUME m = n + 1 PROVE FALSE
      <4>1. From(m) = {}
        BY <3>1, <3>2
      <4>2. SumOf(pool, {}) >= amount
        <5> HIDE DEF From
        <5> QED BY <2>3, <4>1
      <4> QED BY <4>2, PoolSums
    <3> QED BY <1>2, <2>3, <3>2
  <2>5. /\ From(m) \in SUBSET DOMAIN pool /\ m \in From(m)
        /\ From(m) \ {m} = From(m + 1) /\ m + 1 \in 1..(n + 1)
    BY <1>2, <2>4
  <2>6. ~(SumOf(pool, From(m + 1)) >= amount)
    <3>1. m + 1 \notin enough
      BY <1>2, <2>2, <2>4
    <3> QED BY <2>5, <3>1
  <2>7. ASSUME NEW i \in From(m) PROVE SumOf(pool, From(m) \ {i}) < amount
    <3>1. i \in 1..n /\ pool[m] <= pool[i] /\ pool[m] \in Nat /\ pool[i] \in Nat
      BY <1>2, <2>4
    <3>2. /\ SumOf(pool, From(m)) = pool[i] + SumOf(pool, From(m) \ {i})
          /\ SumOf(pool, From(m) \ {i}) \in Int
      <4> HIDE DEF From
      <4> QED BY <2>5, <2>7, CoinTaken
    <3>3. /\ SumOf(pool, From(m)) = pool[m] + SumOf(pool, From(m) \ {m})
          /\ SumOf(pool, From(m) \ {m}) \in Int
      <4> HIDE DEF From
      <4> QED BY <2>5, CoinTaken
    <3>4. PICK x, y, z : /\ x = SumOf(pool, From(m) \ {i}) /\ y = SumOf(pool, From(m) \ {m})
                         /\ z = SumOf(pool, From(m))
      OBVIOUS
    <3>5. y = SumOf(pool, From(m + 1))
      <4> HIDE DEF From
      <4> QED BY <2>5, <3>4
    <3>6. ~(y >= amount)
      <4> HIDE DEF From
      <4> QED BY <2>6, <3>5
    <3> HIDE DEF From
    <3> QED BY <3>1, <3>2, <3>3, <3>4, <3>6
  <2> HIDE DEF From
  <2> QED BY <2>1, <2>3, <2>5, <2>7 DEF Enough
<1>4. ASSUME SumOf(pool, DOMAIN pool) >= amount PROVE enough # {}
  <2>1. 1 \in 1..(n + 1) /\ From(1) = DOMAIN pool
    BY <1>2
  <2>2. 1 \in enough
    <3> HIDE DEF From
    <3> QED BY <1>4, <2>1
  <2> QED BY <2>2
<1> HIDE DEF enough, From
<1> QED BY <1>1, <1>3, <1>4

\* Of two tuples, t is the same as u in the first j places or comes before it there.
Before(t, u, j) ==
  \/ \A i \in 1..j : t[i] = u[i]
  \/ \E i \in 1..j : t[i] < u[i] /\ \A h \in 1..(i - 1) : t[h] = u[h]

\* Some tuples have a first one.
LEMMA FirstTuple ==
  ASSUME NEW n \in Nat, NEW k \in Nat, NEW tuples \in SUBSET [1..k -> 1..n], tuples # {}
  PROVE  \E t \in tuples : Earliest(tuples) = Range(t)
<1> DEFINE C == {j \in Nat : j <= k => \E t \in tuples : \A u \in tuples : Before(t, u, j)}
<1>1. 0 \in C
  BY DEF Before
<1>2. ASSUME NEW j \in Nat, j \in C PROVE j + 1 \in C
  <2> SUFFICES ASSUME j + 1 <= k
               PROVE  \E t \in tuples : \A u \in tuples : Before(t, u, j + 1)
    OBVIOUS
  <2>1. PICK t \in tuples : \A u \in tuples : Before(t, u, j)
    BY <1>2
  <2> DEFINE same == {u \in tuples : \A i \in 1..j : t[i] = u[i]}
             next == {u[j + 1] : u \in same}
  <2>2. t \in same /\ next # {} /\ next \in SUBSET (1..n)
    <3>1. \A u \in tuples : u[j + 1] \in 1..n
      BY <1>2
    <3> QED BY <3>1
  <2>3. Min(next) \in next /\ \A x \in next : Min(next) <= x
    <3> HIDE DEF next
    <3> QED BY <2>2, MinIsIn
  <2>4. PICK v \in same : v[j + 1] = Min(next)
    <3> HIDE DEF same
    <3> QED BY <2>3
  <2>5. ASSUME NEW u \in tuples PROVE Before(v, u, j + 1)
    <3>1. \A i \in 1..j : v[i] = t[i]
      BY <2>4
    <3>2. CASE \E i \in 1..j : t[i] < u[i] /\ \A h \in 1..(i - 1) : t[h] = u[h]
      <4>1. PICK i \in 1..j : t[i] < u[i] /\ \A h \in 1..(i - 1) : t[h] = u[h]
        BY <3>2
      <4>2. v[i] < u[i] /\ i \in 1..(j + 1) /\ \A h \in 1..(i - 1) : v[h] = u[h]
        BY <3>1, <4>1
      <4> QED BY <4>2 DEF Before
    <3>3. CASE \A i \in 1..j : t[i] = u[i]
      <4>1. u \in same /\ u[j + 1] \in next
        BY <3>3
      <4>2. v[j + 1] <= u[j + 1] /\ v[j + 1] \in 1..n /\ u[j + 1] \in 1..n
        <5>1. v[j + 1] \in next
          BY <2>3, <2>4
        <5> HIDE DEF next
        <5> QED BY <2>2, <2>3, <2>4, <4>1, <5>1
      <4>3. \A h \in 1..j : v[h] = u[h]
        BY <3>1, <3>3
      <4>4. CASE v[j + 1] = u[j + 1]
        <5>1. \A i \in 1..(j + 1) : i = j + 1 \/ i \in 1..j
          OBVIOUS
        <5> QED BY <4>3, <4>4, <5>1 DEF Before
      <4>5. CASE v[j + 1] < u[j + 1]
        <5>1. j + 1 \in 1..(j + 1) /\ (j + 1) - 1 = j
          OBVIOUS
        <5> QED BY <4>3, <4>5, <5>1 DEF Before
      <4> QED BY <4>2, <4>4, <4>5
    <3> QED BY <2>1, <3>2, <3>3 DEF Before
  <2>6. v \in tuples
    OBVIOUS
  <2> QED BY <2>5, <2>6
<1>3. k \in C
  <2> HIDE DEF C
  <2> QED BY <1>1, <1>2, Induction
<1>4. PICK t \in tuples : \A u \in tuples : Before(t, u, k)
  BY <1>3
<1>5. \A u \in tuples : t = u \/ \E i \in DOMAIN t : t[i] < u[i] /\ \A h \in 1..(i - 1) : t[h] = u[h]
  <2> SUFFICES ASSUME NEW u \in tuples, ~ \E i \in DOMAIN t : t[i] < u[i] /\ \A h \in 1..(i - 1) : t[h] = u[h]
               PROVE  t = u
    OBVIOUS
  <2>1. DOMAIN t = 1..k /\ t \in [1..k -> 1..n] /\ u \in [1..k -> 1..n]
    OBVIOUS
  <2>2. \A i \in 1..k : t[i] = u[i]
    BY <1>4, <2>1 DEF Before
  <2> QED BY <2>1, <2>2
<1> DEFINE First(x) == \A u \in tuples : x = u \/ \E i \in DOMAIN x : x[i] < u[i] /\ \A h \in 1..(i - 1) : x[h] = u[h]
<1>6. (CHOOSE x \in tuples : First(x)) \in tuples
  <2>1. First(t)
    BY <1>5
  <2> HIDE DEF First
  <2> QED BY <2>1
<1>7. Earliest(tuples) = Range(CHOOSE x \in tuples : First(x))
  BY DEF Earliest
<1> HIDE DEF First
<1> QED BY <1>6, <1>7

\* The tuples of one, two and three coins that are worth an amount.
One(pool, amount) == {t \in [1..1 -> DOMAIN pool] : pool[t[1]] = amount}
Two(pool, amount) ==
  {t \in [1..2 -> DOMAIN pool] : t[1] < t[2] /\ pool[t[1]] + pool[t[2]] = amount}
Three(pool, amount) ==
  {t \in [1..3 -> DOMAIN pool] : /\ t[1] < t[2] /\ t[2] < t[3]
                                 /\ pool[t[1]] + pool[t[2]] + pool[t[3]] = amount}

\* Coins worth an amount, of which none is worth nothing.
LEMMA ExactIsEnough ==
  ASSUME NEW pool \in Pools, NEW amount \in Nat \ {0}, NEW s \in SUBSET DOMAIN pool,
         SumOf(pool, s) = amount, \A i \in s : pool[i] # 0
  PROVE  Enough(pool, s, amount)
<1>1. ASSUME NEW i \in s PROVE SumOf(pool, s \ {i}) < amount
  <2>1. SumOf(pool, s) = pool[i] + SumOf(pool, s \ {i}) /\ SumOf(pool, s \ {i}) \in Int
    BY CoinTaken
  <2>2. pool[i] \in Nat /\ pool[i] # 0
    BY PoolSums
  <2> QED BY <2>1, <2>2
<1> QED BY <1>1 DEF Enough

\* The first exact tuple is a selection.
LEMMA FirstOfOne ==
  ASSUME NEW pool \in Pools, NEW amount \in Nat \ {0}, One(pool, amount) # {}
  PROVE  /\ Enough(pool, Earliest(One(pool, amount)), amount)
         /\ SumOf(pool, Earliest(One(pool, amount))) = amount
<1>1. One(pool, amount) \in SUBSET [1..1 -> 1..Len(pool)] /\ Len(pool) \in Nat
  BY PoolSums DEF One
<1>2. PICK t \in One(pool, amount) : Earliest(One(pool, amount)) = Range(t)
  BY <1>1, FirstTuple
<1>3. t[1] \in DOMAIN pool /\ pool[t[1]] = amount /\ Range(t) = {t[1]}
  BY <1>2 DEF One, Range
<1>4. SumOf(pool, {t[1]}) = amount
  BY <1>3, FewCoins
<1>5. Enough(pool, {t[1]}, amount)
  <2>1. {t[1]} \in SUBSET DOMAIN pool /\ \A i \in {t[1]} : pool[i] # 0
    BY <1>3
  <2> QED BY <1>4, <2>1, ExactIsEnough
<1> QED BY <1>2, <1>3, <1>4, <1>5

\* If no coin is, and a pair is: the first pair is enough.
LEMMA FirstOfTwo ==
  ASSUME NEW pool \in Pools, NEW amount \in Nat \ {0}, One(pool, amount) = {},
         Two(pool, amount) # {}
  PROVE  /\ Enough(pool, Earliest(Two(pool, amount)), amount)
         /\ SumOf(pool, Earliest(Two(pool, amount))) = amount
<1>1. Two(pool, amount) \in SUBSET [1..2 -> 1..Len(pool)] /\ Len(pool) \in Nat
  BY PoolSums DEF Two
<1>2. PICK t \in Two(pool, amount) : Earliest(Two(pool, amount)) = Range(t)
  BY <1>1, FirstTuple
<1>3. PICK a, b : a = t[1] /\ b = t[2]
  OBVIOUS
<1>4. /\ a \in DOMAIN pool /\ b \in DOMAIN pool /\ a # b
      /\ pool[a] + pool[b] = amount /\ Range(t) = {a, b}
  <2>1. DOMAIN t = {1, 2} /\ t[1] \in DOMAIN pool /\ t[2] \in DOMAIN pool
    BY <1>2 DEF Two
  <2>2. t[1] < t[2] /\ pool[t[1]] + pool[t[2]] = amount
    BY <1>2 DEF Two
  <2>3. t[1] \in Int /\ t[2] \in Int
    BY <2>1, PoolSums
  <2>4. Range(t) = {t[1], t[2]}
    BY <2>1 DEF Range
  <2> QED BY <1>3, <2>1, <2>2, <2>3, <2>4
<1>5. pool[a] # 0 /\ pool[b] # 0
  <2>1. \A i \in DOMAIN pool : pool[i] # amount
    <3> SUFFICES ASSUME NEW i \in DOMAIN pool, pool[i] = amount PROVE FALSE
      OBVIOUS
    <3>1. [k \in 1..1 |-> i] \in One(pool, amount)
      BY DEF One
    <3> QED BY <3>1
  <2>2. pool[a] \in Nat /\ pool[b] \in Nat
    BY <1>4, PoolSums
  <2> QED BY <1>4, <2>1, <2>2
<1>6. SumOf(pool, {a, b}) = amount
  BY <1>4, FewCoins
<1>7. Enough(pool, {a, b}, amount)
  <2>1. {a, b} \in SUBSET DOMAIN pool /\ \A i \in {a, b} : pool[i] # 0
    BY <1>4, <1>5
  <2> QED BY <1>6, <2>1, ExactIsEnough
<1> QED BY <1>2, <1>4, <1>6, <1>7

\* If no pair is, and a triple is: the first triple is enough.
LEMMA FirstOfThree ==
  ASSUME NEW pool \in Pools, NEW amount \in Nat \ {0}, Two(pool, amount) = {},
         Three(pool, amount) # {}
  PROVE  /\ Enough(pool, Earliest(Three(pool, amount)), amount)
         /\ SumOf(pool, Earliest(Three(pool, amount))) = amount
<1>1. Three(pool, amount) \in SUBSET [1..3 -> 1..Len(pool)] /\ Len(pool) \in Nat
  BY PoolSums DEF Three
<1>2. PICK t \in Three(pool, amount) : Earliest(Three(pool, amount)) = Range(t)
  BY <1>1, FirstTuple
<1>3. PICK a, b, c : a = t[1] /\ b = t[2] /\ c = t[3]
  OBVIOUS
<1>4. /\ {a, b, c} \subseteq DOMAIN pool /\ Range(t) = {a, b, c}
      /\ pool[a] + pool[b] + pool[c] = amount
      /\ a < b /\ b < c /\ {a, b, c} \subseteq Int
  <2>1. DOMAIN t = {1, 2, 3} /\ t[1] \in DOMAIN pool /\ t[2] \in DOMAIN pool /\ t[3] \in DOMAIN pool
    BY <1>2 DEF Three
  <2>2. t[1] < t[2] /\ t[2] < t[3] /\ pool[t[1]] + pool[t[2]] + pool[t[3]] = amount
    BY <1>2 DEF Three
  <2>3. t[1] \in Int /\ t[2] \in Int /\ t[3] \in Int
    BY <2>1, PoolSums
  <2>4. Range(t) = {t[1], t[2], t[3]}
    BY <2>1 DEF Range
  <2> QED BY <1>3, <2>1, <2>2, <2>3, <2>4
<1>5. a < c /\ a # b /\ b # c /\ a # c
  BY <1>4
<1>6. \A i, j \in DOMAIN pool : i < j => pool[i] + pool[j] # amount
  <2> SUFFICES ASSUME NEW i \in DOMAIN pool, NEW j \in DOMAIN pool, i < j,
                      pool[i] + pool[j] = amount
               PROVE  FALSE
    OBVIOUS
  <2>1. PICK u : u = [k \in 1..2 |-> IF k = 1 THEN i ELSE j]
    OBVIOUS
  <2>2. u \in [1..2 -> DOMAIN pool] /\ u[1] = i /\ u[2] = j
    BY <2>1
  <2>3. u \in Two(pool, amount)
    BY <2>2 DEF Two
  <2> QED BY <2>3
<1>7. pool[a] # 0 /\ pool[b] # 0 /\ pool[c] # 0
  <2>1. PICK x, y, z : x = pool[a] /\ y = pool[b] /\ z = pool[c]
    OBVIOUS
  <2>2. x \in Nat /\ y \in Nat /\ z \in Nat
    BY <1>4, <2>1, PoolSums
  <2>3. x + y # amount /\ x + z # amount /\ y + z # amount
    BY <1>4, <1>5, <1>6, <2>1
  <2>4. x + y + z = amount
    BY <1>4, <2>1
  <2> QED BY <2>1, <2>2, <2>3, <2>4
<1>8. SumOf(pool, {a, b, c}) = amount
  <2>1. a \in DOMAIN pool /\ b \in DOMAIN pool /\ c \in DOMAIN pool
    BY <1>4
  <2>2. SumOf(pool, {a, b, c}) = pool[a] + pool[b] + pool[c]
    BY <1>5, <2>1, FewCoins
  <2> QED BY <1>4, <2>2
<1>9. Enough(pool, {a, b, c}, amount)
  <2>1. {a, b, c} \in SUBSET DOMAIN pool /\ \A i \in {a, b, c} : pool[i] # 0
    BY <1>4, <1>7
  <2> QED BY <1>8, <2>1, ExactIsEnough
<1> QED BY <1>2, <1>4, <1>8, <1>9

\* Some coins, up to three, are one of these tuples.
LEMMA FewAreTuples ==
  ASSUME NEW pool \in Pools, NEW amount \in Nat \ {0}, NEW s \in SUBSET DOMAIN pool,
         SumOf(pool, s) = amount
  PROVE  /\ Cardinality(s) <= 1 => One(pool, amount) # {}
         /\ Cardinality(s) = 2 => Two(pool, amount) # {}
         /\ Cardinality(s) = 3 => Three(pool, amount) # {}
<1>1. IsFiniteSet(s) /\ SumOf(pool, {}) = 0 /\ \A i \in s : i \in Int /\ pool[i] \in Nat
  BY PoolSums
<1>2. PICK a : a \in s
  BY <1>1
<1>3. /\ Cardinality(s \ {a}) = Cardinality(s) - 1 /\ IsFiniteSet(s \ {a})
      /\ Cardinality(s) \in Nat
  BY <1>1, <1>2, FS_RemoveElement, FS_CardinalityType
<1>4. Cardinality(s) <= 1 => One(pool, amount) # {}
  <2> SUFFICES ASSUME Cardinality(s) <= 1 PROVE One(pool, amount) # {}
    OBVIOUS
  <2>1. s \ {a} = {}
    <3>1. Cardinality(s \ {a}) = 0
      <4>1. Cardinality(s \ {a}) \in Nat
        BY <1>3, FS_CardinalityType
      <4> QED BY <1>3, <4>1
    <3> QED BY <1>3, <3>1, FS_EmptySet
  <2>2. s = {a}
    BY <1>2, <2>1
  <2>3. pool[a] = amount
    BY <1>2, <2>2, FewCoins
  <2>4. [k \in 1..1 |-> a] \in One(pool, amount)
    BY <1>2, <2>3 DEF One
  <2> QED BY <2>4
<1>5. ASSUME Cardinality(s) >= 2
      PROVE  \E b \in s : b # a /\ IsFiniteSet(s \ {a, b})
                          /\ Cardinality(s \ {a, b}) = Cardinality(s) - 2
  <2>1. s \ {a} # {}
    <3>1. Cardinality(s \ {a}) # 0
      BY <1>3, <1>5
    <3> QED BY <3>1, FS_EmptySet
  <2>2. PICK b : b \in s \ {a}
    BY <2>1
  <2>3. (s \ {a}) \ {b} = s \ {a, b}
    OBVIOUS
  <2>4. Cardinality((s \ {a}) \ {b}) = Cardinality(s \ {a}) - 1 /\ IsFiniteSet((s \ {a}) \ {b})
    BY <1>3, <2>2, FS_RemoveElement
  <2>5. PICK r : r = s \ {a, b}
    OBVIOUS
  <2>6. IsFiniteSet(r) /\ Cardinality(r) = Cardinality(s) - 2
    BY <1>3, <2>3, <2>4, <2>5
  <2> QED BY <2>2, <2>5, <2>6
<1>6. ASSUME NEW i \in s, NEW j \in s, i < j, pool[i] + pool[j] = amount
      PROVE  Two(pool, amount) # {}
  <2>1. PICK u : u = [k \in 1..2 |-> IF k = 1 THEN i ELSE j]
    OBVIOUS
  <2>2. u \in [1..2 -> DOMAIN pool] /\ u[1] = i /\ u[2] = j
    BY <2>1
  <2>3. u \in Two(pool, amount)
    BY <1>6, <2>2 DEF Two
  <2> QED BY <2>3
<1>7. Cardinality(s) = 2 => Two(pool, amount) # {}
  <2> SUFFICES ASSUME Cardinality(s) = 2 PROVE Two(pool, amount) # {}
    OBVIOUS
  <2>1. PICK b \in s : b # a /\ IsFiniteSet(s \ {a, b}) /\ Cardinality(s \ {a, b}) = 0
    BY <1>5
  <2>2. s = {a, b}
    BY <1>2, <2>1, FS_EmptySet
  <2>3. pool[a] + pool[b] = amount /\ pool[b] + pool[a] = amount
    <3>1. a \in DOMAIN pool /\ b \in DOMAIN pool /\ a # b
      BY <1>2, <2>1
    <3>2. SumOf(pool, {a, b}) = pool[a] + pool[b]
      BY <3>1, FewCoins
    <3>3. pool[a] \in Nat /\ pool[b] \in Nat
      BY <1>1, <1>2
    <3> QED BY <2>2, <3>2, <3>3
  <2>4. a < b \/ b < a
    BY <1>1, <1>2, <2>1
  <2> QED BY <1>2, <1>6, <2>3, <2>4
<1>8. ASSUME NEW i \in s, NEW j \in s, NEW k \in s, i < j, j < k, s = {i, j, k}
      PROVE  Three(pool, amount) # {}
  <2>1. PICK u : u = [x \in 1..3 |-> IF x = 1 THEN i ELSE IF x = 2 THEN j ELSE k]
    OBVIOUS
  <2>2. u \in [1..3 -> DOMAIN pool] /\ u[1] = i /\ u[2] = j /\ u[3] = k
    BY <2>1
  <2>3. i # j /\ j # k /\ i # k
    BY <1>1, <1>8
  <2>4. pool[i] + pool[j] + pool[k] = amount
    BY <1>8, <2>3, FewCoins
  <2>5. u \in Three(pool, amount)
    BY <1>8, <2>2, <2>4 DEF Three
  <2> QED BY <2>5
<1>9. Cardinality(s) = 3 => Three(pool, amount) # {}
  <2> SUFFICES ASSUME Cardinality(s) = 3 PROVE Three(pool, amount) # {}
    OBVIOUS
  <2>1. PICK b \in s : b # a /\ IsFiniteSet(s \ {a, b}) /\ Cardinality(s \ {a, b}) = 1
    BY <1>5
  <2>2. PICK c : c \in s \ {a, b}
    <3>1. s \ {a, b} # {}
      BY <2>1, FS_EmptySet
    <3> QED BY <3>1
  <2>3. (s \ {a, b}) \ {c} = {}
    <3>1. PICK r : r = s \ {a, b}
      OBVIOUS
    <3>2. Cardinality(r \ {c}) = 0 /\ IsFiniteSet(r \ {c})
      BY <2>1, <2>2, <3>1, FS_RemoveElement
    <3> QED BY <3>1, <3>2, FS_EmptySet
  <2>4. s = {a, b, c} /\ a # b /\ a # c /\ b # c
    BY <1>2, <2>1, <2>2, <2>3
  <2>5. a \in Int /\ b \in Int /\ c \in Int /\ c \in s
    BY <1>1, <1>2, <2>1, <2>2
  <2>6. \/ (a < b /\ b < c) \/ (a < c /\ c < b) \/ (b < a /\ a < c)
        \/ (b < c /\ c < a) \/ (c < a /\ a < b) \/ (c < b /\ b < a)
    BY <2>4, <2>5
  <2>7. /\ s = {a, c, b} /\ s = {b, a, c} /\ s = {b, c, a} /\ s = {c, a, b} /\ s = {c, b, a}
    BY <2>4
  <2> QED BY <1>2, <1>8, <2>4, <2>5, <2>6, <2>7
<1> QED BY <1>4, <1>7, <1>9

\* How many coins an exact selection may take.
MostExact(n) == IF n <= SUBSET_LIMIT_3OFN THEN 3 ELSE IF n <= SUBSET_LIMIT_2OFN THEN 2 ELSE 1

\* GreedyExactFit finds coins whenever there are any, exactly if a few are, and with
\* no more change than any coin that is large enough would leave.
LEMMA ExactFitIsEnough ==
  ASSUME NEW pool \in Pools, NEW amount \in Nat \ {0}
  PROVE  LET chosen == GreedyExactFit(pool, amount) IN
         /\ chosen # {} => Enough(pool, chosen, amount)
         /\ SumOf(pool, DOMAIN pool) >= amount =>
              /\ chosen # {}
              /\ (\E s \in SUBSET DOMAIN pool : /\ Cardinality(s) <= MostExact(Len(pool))
                                                /\ SumOf(pool, s) = amount)
                   => SumOf(pool, chosen) = amount
              /\ \A i \in DOMAIN pool : pool[i] >= amount => SumOf(pool, chosen) <= pool[i]
<1> DEFINE coins == DOMAIN pool
           one == {t \in [1..1 -> coins] : pool[t[1]] = amount}
           two == IF Len(pool) > SUBSET_LIMIT_2OFN THEN {}
                  ELSE {t \in [1..2 -> coins] : t[1] < t[2] /\ pool[t[1]] + pool[t[2]] = amount}
           three == IF Len(pool) > SUBSET_LIMIT_3OFN THEN {}
                    ELSE {t \in [1..3 -> coins] : /\ t[1] < t[2] /\ t[2] < t[3]
                                                  /\ pool[t[1]] + pool[t[2]] + pool[t[3]] = amount}
           larger == {i \in coins : pool[i] > amount}
           greedy == GreedyLargestFirst(pool, amount)
           chosen == GreedyExactFit(pool, amount)
           few == \E s \in SUBSET DOMAIN pool : /\ Cardinality(s) <= MostExact(Len(pool))
                                                /\ SumOf(pool, s) = amount
<1>0. /\ SumOf(pool, coins) \in Int /\ Len(pool) \in Nat /\ coins = 1..Len(pool)
      /\ \A i \in coins : pool[i] \in Nat
      /\ \A s \in SUBSET coins : SumOf(pool, s) \in Int
  BY PoolSums
<1>1. /\ one = One(pool, amount)
      /\ two = IF Len(pool) > SUBSET_LIMIT_2OFN THEN {} ELSE Two(pool, amount)
      /\ three = IF Len(pool) > SUBSET_LIMIT_3OFN THEN {} ELSE Three(pool, amount)
  BY DEF One, Two, Three
<1>2. /\ {SUBSET_LIMIT_2OFN, SUBSET_LIMIT_3OFN} \subseteq Nat
      /\ SUBSET_LIMIT_3OFN <= SUBSET_LIMIT_2OFN
  BY QuotingAssumption
<1>3. chosen =
        IF amount = 0 \/ SumOf(pool, coins) < amount THEN {}
        ELSE CASE one # {} -> Earliest(one)
               [] one = {} /\ two # {} -> Earliest(two)
               [] one \cup two = {} /\ three # {} -> Earliest(three)
               [] one \cup two \cup three = {} /\ larger = {} -> greedy
               [] OTHER -> IF pool[Min(larger)] <= SumOf(pool, greedy) THEN {Min(larger)}
                           ELSE greedy
  BY DEF GreedyExactFit, NoCoins
<1>4. ASSUME SumOf(pool, coins) < amount PROVE chosen = {}
  <2> HIDE DEF one, two, three, larger, greedy, chosen, coins
  <2> QED BY <1>3, <1>4
<1>5. ASSUME ~(SumOf(pool, coins) < amount)
      PROVE  chosen = IF one # {} THEN Earliest(one)
                      ELSE IF two # {} THEN Earliest(two)
                      ELSE IF three # {} THEN Earliest(three)
                      ELSE IF larger = {} THEN greedy
                      ELSE IF pool[Min(larger)] <= SumOf(pool, greedy) THEN {Min(larger)}
                      ELSE greedy
  <2> HIDE DEF one, two, three, larger, greedy, chosen, coins
  <2>1. ~(amount = 0 \/ SumOf(pool, coins) < amount)
    BY <1>5
  <2>2. CASE one # {}
    BY <1>3, <2>1, <2>2
  <2>3. CASE one = {} /\ two # {}
    <3>1. one \cup two # {} /\ one \cup two \cup three # {}
      BY <2>3
    <3> QED BY <1>3, <2>1, <2>3, <3>1
  <2>4. CASE one = {} /\ two = {} /\ three # {}
    <3>1. one \cup two = {} /\ one \cup two \cup three # {}
      BY <2>4
    <3> QED BY <1>3, <2>1, <2>4, <3>1
  <2>5. CASE one = {} /\ two = {} /\ three = {}
    <3>1. one \cup two = {} /\ one \cup two \cup three = {}
      BY <2>5
    <3>2. CASE larger = {}
      BY <1>3, <2>1, <2>5, <3>1, <3>2
    <3>3. CASE larger # {}
      BY <1>3, <2>1, <2>5, <3>1, <3>3
    <3> QED BY <2>5, <3>2, <3>3
  <2> QED BY <2>2, <2>3, <2>4, <2>5
<1> DEFINE Right(c) ==
      /\ c # {} /\ Enough(pool, c, amount)
      /\ few => SumOf(pool, c) = amount
      /\ \A i \in DOMAIN pool : pool[i] >= amount => SumOf(pool, c) <= pool[i]
<1>6. ASSUME NEW c, Enough(pool, c, amount), SumOf(pool, c) = amount PROVE Right(c)
  <2>1. c # {}
    <3>1. SumOf(pool, {}) = 0
      BY PoolSums
    <3> QED BY <1>6, <3>1
  <2> QED BY <1>6, <2>1
<1>7. ASSUME ~(SumOf(pool, coins) < amount) PROVE Right(chosen)
  <2>1. CASE one # {}
    <3>1. chosen = Earliest(One(pool, amount)) /\ One(pool, amount) # {}
      <4> HIDE DEF one, two, three, larger, greedy, chosen, coins
      <4> QED BY <1>1, <1>5, <1>7, <2>1
    <3> HIDE DEF chosen, Right
    <3> QED BY <1>6, <3>1, FirstOfOne
  <2>2. CASE one = {} /\ two # {}
    <3>1. /\ chosen = Earliest(Two(pool, amount)) /\ Two(pool, amount) # {}
          /\ One(pool, amount) = {}
      <4> HIDE DEF one, two, three, larger, greedy, chosen, coins
      <4> QED BY <1>1, <1>5, <1>7, <2>2
    <3> HIDE DEF chosen, Right
    <3> QED BY <1>6, <3>1, FirstOfTwo
  <2>3. CASE one = {} /\ two = {} /\ three # {}
    <3>1. /\ chosen = Earliest(Three(pool, amount)) /\ Three(pool, amount) # {}
          /\ Two(pool, amount) = {}
      <4> HIDE DEF one, two, three, larger, greedy, chosen, coins
      <4> QED BY <1>0, <1>1, <1>2, <1>5, <1>7, <2>3
    <3> HIDE DEF chosen, Right
    <3> QED BY <1>6, <3>1, FirstOfThree
  <2>4. CASE one = {} /\ two = {} /\ three = {}
    <3>1. ~few
      <4> SUFFICES ASSUME NEW s \in SUBSET DOMAIN pool,
                          Cardinality(s) <= MostExact(Len(pool)), SumOf(pool, s) = amount
                   PROVE  FALSE
        OBVIOUS
      <4>1. Cardinality(s) \in Nat
        BY PoolSums, FS_CardinalityType
      <4>2. /\ Cardinality(s) <= 1 => One(pool, amount) # {}
            /\ Cardinality(s) = 2 => Two(pool, amount) # {}
            /\ Cardinality(s) = 3 => Three(pool, amount) # {}
        BY FewAreTuples
      <4> HIDE DEF one, two, three, coins
      <4> QED BY <1>0, <1>1, <1>2, <2>4, <4>1, <4>2 DEF MostExact
    <3>2. \A i \in coins : pool[i] # amount
      <4> SUFFICES ASSUME NEW i \in coins, pool[i] = amount PROVE FALSE
        OBVIOUS
      <4>1. [k \in 1..1 |-> i] \in one
        OBVIOUS
      <4> QED BY <2>4, <4>1
    <3>3. greedy # {} /\ Enough(pool, greedy, amount)
      BY <1>0, <1>7, GreedyIsEnough
    <3>4. CASE larger = {}
      <4>1. chosen = greedy
        <5> HIDE DEF one, two, three, larger, greedy, chosen, coins
        <5> QED BY <1>5, <1>7, <2>4, <3>4
      <4>2. \A i \in DOMAIN pool : ~(pool[i] >= amount)
        BY <1>0, <3>2, <3>4
      <4> HIDE DEF greedy, chosen, few, larger
      <4> QED BY <3>1, <3>3, <4>1, <4>2
    <3>5. CASE larger # {}
      <4>1. PICK m : m = Min(larger)
        OBVIOUS
      <4>2. m \in larger /\ \A i \in larger : m <= i
        <5>1. larger \in SUBSET (1..Len(pool))
          BY <1>0
        <5> HIDE DEF larger
        <5> QED BY <1>0, <3>5, <4>1, <5>1, MinIsIn
      <4>3. m \in coins /\ pool[m] \in Nat /\ pool[m] > amount
        BY <1>0, <4>2
      <4>4. \A i \in coins : pool[i] >= amount => pool[m] <= pool[i]
        <5> SUFFICES ASSUME NEW i \in coins, pool[i] >= amount PROVE pool[m] <= pool[i]
          OBVIOUS
        <5>1. i \in larger
          BY <1>0, <3>2
        <5>2. m <= i
          BY <4>2, <5>1
        <5> QED BY <1>0, <4>3, <5>2 DEF Pools
      <4>5. SumOf(pool, {m}) = pool[m]
        BY <4>3, FewCoins
      <4>6. chosen = IF pool[m] <= SumOf(pool, greedy) THEN {m} ELSE greedy
        <5> HIDE DEF one, two, three, larger, greedy, chosen, coins
        <5> QED BY <1>5, <1>7, <2>4, <3>5, <4>1
      <4>7. CASE pool[m] <= SumOf(pool, greedy)
        <5>1. chosen = {m}
          <6> HIDE DEF greedy, chosen
          <6> QED BY <4>6, <4>7
        <5>2. Enough(pool, {m}, amount)
          <6>1. \A i \in {m} : {m} \ {i} = {}
            OBVIOUS
          <6>2. SumOf(pool, {}) = 0
            BY PoolSums
          <6> QED BY <4>3, <4>5, <6>1, <6>2 DEF Enough
        <5> HIDE DEF greedy, chosen, few, larger
        <5> QED BY <3>1, <4>4, <4>5, <5>1, <5>2
      <4>8. CASE ~(pool[m] <= SumOf(pool, greedy))
        <5>1. chosen = greedy
          <6> HIDE DEF greedy, chosen
          <6> QED BY <4>6, <4>8
        <5>2. SumOf(pool, greedy) \in Int
          BY <1>0, <3>3 DEF Enough
        <5>3. \A i \in coins : pool[i] >= amount => SumOf(pool, greedy) <= pool[i]
          <6> SUFFICES ASSUME NEW i \in coins, pool[i] >= amount
                       PROVE  SumOf(pool, greedy) <= pool[i]
            OBVIOUS
          <6>1. pool[m] <= pool[i] /\ pool[i] \in Nat
            BY <1>0, <4>4
          <6> HIDE DEF greedy
          <6> QED BY <4>3, <4>8, <5>2, <6>1
        <5> HIDE DEF greedy, chosen, few, larger
        <5> QED BY <3>1, <3>3, <5>1, <5>3
      <4> QED BY <4>7, <4>8
    <3> QED BY <3>4, <3>5
  <2> HIDE DEF one, two, three, Right, chosen
  <2> QED BY <2>1, <2>2, <2>3, <2>4
<1>8. SumOf(pool, coins) >= amount => ~(SumOf(pool, coins) < amount)
  BY <1>0
<1>9. chosen # {} => Enough(pool, chosen, amount)
  <2> HIDE DEF chosen, few, coins
  <2> QED BY <1>4, <1>7
<1> HIDE DEF chosen, coins
<1> QED BY <1>7, <1>8, <1>9 DEF chosen, coins

-----------------------------------------------------------------------------
(***************************************************************************)
(* The ladder                                                              *)
(***************************************************************************)

\* A fold from the left over n positions: the value at a set of positions is a step
\* from the value at those before the last.
Folds(g, n, base, step, Ty) ==
  /\ g = [s \in SUBSET (1..n) |-> IF s = {} THEN base ELSE step[s][g[s \ {Max(s)}]]]
  /\ \A s \in SUBSET (1..n) : g[s] \in Ty[s]

\* It exists.
LEMMA FoldExists ==
  ASSUME NEW n \in Nat, NEW base, NEW step, NEW Ty,
         base \in Ty[{}],
         \A s \in SUBSET (1..n) : s # {} => \A v \in Ty[s \ {Max(s)}] : step[s][v] \in Ty[s]
  PROVE  \E g : Folds(g, n, base, step, Ty)
<1> DEFINE pick == [s \in SUBSET (1..n) |-> Max(s)]
<1>1. PICK S : S = 1..n
  OBVIOUS
<1>2. IsFiniteSet(S)
  BY <1>1, FS_Interval
<1>3. \A s \in SUBSET S : pick[s] = Max(s) /\ (s # {} => pick[s] \in s)
  BY <1>1, MaxIsIn
<1> HIDE DEF pick
<1>4. \A s \in SUBSET S : s # {} => \A v \in Ty[s \ {pick[s]}] : step[s][v] \in Ty[s]
  BY <1>1, <1>3
<1>5. PICK g : Recurs(g, S, pick, base, step, Ty)
  BY <1>2, <1>3, <1>4, SetRecursion
<1> DEFINE h == [s \in SUBSET (1..n) |-> g[s]]
<1>6. \A s \in SUBSET (1..n) : h[s] = IF s = {} THEN base ELSE step[s][h[s \ {Max(s)}]]
  <2>1. \A s \in SUBSET (1..n) : s \ {Max(s)} \in SUBSET (1..n)
    OBVIOUS
  <2> QED BY <1>1, <1>3, <1>5, <2>1 DEF Recurs
<1>7. h = [s \in SUBSET (1..n) |-> h[s]]
  OBVIOUS
<1>8. \A s \in SUBSET (1..n) : h[s] \in Ty[s]
  BY <1>1, <1>5 DEF Recurs
<1> HIDE DEF h
<1>9. Folds(h, n, base, step, Ty)
  BY <1>6, <1>7, <1>8 DEF Folds
<1> QED BY <1>9

\* And its types.
LEMMA FoldTyped ==
  ASSUME NEW n \in Nat, NEW g, NEW Ty,
         g[{}] \in Ty[{}],
         \A s \in SUBSET (1..n) : s # {} /\ g[s \ {Max(s)}] \in Ty[s \ {Max(s)}] => g[s] \in Ty[s]
  PROVE  g[1..n] \in Ty[1..n]
<1> DEFINE pick == [s \in SUBSET (1..n) |-> Max(s)]
<1>1. PICK S : S = 1..n
  OBVIOUS
<1>2. IsFiniteSet(S)
  BY <1>1, FS_Interval
<1>3. \A s \in SUBSET S : pick[s] = Max(s) /\ (s # {} => pick[s] \in s)
  BY <1>1, MaxIsIn
<1> HIDE DEF pick
<1>4. \A s \in SUBSET S : s # {} => /\ pick[s] \in s
                                    /\ g[s \ {pick[s]}] \in Ty[s \ {pick[s]}] => g[s] \in Ty[s]
  BY <1>1, <1>3
<1>5. \A s \in SUBSET S : g[s] \in Ty[s]
  BY <1>2, <1>4, SetTyped
<1> QED BY <1>1, <1>5

-----------------------------------------------------------------------------
(***************************************************************************)
(* The planner: what it computes are sequences of numbers                  *)
(***************************************************************************)

\* One more is put where it belongs.
LEMMA InsertIs ==
  ASSUME NEW s \in Pools, NEW x \in Nat
  PROVE  Insert(s, x) \in Pools /\ Len(Insert(s, x)) = Len(s) + 1
<1> DEFINE U == {i \in DOMAIN s : s[i] <= x}
<1>1. PICK k : k = Cardinality(U)
  OBVIOUS
<1>2. PICK n : n = Len(s)
  OBVIOUS
<1>3. /\ s \in Seq(Nat) /\ n \in Nat /\ DOMAIN s = 1..n
      /\ \A i \in 1..n : s[i] \in Nat
      /\ \A i, j \in 1..n : i <= j => s[i] <= s[j]
  BY <1>2 DEF Pools
<1>4. k \in 0..n /\ U = 1..k
  <2>1. CASE U = {}
    <3>1. k = 0
      <4> HIDE DEF U
      <4> QED BY <1>1, <2>1, FS_EmptySet
    <3>2. 1..0 = {}
      OBVIOUS
    <3> HIDE DEF U
    <3> QED BY <1>3, <2>1, <3>1, <3>2
  <2>2. CASE U # {}
    <3>1. PICK m : m = Max(U)
      OBVIOUS
    <3>2. U \in SUBSET (1..n)
      BY <1>3
    <3>3. m \in U /\ \A i \in U : i <= m
      <4> HIDE DEF U
      <4> QED BY <1>3, <2>2, <3>1, <3>2, MaxIsIn
    <3>4. m \in 1..n /\ s[m] <= x
      BY <3>2, <3>3
    <3>5. U = 1..m
      <4>1. \A i \in 1..m : i \in 1..n /\ s[i] <= s[m] /\ s[i] \in Nat /\ s[m] \in Nat
        BY <1>3, <3>4
      <4>2. \A i \in 1..m : i \in U
        BY <1>3, <3>4, <4>1
      <4>3. \A i \in U : i \in 1..m
        BY <3>2, <3>3, <3>4
      <4> HIDE DEF U
      <4> QED BY <4>2, <4>3
    <3>6. Cardinality(1..m) = m
      BY <3>4, FS_Interval
    <3> HIDE DEF U
    <3> QED BY <1>1, <3>4, <3>5, <3>6
  <2> QED BY <2>1, <2>2
<1>5. \A i \in 1..n : (i <= k => s[i] <= x) /\ (i > k => x <= s[i])
  <2> SUFFICES ASSUME NEW i \in 1..n
               PROVE  (i <= k => s[i] <= x) /\ (i > k => x <= s[i])
    OBVIOUS
  <2>1. i \in U <=> i \in 1..k
    <3> HIDE DEF U
    <3> QED BY <1>4
  <2> QED BY <1>3, <1>4, <2>1
<1>6. Insert(s, x) = (SubSeq(s, 1, k) \o <<x>>) \o SubSeq(s, k + 1, n)
  <2>1. (1 + k) - 1 = k /\ 1 + k = k + 1
    BY <1>4
  <2> QED BY <1>1, <1>2, <2>1 DEF Insert, InsertAt
<1>7. PICK a, b, q : a = SubSeq(s, 1, k) /\ b = SubSeq(s, k + 1, n) /\ q = a \o <<x>>
  OBVIOUS
<1>8. /\ a \in Seq(Nat) /\ Len(a) = k /\ \A i \in 1..k : a[i] = s[i]
      /\ b \in Seq(Nat) /\ Len(b) = n - k /\ \A i \in 1..(n - k) : b[i] = s[k + i]
  <2>1. a \in Seq(Nat) /\ Len(a) = k
    BY <1>3, <1>2, <1>4, <1>7
  <2>2. \A i \in 1..k : a[i] = s[i]
    BY <1>3, <1>2, <1>4, <1>7
  <2>3. b \in Seq(Nat)
    BY <1>3, <1>2, <1>4, <1>7
  <2>4. Len(b) = n - k
    <3>1. PICK c : c = k + 1
      OBVIOUS
    <3>2. c \in Int /\ n \in Int /\ \A i \in c..n : s[i] \in Nat
      BY <1>3, <1>4, <3>1
    <3>3. Len(SubSeq(s, c, n)) = IF c <= n THEN n - c + 1 ELSE 0
      BY <3>2, SubSeqProperties
    <3> QED BY <1>3, <1>4, <1>7, <3>1, <3>3
  <2>5. ASSUME NEW i \in 1..(n - k) PROVE b[i] = s[k + i]
    <3>1. b[i] = s[(k + 1) + i - 1]
      BY <1>3, <1>2, <1>4, <1>7
    <3>2. (k + 1) + i - 1 = k + i
      BY <1>4
    <3> QED BY <3>1, <3>2
  <2> QED BY <2>1, <2>2, <2>3, <2>4, <2>5
<1>9. q \in Seq(Nat) /\ Len(q) = k + 1 /\ q[k + 1] = x /\ \A i \in 1..k : q[i] = s[i]
  <2>1. <<x>> \in Seq(Nat) /\ Len(<<x>>) = 1 /\ <<x>>[1] = x
    OBVIOUS
  <2> QED BY <1>4, <1>7, <1>8, <2>1
<1>10. PICK r : r = q \o b
  OBVIOUS
<1>11. /\ r \in Seq(Nat) /\ Len(r) = n + 1
       /\ \A i \in 1..k : r[i] = s[i]
       /\ r[k + 1] = x
       /\ \A i \in (k + 2)..(n + 1) : r[i] = s[i - 1]
  <2>1. r \in Seq(Nat)
    BY <1>8, <1>9, <1>10
  <2>2. Len(r) = Len(q) + Len(b)
    BY <1>8, <1>9, <1>10, ConcatProperties
  <2>3. Len(r) = n + 1
    BY <1>3, <1>4, <1>8, <1>9, <2>2
  <2>4. \A i \in 1..(k + 1) : r[i] = q[i]
    BY <1>4, <1>8, <1>9, <1>10
  <2>5. ASSUME NEW i \in (k + 2)..(n + 1) PROVE r[i] = s[i - 1]
    <3>1. r[i] = b[i - (k + 1)]
      <4>1. i > Len(q) /\ i \in 1..(Len(q) + Len(b)) /\ Len(q) = k + 1
        BY <1>3, <1>4, <1>8, <1>9
      <4>2. r[i] = IF i <= Len(q) THEN q[i] ELSE b[i - Len(q)]
        BY <1>8, <1>9, <1>10, <4>1, ConcatProperties
      <4> QED BY <4>1, <4>2
    <3>2. i - (k + 1) \in 1..(n - k) /\ k + (i - (k + 1)) = i - 1
      BY <1>3, <1>4
    <3> QED BY <1>8, <3>1, <3>2
  <2>6. \A i \in 1..k : i \in 1..(k + 1)
    BY <1>4
  <2>7. k + 1 \in 1..(k + 1)
    BY <1>4
  <2> QED BY <1>9, <2>1, <2>3, <2>4, <2>5, <2>6, <2>7
<1>12. ASSUME NEW i \in 1..(n + 1), NEW j \in 1..(n + 1), i <= j PROVE r[i] <= r[j]
  <2>1. CASE j <= k
    BY <1>3, <1>4, <1>11, <1>12, <2>1
  <2>2. CASE j = k + 1
    BY <1>3, <1>4, <1>5, <1>11, <1>12, <2>2
  <2>3. CASE j > k + 1
    <3>1. r[j] = s[j - 1] /\ j - 1 \in 1..n /\ j - 1 > k
      BY <1>3, <1>4, <1>11, <2>3
    <3>2. CASE i <= k
      <4>1. r[i] = s[i] /\ i \in 1..n /\ i <= j - 1
        BY <1>3, <1>4, <1>11, <3>1, <3>2
      <4> QED BY <1>3, <3>1, <4>1
    <3>3. CASE i = k + 1
      BY <1>5, <1>11, <3>1, <3>3
    <3>4. CASE i > k + 1
      <4>1. r[i] = s[i - 1] /\ i - 1 \in 1..n /\ i - 1 <= j - 1
        BY <1>3, <1>4, <1>11, <1>12, <3>4
      <4> QED BY <1>3, <3>1, <4>1
    <3> QED BY <1>4, <3>2, <3>3, <3>4
  <2> QED BY <1>4, <2>1, <2>2, <2>3
<1> QED BY <1>2, <1>6, <1>7, <1>10, <1>11, <1>12 DEF Pools

\* Sorted, a sequence of amounts is a pool of as many.
LEMMA AscendingIs ==
  ASSUME NEW seq \in Seq(Nat)
  PROVE  Ascending(seq) \in Pools /\ Len(Ascending(seq)) = Len(seq)
<1> DEFINE n == Len(seq)
           step == [s \in SUBSET (1..n) |-> [v \in Pools |-> Insert(v, seq[Max(s)])]]
           Ty == [s \in SUBSET (1..n) |-> {q \in Pools : Len(q) = Cardinality(s)}]
           Is(g) == g = [s \in SUBSET DOMAIN seq |->
                           IF s = {} THEN <<>> ELSE Insert(g[s \ {Max(s)}], seq[Max(s)])]
           h == CHOOSE g : Is(g)
<1>1. n \in Nat /\ DOMAIN seq = 1..n /\ \A i \in 1..n : seq[i] \in Nat
  OBVIOUS
<1> HIDE DEF n
<1>2. \A s \in SUBSET (1..n) : s # {} => /\ Max(s) \in 1..n /\ s \ {Max(s)} \in SUBSET (1..n)
                                         /\ Cardinality(s \ {Max(s)}) + 1 = Cardinality(s)
  <2> SUFFICES ASSUME NEW s \in SUBSET (1..n), s # {}
               PROVE  /\ Max(s) \in 1..n /\ s \ {Max(s)} \in SUBSET (1..n)
                      /\ Cardinality(s \ {Max(s)}) + 1 = Cardinality(s)
    OBVIOUS
  <2>1. PICK m : m = Max(s)
    OBVIOUS
  <2>2. m \in s
    BY <1>1, <2>1, MaxIsIn
  <2>3. IsFiniteSet(1..n)
    BY <1>1, FS_Interval
  <2>4. IsFiniteSet(s) /\ Cardinality(s) \in Nat
    <3>1. PICK S : S = 1..n
      OBVIOUS
    <3>2. IsFiniteSet(s)
      BY <2>3, <3>1, FS_Subset
    <3> QED BY <3>2, FS_CardinalityType
  <2>5. Cardinality(s \ {m}) = Cardinality(s) - 1
    BY <2>2, <2>4, FS_RemoveElement
  <2>6. PICK c, r : c = Cardinality(s) /\ r = s \ {m}
    OBVIOUS
  <2>7. Cardinality(r) + 1 = c
    BY <2>4, <2>5, <2>6
  <2> QED BY <2>1, <2>2, <2>6, <2>7
<1>3. \A s \in SUBSET (1..n) : s # {} => \A v \in Ty[s \ {Max(s)}] :
        v \in Pools /\ step[s][v] = Insert(v, seq[Max(s)]) /\ step[s][v] \in Ty[s]
  <2> SUFFICES ASSUME NEW s \in SUBSET (1..n), s # {}, NEW v \in Ty[s \ {Max(s)}]
               PROVE  v \in Pools /\ step[s][v] = Insert(v, seq[Max(s)]) /\ step[s][v] \in Ty[s]
    OBVIOUS
  <2>1. PICK m, r : m = Max(s) /\ r = s \ {m}
    OBVIOUS
  <2>2. m \in 1..n /\ r \in SUBSET (1..n) /\ Cardinality(r) + 1 = Cardinality(s)
    BY <1>2, <2>1
  <2>3. v \in Pools /\ Len(v) = Cardinality(r)
    BY <2>1, <2>2
  <2>4. seq[m] \in Nat
    BY <1>1, <2>2
  <2>5. Insert(v, seq[m]) \in Pools /\ Len(Insert(v, seq[m])) = Cardinality(s)
    <3>1. Insert(v, seq[m]) \in Pools /\ Len(Insert(v, seq[m])) = Len(v) + 1
      BY <2>3, <2>4, InsertIs
    <3> QED BY <2>2, <2>3, <3>1
  <2>6. step[s][v] = Insert(v, seq[m])
    BY <2>1, <2>3
  <2> QED BY <2>1, <2>3, <2>5, <2>6
<1>4. <<>> \in Ty[{}]
  <2>1. Cardinality({}) = 0
    BY FS_EmptySet
  <2>2. <<>> \in Pools
    BY DEF Pools
  <2> QED BY <2>1, <2>2
<1>5. \E g : Is(g)
  <2>1. PICK g : Folds(g, n, <<>>, step, Ty)
    <3> HIDE DEF step, Ty, Is
    <3> QED BY <1>1, <1>3, <1>4, FoldExists
  <2>2. \A s \in SUBSET (1..n) : s # {} => g[s \ {Max(s)}] \in Ty[s \ {Max(s)}]
    <3> HIDE DEF Ty, step
    <3> QED BY <1>2, <2>1 DEF Folds
  <2>3. \A s \in SUBSET (1..n) :
          g[s] = IF s = {} THEN <<>> ELSE Insert(g[s \ {Max(s)}], seq[Max(s)])
    <3> HIDE DEF Ty, step
    <3> QED BY <1>3, <2>1, <2>2 DEF Folds
  <2>4. g = [s \in SUBSET (1..n) |-> g[s]]
    BY <2>1 DEF Folds
  <2>5. Is(g)
    <3> HIDE DEF Ty, step
    <3> QED BY <1>1, <2>3, <2>4
  <2> HIDE DEF Is
  <2> QED BY <2>5
<1>6. Is(h)
  <2> HIDE DEF Is
  <2> QED BY <1>5
<1>7. Ascending(seq) = h[1..n]
  BY <1>1 DEF Ascending, FoldLeft, MapThenFoldSet
<1> HIDE DEF h
<1>8. h[{}] \in Ty[{}]
  BY <1>4, <1>6
<1>9. \A s \in SUBSET (1..n) : s # {} /\ h[s \ {Max(s)}] \in Ty[s \ {Max(s)}] => h[s] \in Ty[s]
  <2>1. \A s \in SUBSET (1..n) : s # {} => h[s] = Insert(h[s \ {Max(s)}], seq[Max(s)])
    BY <1>1, <1>6
  <2> HIDE DEF Ty, step, Is
  <2> QED BY <1>3, <2>1
<1>10. h[1..n] \in Ty[1..n]
  <2> HIDE DEF Ty, step, Is
  <2> QED BY <1>1, <1>8, <1>9, FoldTyped
<1>11. Cardinality(1..n) = n
  BY <1>1, FS_Interval
<1>12. 1..n \in SUBSET (1..n)
  OBVIOUS
<1>13. h[1..n] \in Pools /\ Len(h[1..n]) = n
  BY <1>10, <1>11, <1>12
<1> QED BY <1>7, <1>13 DEF n

\* The function that Power applies exists, whatever the exponent.
LEMMA PowerDef ==
  ASSUME NEW b, NEW n \in Nat
  PROVE  \E p : /\ p = [k \in 0..n |-> IF k = 0 THEN 1 ELSE b * p[k - 1]]
                /\ Power(b, n) = p[n]
<1> DEFINE Is(p, m) == p = [k \in 0..m |-> IF k = 0 THEN 1 ELSE b * p[k - 1]]
           T == {m \in Nat : \E p : Is(p, m)}
<1>1. 0 \in T
  <2>1. Is([k \in 0..0 |-> 1], 0)
    OBVIOUS
  <2> QED BY <2>1
<1>2. ASSUME NEW m \in Nat, m \in T PROVE m + 1 \in T
  <2>1. PICK p : Is(p, m)
    BY <1>2
  <2> DEFINE q == [k \in 0..(m + 1) |-> IF k <= m THEN p[k] ELSE b * p[m]]
  <2>2. \A k \in 0..(m + 1) : q[k] = IF k = 0 THEN 1 ELSE b * q[k - 1]
    BY <2>1
  <2>3. Is(q, m + 1)
    BY <2>2
  <2> HIDE DEF Is, q
  <2> QED BY <2>3
<1>3. n \in T
  <2> HIDE DEF T
  <2> QED BY <1>1, <1>2, Induction
<1>4. \E p : Is(p, n)
  BY <1>3
<1> QED
  BY <1>4 DEF Power

\* The powers, one by one.
LEMMA Powers ==
  ASSUME NEW b
  PROVE  /\ Power(b, 0) = 1
         /\ \A n \in Nat : Power(b, n + 1) = b * Power(b, n)
<1> DEFINE Is(p, m) == p = [k \in 0..m |-> IF k = 0 THEN 1 ELSE b * p[k - 1]]
<1>1. \A n \in Nat : \E p : Is(p, n) /\ Power(b, n) = p[n]
  BY PowerDef
<1>2. ASSUME NEW n \in Nat, NEW p, Is(p, n + 1), NEW q, Is(q, n)
      PROVE  p[n] = q[n]
  <2> DEFINE T == {k \in Nat : k <= n => p[k] = q[k]}
  <2>1. 0 \in T
    BY <1>2
  <2>2. ASSUME NEW k \in Nat, k \in T PROVE k + 1 \in T
    BY <1>2, <2>2
  <2>3. n \in T
    <3> HIDE DEF T
    <3> QED BY <2>1, <2>2, Induction
  <2> QED BY <2>3
<1>3. Power(b, 0) = 1
  BY <1>1
<1>4. ASSUME NEW n \in Nat PROVE Power(b, n + 1) = b * Power(b, n)
  <2>1. PICK p : Is(p, n + 1) /\ Power(b, n + 1) = p[n + 1]
    <3> HIDE DEF Is
    <3> QED BY <1>1
  <2>2. PICK q : Is(q, n) /\ Power(b, n) = q[n]
    <3> HIDE DEF Is
    <3> QED BY <1>1
  <2>3. p[n + 1] = b * p[n]
    BY <2>1
  <2> QED BY <1>2, <2>1, <2>2, <2>3
<1> QED BY <1>3, <1>4

\* The powers of a number above 0 are above 0.
LEMMA PowerPositive ==
  ASSUME NEW b \in Nat \ {0}, NEW n \in Nat
  PROVE  Power(b, n) \in Nat \ {0}
<1> DEFINE T == {k \in Nat : Power(b, k) \in Nat \ {0}}
<1>1. 0 \in T
  BY Powers
<1>2. ASSUME NEW k \in Nat, k \in T PROVE k + 1 \in T
  <2>1. Power(b, k + 1) = b * Power(b, k)
    BY Powers
  <2>2. \A x, y \in Nat \ {0} : x * y \in Nat \ {0}
    OBVIOUS
  <2> QED BY <1>2, <2>1, <2>2
<1>3. n \in T
  <2> HIDE DEF T
  <2> QED BY <1>1, <1>2, Induction
<1> QED BY <1>3


\* A tier is a number.
LEMMA TierIs ==
  ASSUME NEW l \in LadderSpec, NEW i \in Nat
  PROVE  Tier(l, i) \in Nat
<1>1. l.base \in Nat /\ l.num \in Nat /\ l.den \in Nat \ {0}
  BY DEF LadderSpec
<1>2. Power(l.den, i) \in Nat \ {0}
  BY <1>1, PowerPositive
<1>3. Power(l.num, i) \in Nat
  <2> DEFINE T == {k \in Nat : Power(l.num, k) \in Nat}
  <2>1. 0 \in T
    BY Powers
  <2>2. ASSUME NEW k \in Nat, k \in T PROVE k + 1 \in T
    <3>1. Power(l.num, k + 1) = l.num * Power(l.num, k)
      BY Powers
    <3>2. \A x, y \in Nat : x * y \in Nat
      OBVIOUS
    <3> QED BY <1>1, <2>2, <3>1, <3>2
  <2>3. i \in T
    <3> HIDE DEF T
    <3> QED BY <2>1, <2>2, Induction
  <2> QED BY <2>3
<1>4. PICK x, y : x = l.base * Power(l.num, i) /\ y = Power(l.den, i)
  OBVIOUS
<1>5. x \in Nat /\ y \in Nat \ {0}
  <2>1. \A a, b \in Nat : a * b \in Nat
    OBVIOUS
  <2> QED BY <1>1, <1>2, <1>3, <1>4, <2>1
<1>6. x \div y \in Nat
  BY <1>5, Quotient
<1> QED BY <1>4, <1>6 DEF Tier

\* Sequences of amounts in a row are one.
LEMMA FlattenIs ==
  ASSUME NEW n \in Nat, NEW f, \A i \in 1..n : f[i] \in Seq(Nat)
  PROVE  FlattenSeq([i \in 1..n |-> f[i]]) \in Seq(Nat)
<1> DEFINE seqs == [i \in 1..n |-> f[i]]
           Is(g, m) == g = [i \in 1..m |-> IF i = 1 THEN seqs[i] ELSE g[i - 1] \o seqs[i]]
           Ext(m) == \E g : Is(g, m) /\ \A i \in 1..m : g[i] \in Seq(Nat)
           T == {m \in Nat : m <= n => Ext(m)}
<1>1. /\ Len(seqs) = n /\ \A i \in 1..n : seqs[i] \in Seq(Nat)
  OBVIOUS
<1> HIDE DEF seqs
<1>2. 0 \in T
  <2>1. 1..0 = {}
    OBVIOUS
  <2>2. Is([i \in 1..0 |-> 0], 0)
    BY <2>1
  <2>3. Ext(0)
    <3> HIDE DEF Is
    <3> QED BY <2>1, <2>2
  <2> HIDE DEF Ext
  <2> QED BY <2>3
<1>3. ASSUME NEW m \in Nat, m \in T PROVE m + 1 \in T
  <2>0. SUFFICES ASSUME m + 1 <= n PROVE Ext(m + 1)
    <3> HIDE DEF Ext
    <3> QED OBVIOUS
  <2>1. PICK g : Is(g, m) /\ \A i \in 1..m : g[i] \in Seq(Nat)
    <3>1. m <= n /\ m \in T
      <4> HIDE DEF Ext
      <4> QED BY <1>3, <2>0
    <3>2. Ext(m)
      <4> HIDE DEF Ext
      <4> QED BY <3>1
    <3> HIDE DEF Is
    <3> QED BY <3>2
  <2> DEFINE h == [i \in 1..(m + 1) |-> IF i \in 1..m THEN g[i]
                                       ELSE IF i = 1 THEN seqs[i] ELSE g[i - 1] \o seqs[i]]
  <2>2. \A i \in 1..(m + 1) : h[i] = IF i = 1 THEN seqs[i] ELSE h[i - 1] \o seqs[i]
    <3> SUFFICES ASSUME NEW i \in 1..(m + 1)
                 PROVE  h[i] = IF i = 1 THEN seqs[i] ELSE h[i - 1] \o seqs[i]
      OBVIOUS
    <3>1. i # 1 => i - 1 \in 1..m /\ h[i - 1] = g[i - 1]
      OBVIOUS
    <3>2. i \in 1..m => g[i] = IF i = 1 THEN seqs[i] ELSE g[i - 1] \o seqs[i]
      BY <2>1
    <3> QED BY <3>1, <3>2
  <2>3. Is(h, m + 1)
    <3>1. h = [i \in 1..(m + 1) |-> h[i]]
      OBVIOUS
    <3> HIDE DEF h
    <3> QED BY <2>2, <3>1
  <2>4. \A i \in 1..(m + 1) : h[i] \in Seq(Nat)
    <3> SUFFICES ASSUME NEW i \in 1..(m + 1) PROVE h[i] \in Seq(Nat)
      OBVIOUS
    <3>1. CASE i \in 1..m
      BY <2>1, <3>1
    <3>2. CASE i \notin 1..m /\ i = 1
      BY <1>1, <2>0, <3>2
    <3>3. CASE i \notin 1..m /\ i # 1
      <4>1. i - 1 \in 1..m /\ i \in 1..n
        BY <2>0, <3>3
      <4>2. g[i - 1] \in Seq(Nat) /\ seqs[i] \in Seq(Nat)
        BY <1>1, <2>1, <4>1
      <4>3. g[i - 1] \o seqs[i] \in Seq(Nat)
        BY <4>2
      <4> QED BY <3>3, <4>3
    <3> QED BY <3>1, <3>2, <3>3
  <2> HIDE DEF Is, h
  <2> QED BY <2>3, <2>4
<1>4. n \in T
  <2> HIDE DEF T
  <2> QED BY <1>2, <1>3, Induction
<1>5. PICK e : Is(e, n) /\ \A i \in 1..n : e[i] \in Seq(Nat)
  <2> HIDE DEF Is
  <2>1. Ext(n)
    <3> HIDE DEF Ext
    <3> QED BY <1>4
  <2> QED BY <2>1
<1> DEFINE g == CHOOSE d : Is(d, n)
<1>6. Is(g, n)
  <2> HIDE DEF Is
  <2> QED BY <1>5
<1> HIDE DEF g
<1>7. n = 0 => FlattenSeq(seqs) = <<>>
  BY <1>1 DEF FlattenSeq, seqs
<1>8. n # 0 => FlattenSeq(seqs) = g[n]
  BY <1>1 DEF FlattenSeq, g
<1>9. n # 0 => g[n] \in Seq(Nat)
  <2> DEFINE U == {m \in Nat : m + 1 <= n => g[m + 1] \in Seq(Nat)}
  <2>1. 0 \in U
    <3>1. 1 <= n => g[1] = seqs[1]
      BY <1>6
    <3> QED BY <1>1, <3>1
  <2>2. ASSUME NEW m \in Nat, m \in U PROVE m + 1 \in U
    <3> SUFFICES ASSUME (m + 1) + 1 <= n PROVE g[(m + 1) + 1] \in Seq(Nat)
      OBVIOUS
    <3>1. PICK k : k = m + 1
      OBVIOUS
    <3>2. k + 1 \in 1..n /\ k + 1 # 1 /\ (k + 1) - 1 = k
      BY <3>1
    <3>3. g[k + 1] = g[k] \o seqs[k + 1]
      BY <1>6, <3>2
    <3>4. g[k] \in Seq(Nat) /\ seqs[k + 1] \in Seq(Nat)
      BY <1>1, <2>2, <3>1, <3>2
    <3> QED BY <3>1, <3>3, <3>4
  <2>3. \A m \in Nat : m \in U
    <3> HIDE DEF U
    <3> QED BY <2>1, <2>2, Induction
  <2>4. SUFFICES ASSUME n # 0 PROVE g[n] \in Seq(Nat)
    OBVIOUS
  <2>5. PICK m : m = n - 1
    OBVIOUS
  <2>6. m \in Nat /\ m + 1 = n /\ m + 1 <= n
    BY <2>4, <2>5
  <2> QED BY <2>3, <2>6
<1> QED BY <1>7, <1>8, <1>9 DEF seqs

\* The targets of a ladder are amounts.
LEMMA TargetsAre ==
  ASSUME NEW l \in LadderSpec
  PROVE  TargetRungs(l) \in Seq(Nat)
<1> DEFINE Rungs(i) == IF Tier(l, i) >= l.minPiece /\ Tier(l, i) > 0
                       THEN [c \in 1..l.copies |-> Tier(l, i)] ELSE <<>>
<1>1. l.tiers \in Nat /\ l.copies \in Nat
  BY DEF LadderSpec
<1>2. ASSUME NEW i \in Nat PROVE Rungs(i) \in Seq(Nat)
  BY <1>1, TierIs
<1> DEFINE f == [i \in 1..l.tiers |-> Rungs(i - 1)]
<1>3. \A i \in 1..l.tiers : f[i] \in Seq(Nat)
  <2>1. \A i \in 1..l.tiers : i - 1 \in Nat
    BY <1>1
  <2> HIDE DEF Rungs
  <2> QED BY <1>2, <2>1
<1>4. FlattenSeq([i \in 1..l.tiers |-> f[i]]) \in Seq(Nat)
  <2> HIDE DEF f
  <2> QED BY <1>1, <1>3, FlattenIs
<1>5. [i \in 1..l.tiers |-> f[i]] = f
  OBVIOUS
<1>6. TargetRungs(l) = FlattenSeq(f)
  BY DEF TargetRungs
<1> HIDE DEF f
<1> QED BY <1>4, <1>5, <1>6

\* A fold from the left whose values stay in one set.
FoldsIn(g, n, base, step, T) ==
  /\ g = [s \in SUBSET (1..n) |-> IF s = {} THEN base ELSE step[Max(s)][g[s \ {Max(s)}]]]
  /\ \A s \in SUBSET (1..n) : g[s] \in T

\* It exists.
LEMMA FoldInExists ==
  ASSUME NEW n \in Nat, NEW T, NEW base \in T, NEW step,
         \A i \in 1..n : \A v \in T : step[i][v] \in T
  PROVE  \E g : FoldsIn(g, n, base, step, T)
<1> DEFINE put == [s \in SUBSET (1..n) |-> step[Max(s)]]
           Ty == [s \in SUBSET (1..n) |-> T]
<1>1. \A s \in SUBSET (1..n) : s # {} => Max(s) \in 1..n /\ s \ {Max(s)} \in SUBSET (1..n)
  BY MaxIsIn
<1>2. \A s \in SUBSET (1..n) : put[s] = step[Max(s)] /\ Ty[s] = T
  OBVIOUS
<1>3. {} \in SUBSET (1..n)
  OBVIOUS
<1> HIDE DEF put, Ty
<1>4. \A s \in SUBSET (1..n) : s # {} => \A v \in Ty[s \ {Max(s)}] : put[s][v] \in Ty[s]
  BY <1>1, <1>2
<1>5. base \in Ty[{}]
  BY <1>2, <1>3
<1>6. PICK g : Folds(g, n, base, put, Ty)
  BY <1>4, <1>5, FoldExists
<1>7. \A s \in SUBSET (1..n) : g[s] = IF s = {} THEN base ELSE step[Max(s)][g[s \ {Max(s)}]]
  BY <1>2, <1>6 DEF Folds
<1>8. g = [s \in SUBSET (1..n) |-> g[s]]
  BY <1>6 DEF Folds
<1>9. \A s \in SUBSET (1..n) : g[s] \in T
  BY <1>2, <1>6 DEF Folds
<1>10. FoldsIn(g, n, base, step, T)
  BY <1>7, <1>8, <1>9 DEF FoldsIn
<1> QED BY <1>10

\* And whatever obeys the equation has its values there.
LEMMA FoldIn ==
  ASSUME NEW n \in Nat, NEW T, NEW g, g[{}] \in T,
         \A s \in SUBSET (1..n) : s # {} /\ g[s \ {Max(s)}] \in T => g[s] \in T
  PROVE  g[1..n] \in T
<1> DEFINE Ty == [s \in SUBSET (1..n) |-> T]
<1>1. \A s \in SUBSET (1..n) : s \ {Max(s)} \in SUBSET (1..n)
  OBVIOUS
<1>2. \A s \in SUBSET (1..n) : Ty[s] = T
  OBVIOUS
<1>3. {} \in SUBSET (1..n) /\ 1..n \in SUBSET (1..n)
  OBVIOUS
<1> HIDE DEF Ty
<1>4. \A s \in SUBSET (1..n) : s # {} /\ g[s \ {Max(s)}] \in Ty[s \ {Max(s)}] => g[s] \in Ty[s]
  BY <1>1, <1>2
<1>5. g[{}] \in Ty[{}]
  BY <1>2, <1>3
<1>6. g[1..n] \in Ty[1..n]
  BY <1>4, <1>5, FoldTyped
<1> QED BY <1>2, <1>3, <1>6

\* Largest first.
LEMMA DescendingIs ==
  ASSUME NEW seq \in Seq(Nat)
  PROVE  Descending(seq) \in Seq(Nat) /\ Len(Descending(seq)) = Len(seq)
<1>1. PICK a : a = Ascending(seq)
  OBVIOUS
<1>2. a \in Seq(Nat) /\ Len(a) = Len(seq)
  BY <1>1, AscendingIs DEF Pools
<1>3. Descending(seq) = [i \in 1..Len(a) |-> a[(Len(a) - i) + 1]]
  BY <1>1 DEF Descending, Reverse
<1>4. \A i \in 1..Len(a) : (Len(a) - i) + 1 \in 1..Len(a)
  BY <1>2
<1>5. \A i \in 1..Len(a) : a[(Len(a) - i) + 1] \in Nat
  BY <1>2, <1>4
<1> QED BY <1>2, <1>3, <1>5

\* A part of a pool is one.
LEMMA PartIsPool ==
  ASSUME NEW pool \in Pools, NEW i \in Nat, NEW j \in Nat, i >= 1, j <= Len(pool)
  PROVE  SubSeq(pool, i, j) \in Pools
<1>1. /\ pool \in Seq(Nat) /\ Len(pool) \in Nat
      /\ \A x, y \in 1..Len(pool) : x <= y => pool[x] <= pool[y]
  BY DEF Pools
<1>2. PICK q : q = SubSeq(pool, i, j)
  OBVIOUS
<1>3. /\ q \in Seq(Nat) /\ Len(q) = IF i <= j THEN j - i + 1 ELSE 0
      /\ \A x \in 1..(j - i + 1) : q[x] = pool[i + x - 1]
  <2>1. \A x \in i..j : pool[x] \in Nat
    BY <1>1
  <2> QED BY <1>2, <2>1, SubSeqProperties
<1>4. ASSUME NEW x \in 1..Len(q), NEW y \in 1..Len(q), x <= y PROVE q[x] <= q[y]
  <2>1. x \in 1..(j - i + 1) /\ y \in 1..(j - i + 1)
    BY <1>3
  <2>2. i + x - 1 \in 1..Len(pool) /\ i + y - 1 \in 1..Len(pool) /\ i + x - 1 <= i + y - 1
    BY <1>1, <1>4, <2>1
  <2> QED BY <1>1, <1>3, <2>1, <2>2
<1> QED BY <1>2, <1>3, <1>4 DEF Pools

\* A state of the match of pieces and targets.
Matches == [left : Pools, missing : Seq(Nat)]

\* One target more.
LEMMA CoverIs ==
  ASSUME NEW c \in Matches, NEW t \in Nat
  PROVE  Cover(c, t) \in Matches
<1> DEFINE fits == {i \in DOMAIN c.left : c.left[i] >= t}
<1>1. c.left \in Pools /\ c.missing \in Seq(Nat) /\ <<>> \in Pools
  BY DEF Matches, Pools
<1>2. CASE fits = {}
  <2>1. Append(c.missing, t) \in Seq(Nat)
    BY <1>1
  <2>2. Cover(c, t) = [left |-> <<>>, missing |-> Append(c.missing, t)]
    BY <1>2 DEF Cover
  <2> QED BY <1>1, <2>1, <2>2 DEF Matches
<1>3. CASE fits # {}
  <2>1. PICK p : p = c.left
    OBVIOUS
  <2>2. p \in Pools /\ Len(p) \in Nat /\ DOMAIN p = 1..Len(p)
    BY <1>1, <2>1, PoolSums
  <2>3. Min(fits) \in 1..Len(p)
    <3>1. fits \in SUBSET (1..Len(p))
      BY <2>1, <2>2
    <3> HIDE DEF fits
    <3> QED BY <1>3, <2>2, <3>1, MinIsIn
  <2>4. PICK k : k = Min(fits) + 1
    OBVIOUS
  <2>5. k \in Nat /\ k >= 1
    <3> HIDE DEF fits
    <3> QED BY <2>3, <2>4
  <2>6. SubSeq(p, k, Len(p)) \in Pools
    BY <2>2, <2>5, PartIsPool
  <2>7. Cover(c, t) = [c EXCEPT !.left = SubSeq(p, k, Len(p))]
    BY <1>3, <2>1, <2>4 DEF Cover
  <2> QED BY <1>1, <2>6, <2>7 DEF Matches
<1> QED BY <1>2, <1>3

\* What is missing of a ladder are amounts.
LEMMA DeficitIs ==
  ASSUME NEW available \in Seq(Nat), NEW targets \in Seq(Nat)
  PROVE  LadderDeficit(available, targets) \in Seq(Nat)
<1> DEFINE n == Len(Ascending(targets))
           tt == Ascending(targets)
           base == [left |-> Ascending(available), missing |-> <<>>]
           step == [i \in 1..n |-> [v \in Matches |-> Cover(v, tt[i])]]
           Is(g) == g = [s \in SUBSET DOMAIN tt |->
                           IF s = {} THEN base ELSE Cover(g[s \ {Max(s)}], tt[Max(s)])]
           h == CHOOSE g : Is(g)
<1>1. n \in Nat /\ DOMAIN tt = 1..n /\ \A i \in 1..n : tt[i] \in Nat
  BY AscendingIs, PoolSums
<1>2. base \in Matches
  BY AscendingIs DEF Matches
<1>3. LadderDeficit(available, targets) = h[DOMAIN tt].missing
  BY DEF LadderDeficit, FoldLeft, MapThenFoldSet
<1> HIDE DEF n, tt, base
<1>4. \A i \in 1..n : \A v \in Matches : step[i][v] = Cover(v, tt[i]) /\ step[i][v] \in Matches
  BY <1>1, CoverIs
<1>5. \A s \in SUBSET (1..n) : s # {} => Max(s) \in 1..n /\ s \ {Max(s)} \in SUBSET (1..n)
  BY <1>1, MaxIsIn
<1> HIDE DEF step
<1>6. \E g : Is(g)
  <2>1. PICK g : FoldsIn(g, n, base, step, Matches)
    BY <1>1, <1>2, <1>4, FoldInExists
  <2>2. \A s \in SUBSET (1..n) :
          g[s] = IF s = {} THEN base ELSE Cover(g[s \ {Max(s)}], tt[Max(s)])
    BY <1>4, <1>5, <2>1 DEF FoldsIn
  <2>3. g = [s \in SUBSET (1..n) |-> g[s]]
    BY <2>1 DEF FoldsIn
  <2>4. Is(g)
    BY <1>1, <2>2, <2>3
  <2> HIDE DEF Is
  <2> QED BY <2>4
<1>7. Is(h)
  <2> HIDE DEF Is
  <2> QED BY <1>6
<1> HIDE DEF h
<1>8. \A s \in SUBSET (1..n) : s # {} /\ h[s \ {Max(s)}] \in Matches => h[s] \in Matches
  <2>1. \A s \in SUBSET (1..n) : s # {} => h[s] = Cover(h[s \ {Max(s)}], tt[Max(s)])
    BY <1>1, <1>7
  <2> HIDE DEF Is
  <2> QED BY <1>1, <1>5, <2>1, CoverIs
<1>9. h[{}] \in Matches
  BY <1>1, <1>2, <1>7
<1>10. h[1..n] \in Matches
  <2> HIDE DEF Is
  <2> QED BY <1>1, <1>8, <1>9, FoldIn
<1> QED BY <1>1, <1>3, <1>10 DEF Matches

\* A cut of a value: what is left and the rungs make it up.
Cuts(value) == {c \in [left : Nat, rungs : Seq(Nat)] : c.left + Total(c.rungs) = value}

\* One rung more, if it fits.
Cut(l, c, d) ==
  IF c.left >= d + Reserve(l) THEN [left |-> c.left - d, rungs |-> Append(c.rungs, d)] ELSE c

\* It is still a cut of the same value.
LEMMA CutIs ==
  ASSUME NEW l \in LadderSpec, NEW value \in Nat, NEW c \in Cuts(value), NEW d \in Nat
  PROVE  Cut(l, c, d) \in Cuts(value)
<1>1. Reserve(l) \in Nat
  BY DEF Reserve, LadderSpec
<1>2. PICK p, u : p = c.left /\ u = c.rungs
  OBVIOUS
<1>3. p \in Nat /\ u \in Seq(Nat) /\ u \in Seq(Int) /\ p + Total(u) = value
  BY <1>2 DEF Cuts
<1>4. CASE p >= d + Reserve(l)
  <2>1. SumFunction(Append(u, d)) = SumFunction(u) + d /\ SumFunction(u) \in Int
    BY <1>3, SumAppend
  <2>2. p - d \in Nat
    BY <1>1, <1>3, <1>4
  <2>3. PICK x, y : x = SumFunction(u) /\ y = SumFunction(Append(u, d))
    OBVIOUS
  <2>4. (p - d) + y = value
    BY <1>3, <2>1, <2>3 DEF Total
  <2>5. Append(u, d) \in Seq(Nat)
    BY <1>3
  <2>6. Cut(l, c, d) = [left |-> p - d, rungs |-> Append(u, d)]
    BY <1>2, <1>4 DEF Cut
  <2>7. PICK r, w : w = Append(u, d) /\ r = [left |-> p - d, rungs |-> w]
    OBVIOUS
  <2>8. /\ r \in [left : Nat, rungs : Seq(Nat)]
        /\ r.left = p - d /\ r.rungs = w /\ Total(w) = y
    BY <2>2, <2>3, <2>5, <2>7 DEF Total
  <2>9. r \in Cuts(value)
    BY <2>4, <2>8 DEF Cuts
  <2> QED BY <2>6, <2>7, <2>9
<1>5. CASE ~(p >= d + Reserve(l))
  BY <1>2, <1>5 DEF Cut
<1> QED BY <1>4, <1>5

\* So is every cut that Carve makes.
LEMMA CarveIs ==
  ASSUME NEW l \in LadderSpec, NEW value \in Nat, NEW deficit \in Seq(Nat)
  PROVE  Carve(l, value, deficit) \in Cuts(value)
<1> DEFINE n == Len(Descending(deficit))
           dd == Descending(deficit)
           base == [left |-> value, rungs |-> <<>>]
           T == Cuts(value)
           step == [i \in 1..n |-> [v \in T |-> Cut(l, v, dd[i])]]
           Is(g) == g = [s \in SUBSET DOMAIN dd |->
                           IF s = {} THEN base ELSE Cut(l, g[s \ {Max(s)}], dd[Max(s)])]
           h == CHOOSE g : Is(g)
<1>1. n \in Nat /\ DOMAIN dd = 1..n /\ \A i \in 1..n : dd[i] \in Nat
  <2>1. dd \in Seq(Nat)
    BY DescendingIs
  <2> QED BY <2>1
<1>2. base \in T
  BY SumEmpty DEF Cuts, Total
<1>3. Carve(l, value, deficit) = h[DOMAIN dd]
  BY DEF Carve, Cut, FoldLeft, MapThenFoldSet
<1> HIDE DEF n, dd, base, T
<1>4. \A i \in 1..n : \A v \in T : step[i][v] = Cut(l, v, dd[i]) /\ step[i][v] \in T
  BY <1>1, CutIs DEF T
<1>5. \A s \in SUBSET (1..n) : s # {} => Max(s) \in 1..n /\ s \ {Max(s)} \in SUBSET (1..n)
  BY <1>1, MaxIsIn
<1> HIDE DEF step
<1>6. \E g : Is(g)
  <2>1. PICK g : FoldsIn(g, n, base, step, T)
    BY <1>1, <1>2, <1>4, FoldInExists
  <2>2. \A s \in SUBSET (1..n) :
          g[s] = IF s = {} THEN base ELSE Cut(l, g[s \ {Max(s)}], dd[Max(s)])
    BY <1>4, <1>5, <2>1 DEF FoldsIn
  <2>3. g = [s \in SUBSET (1..n) |-> g[s]]
    BY <2>1 DEF FoldsIn
  <2>4. Is(g)
    BY <1>1, <2>2, <2>3
  <2> HIDE DEF Is
  <2> QED BY <2>4
<1>7. Is(h)
  <2> HIDE DEF Is
  <2> QED BY <1>6
<1> HIDE DEF h
<1>8. \A s \in SUBSET (1..n) : s # {} /\ h[s \ {Max(s)}] \in T => h[s] \in T
  <2>1. \A s \in SUBSET (1..n) : s # {} => h[s] = Cut(l, h[s \ {Max(s)}], dd[Max(s)])
    BY <1>1, <1>7
  <2> SUFFICES ASSUME NEW s \in SUBSET (1..n), s # {}, h[s \ {Max(s)}] \in T
               PROVE  h[s] \in T
    OBVIOUS
  <2>2. PICK v, d : v = h[s \ {Max(s)}] /\ d = dd[Max(s)]
    OBVIOUS
  <2>3. v \in Cuts(value) /\ d \in Nat
    BY <1>1, <1>5, <2>2 DEF T
  <2>4. Cut(l, v, d) \in Cuts(value)
    BY <2>3, CutIs
  <2> QED BY <2>1, <2>2, <2>4 DEF T
<1>9. h[{}] \in T
  BY <1>1, <1>2, <1>7
<1>10. h[1..n] \in T
  <2> HIDE DEF Is
  <2> QED BY <1>1, <1>8, <1>9, FoldIn
<1> QED BY <1>1, <1>3, <1>10 DEF T

\* A sum of amounts is one.
LEMMA SumIsNat ==
  ASSUME NEW u \in Seq(Nat)
  PROVE  Total(u) \in Nat
<1> DEFINE C == {n \in Nat : \A w \in Seq(Nat) : Len(w) = n => SumFunction(w) \in Nat}
<1>1. 0 \in C
  <2>1. \A w \in Seq(Nat) : Len(w) = 0 => w = <<>>
    OBVIOUS
  <2> QED BY <2>1, SumEmpty
<1>2. ASSUME NEW n \in Nat, n \in C PROVE n + 1 \in C
  <2> SUFFICES ASSUME NEW w \in Seq(Nat), Len(w) = n + 1 PROVE SumFunction(w) \in Nat
    OBVIOUS
  <2>1. PICK h, x : h = SubSeq(w, 1, n) /\ x = w[n + 1]
    OBVIOUS
  <2>2. /\ h \in Seq(Nat) /\ Len(h) = n /\ \A i \in 1..n : h[i] = w[i]
        /\ x \in Nat
    BY <2>1
  <2>3. w = Append(h, x)
    <3>1. Len(Append(h, x)) = Len(w) /\ \A i \in 1..(n + 1) : Append(h, x)[i] = w[i]
      BY <2>1, <2>2
    <3>2. Append(h, x) \in Seq(Nat)
      BY <2>2
    <3> QED BY <3>1, <3>2, SeqEqual
  <2>4. h \in Seq(Int) /\ x \in Int
    BY <2>2
  <2>5. SumFunction(w) = SumFunction(h) + x
    BY <2>3, <2>4, SumAppend
  <2>6. SumFunction(h) \in Nat
    BY <1>2, <2>2
  <2> QED BY <2>2, <2>5, <2>6
<1>3. Len(u) \in C
  <2> HIDE DEF C
  <2>1. \A n \in Nat : n \in C
    BY <1>1, <1>2, Induction
  <2> QED BY <2>1
<1> QED BY <1>3 DEF Total

\* And a first part of them sums to no more.
LEMMA PrefixIsLess ==
  ASSUME NEW u \in Seq(Nat), NEW k \in 0..Len(u)
  PROVE  /\ SubSeq(u, 1, k) \in Seq(Nat)
         /\ Total(SubSeq(u, 1, k)) \in Nat /\ Total(SubSeq(u, 1, k)) <= Total(u)
<1>1. PICK n, a, b : n = Len(u) /\ a = SubSeq(u, 1, k) /\ b = SubSeq(u, k + 1, n)
  OBVIOUS
<1>2. n \in Nat /\ k \in Nat /\ \A i \in 1..n : u[i] \in Nat
  BY <1>1
<1>3. a \in Seq(Nat) /\ b \in Seq(Nat) /\ Len(a) = k /\ Len(b) = n - k
  <2>1. a \in Seq(Nat) /\ Len(a) = k
    BY <1>1, <1>2
  <2>2. PICK c : c = k + 1
    OBVIOUS
  <2>3. c \in Int /\ n \in Int /\ \A i \in c..n : u[i] \in Nat
    BY <1>2, <2>2
  <2>4. SubSeq(u, c, n) \in Seq(Nat) /\ Len(SubSeq(u, c, n)) = IF c <= n THEN n - c + 1 ELSE 0
    BY <2>3, SubSeqProperties
  <2> QED BY <1>1, <1>2, <2>1, <2>2, <2>4
<1>4. a \o b = u
  <2>1. a \o b \in Seq(Nat) /\ Len(a \o b) = Len(u)
    <3>1. Len(a \o b) = Len(a) + Len(b) /\ a \o b \in Seq(Nat)
      BY <1>3, ConcatProperties
    <3>2. k + (n - k) = n
      BY <1>2
    <3>3. PICK x, y, z : x = Len(a) /\ y = Len(b) /\ z = Len(a \o b)
      OBVIOUS
    <3>4. x = k /\ y = n - k /\ z = x + y
      BY <1>3, <3>1, <3>3
    <3>5. z = n
      BY <3>2, <3>4
    <3> QED BY <1>1, <3>1, <3>3, <3>5
  <2>2. ASSUME NEW i \in 1..Len(u) PROVE (a \o b)[i] = u[i]
    <3>1. (a \o b)[i] = IF i <= Len(a) THEN a[i] ELSE b[i - Len(a)]
      <4>1. PICK x, y : x = Len(a) /\ y = Len(b)
        OBVIOUS
      <4>2. x = k /\ y = n - k /\ i \in 1..n
        BY <1>1, <1>3, <4>1
      <4>3. i \in 1..(x + y)
        BY <1>2, <4>2
      <4>4. i \in 1..(Len(a) + Len(b))
        BY <4>1, <4>3
      <4> QED BY <1>3, <4>4, ConcatProperties
    <3>2. CASE i <= k
      <4>1. i \in 1..k
        BY <1>1, <1>2, <3>2
      <4>2. a[i] = u[i]
        BY <1>1, <1>2, <4>1
      <4>3. i <= Len(a)
        BY <1>3, <3>2
      <4> QED BY <3>1, <4>2, <4>3
    <3>3. CASE ~(i <= k)
      <4>1. PICK c, j : c = k + 1 /\ j = i - k
        OBVIOUS
      <4>2. /\ c \in Int /\ n \in Int /\ \A x \in c..n : u[x] \in Nat
            /\ j \in 1..(n - c + 1) /\ c + j - 1 = i
        BY <1>1, <1>2, <3>3, <4>1
      <4>3. SubSeq(u, c, n)[j] = u[c + j - 1]
        BY <4>2, SubSeqProperties
      <4>4. (a \o b)[i] = b[j]
        BY <1>3, <3>1, <3>3, <4>1
      <4> QED BY <1>1, <4>1, <4>2, <4>3, <4>4
    <3> QED BY <3>2, <3>3
  <2> QED BY <2>1, <2>2, SeqEqual
<1>5. Total(u) = Total(a) + Total(b)
  <2>1. a \in Seq(Int) /\ b \in Seq(Int)
    BY <1>3
  <2> QED BY <1>4, <2>1, SumConcat DEF Total
<1>6. Total(a) \in Nat /\ Total(b) \in Nat
  BY <1>3, SumIsNat
<1> QED BY <1>1, <1>3, <1>5, <1>6

\* Where neighbours are in order, all are.
LEMMA NeighboursInOrder ==
  ASSUME NEW p \in Seq(Nat), \A i \in 2..Len(p) : p[i - 1] <= p[i]
  PROVE  p \in Pools
<1> DEFINE n == Len(p)
           C == {d \in Nat : \A i \in 1..n : i + d \in 1..n => p[i] <= p[i + d]}
<1>1. n \in Nat /\ \A i \in 1..n : p[i] \in Nat
  OBVIOUS
<1>2. 0 \in C
  BY <1>1
<1>3. ASSUME NEW d \in Nat, d \in C PROVE d + 1 \in C
  <2> SUFFICES ASSUME NEW i \in 1..n, i + (d + 1) \in 1..n PROVE p[i] <= p[i + (d + 1)]
    OBVIOUS
  <2>1. i + d \in 1..n /\ i + (d + 1) \in 2..n /\ (i + (d + 1)) - 1 = i + d
    BY <1>1
  <2>2. p[i] <= p[i + d] /\ p[i + d] <= p[i + (d + 1)]
    BY <1>3, <2>1
  <2> QED BY <1>1, <2>1, <2>2
<1>4. \A d \in Nat : d \in C
  <2> HIDE DEF C
  <2> QED BY <1>2, <1>3, Induction
<1>5. ASSUME NEW i \in 1..n, NEW j \in 1..n, i <= j PROVE p[i] <= p[j]
  <2>1. PICK d : d = j - i
    OBVIOUS
  <2>2. d \in Nat /\ i + d = j
    BY <1>1, <1>5, <2>1
  <2>3. d \in C
    BY <1>4, <2>2
  <2> QED BY <2>2, <2>3
<1> QED BY <1>5 DEF Pools

\* What a settlement leaves, coin by coin.
Kept(pool, chosen, s, i) == IF i \in chosen THEN s ELSE Append(s, pool[i])

\* They are amounts.
LEMMA OthersAre ==
  ASSUME NEW pool \in Pools, NEW chosen
  PROVE  Others(pool, chosen) \in Seq(Nat)
<1> DEFINE n == Len(pool)
           T == Seq(Nat)
           dd == [i \in DOMAIN pool |-> i]
           step == [i \in 1..n |-> [v \in T |-> Kept(pool, chosen, v, i)]]
           Is(g) == g = [s \in SUBSET DOMAIN dd |->
                           IF s = {} THEN <<>> ELSE Kept(pool, chosen, g[s \ {Max(s)}], dd[Max(s)])]
           h == CHOOSE g : Is(g)
<1>1. n \in Nat /\ DOMAIN dd = 1..n /\ \A i \in 1..n : dd[i] = i /\ pool[i] \in Nat
  BY PoolSums
<1>2. <<>> \in T
  OBVIOUS
<1>3. Others(pool, chosen) = h[DOMAIN dd]
  BY DEF Others, Kept, FoldLeftDomain, FoldLeft, MapThenFoldSet
<1> HIDE DEF n, dd
<1>0. \A i \in 1..n : \A v \in T : Kept(pool, chosen, v, i) \in T
  BY <1>1 DEF Kept
<1> HIDE DEF T
<1>4. \A i \in 1..n : \A v \in T : step[i][v] = Kept(pool, chosen, v, i) /\ step[i][v] \in T
  BY <1>0
<1>5. \A s \in SUBSET (1..n) : s # {} => Max(s) \in 1..n /\ s \ {Max(s)} \in SUBSET (1..n)
  BY <1>1, MaxIsIn
<1> HIDE DEF step
<1>6. \E g : Is(g)
  <2>1. PICK g : FoldsIn(g, n, <<>>, step, T)
    BY <1>1, <1>2, <1>4, FoldInExists
  <2>2. \A s \in SUBSET (1..n) :
          g[s] = IF s = {} THEN <<>> ELSE Kept(pool, chosen, g[s \ {Max(s)}], dd[Max(s)])
    <3> SUFFICES ASSUME NEW s \in SUBSET (1..n)
                 PROVE  g[s] = IF s = {} THEN <<>>
                               ELSE Kept(pool, chosen, g[s \ {Max(s)}], dd[Max(s)])
      OBVIOUS
    <3>1. g[s] = IF s = {} THEN <<>> ELSE step[Max(s)][g[s \ {Max(s)}]]
      BY <2>1 DEF FoldsIn
    <3>2. CASE s # {}
      <4>1. PICK i, v : i = Max(s) /\ v = g[s \ {Max(s)}]
        OBVIOUS
      <4>2. i \in 1..n /\ v \in T
        BY <1>5, <2>1, <3>2, <4>1 DEF FoldsIn
      <4>3. step[i][v] = Kept(pool, chosen, v, i) /\ dd[i] = i
        BY <1>1, <1>4, <4>2
      <4> QED BY <3>1, <3>2, <4>1, <4>3
    <3> QED BY <3>1, <3>2
  <2>3. g = [s \in SUBSET (1..n) |-> g[s]]
    BY <2>1 DEF FoldsIn
  <2>4. Is(g)
    BY <1>1, <2>2, <2>3
  <2> HIDE DEF Is
  <2> QED BY <2>4
<1>7. Is(h)
  <2> HIDE DEF Is
  <2> QED BY <1>6
<1> HIDE DEF h
<1>8. \A s \in SUBSET (1..n) : s # {} /\ h[s \ {Max(s)}] \in T => h[s] \in T
  <2>1. \A s \in SUBSET (1..n) :
          s # {} => h[s] = Kept(pool, chosen, h[s \ {Max(s)}], dd[Max(s)])
    BY <1>1, <1>7
  <2> HIDE DEF Is
  <2> QED BY <1>0, <1>1, <1>5, <2>1
<1>9. h[{}] \in T
  BY <1>1, <1>2, <1>7
<1>10. h[1..n] \in T
  <2> HIDE DEF Is
  <2> QED BY <1>1, <1>8, <1>9, FoldIn
<1> QED BY <1>1, <1>3, <1>10 DEF T

-----------------------------------------------------------------------------
(***************************************************************************)
(* Liquidity                                                               *)
(***************************************************************************)

\* The pool stays one: amounts, smallest first.
LiquidityInv ==
  /\ side \in {"buy", "sell"}
  /\ order \in StandingOrders
  /\ spec \in Specs
  /\ pieces \in Pools

\* What an order needs is a positive number.
LEMMA NeededIs ==
  ASSUME NEW o \in [price : Nat \ {0}, scale : Nat \ {0}, size : Nat, spread : Nat],
         NEW s, NEW amount \in Nat \ {0}
  PROVE  /\ Needed(s, o, amount) \in Nat \ {0}
         /\ \A up \in BOOLEAN : QuoteTotalSats(o.price, amount, o.scale, up) \in Nat
<1>1. o.price \in Nat \ {0} /\ o.scale \in Nat \ {0} /\ o.price * amount \in Nat
  OBVIOUS
<1>2. \A up \in BOOLEAN : QuoteTotalSats(o.price, amount, o.scale, up) \in Nat
  <2>1. PICK m, c : m = o.price * amount /\ c = o.scale
    OBVIOUS
  <2>2. m \in Nat /\ c \in Nat \ {0}
    BY <1>1, <2>1
  <2>3. m \div c \in Nat /\ DivCeil(m, c) \in Nat
    <3>1. m \div c \in Nat
      BY <2>2, Quotient
    <3>2. DivCeil(m, c) \in Nat
      BY <2>2, Ceiling
    <3> QED BY <3>1, <3>2
  <2> QED BY <2>1, <2>3 DEF QuoteTotalSats
<1>3. SEAL_ANCHOR_SATS \in Nat \ {0}
  BY QuotingAssumption
<1>4. CASE s = "buy"
  BY <1>2, <1>4 DEF Needed
<1>5. CASE s # "buy"
  <2>1. PICK q : q = QuoteTotalSats(o.price, amount, o.scale, FALSE)
    OBVIOUS
  <2>2. q \in Nat
    BY <1>2, <2>1
  <2>3. Needed(s, o, amount) = q + SEAL_ANCHOR_SATS
    BY <1>5, <2>1 DEF Needed
  <2>4. q + SEAL_ANCHOR_SATS \in Nat \ {0}
    BY <1>3, <2>2
  <2> QED BY <1>2, <2>3, <2>4
<1> QED BY <1>4, <1>5

\* A selection that is not empty is enough.
LEMMA SelectIsEnough ==
  ASSUME NEW pool \in Pools, NEW amount \in Nat \ {0}, NEW s, Select(s, pool, amount) # NoCoins
  PROVE  Enough(pool, Select(s, pool, amount), amount)
<1>1. CASE s = "buy"
  BY <1>1, ExactFitIsEnough DEF Select, NoCoins
<1>2. CASE s # "buy"
  BY <1>2, GreedyIsEnough DEF Select, NoCoins
<1> QED BY <1>1, <1>2

\* It is one at first.
LEMMA LiquidityInits == LiquidityInit => LiquidityInv
<1> SUFFICES ASSUME LiquidityInit PROVE LiquidityInv
  OBVIOUS
<1>1. PICK n \in 0..MaxPieces : /\ pieces \in [1..n -> 1..MaxPiece]
                                /\ \A i \in 2..n : pieces[i - 1] <= pieces[i]
  BY DEF LiquidityInit
<1>2. pieces \in Seq(Nat) /\ Len(pieces) = n
  <2>1. n \in Nat /\ 1..MaxPiece \subseteq Nat
    BY LiquidityAssumption
  <2>2. pieces \in [1..n -> Nat]
    BY <1>1, <2>1
  <2> QED BY <2>1, <2>2
<1>3. pieces \in Pools
  BY <1>1, <1>2, NeighboursInOrder
<1> QED BY <1>3 DEF LiquidityInit, LiquidityInv

\* A rebalance pass leaves one: what the fattest piece is cut into adds up to it.
LEMMA SplitKeeps == LiquidityInv /\ Split => LiquidityInv'
<1> SUFFICES ASSUME LiquidityInv, Split PROVE LiquidityInv'
  OBVIOUS
<1> DEFINE plan == PlanLadder(spec, pieces)
           deficit == LadderDeficit(pieces, TargetRungs(spec))
<1>1. /\ pieces \in Pools /\ pieces \in Seq(Nat) /\ spec \in LadderSpec
      /\ UNCHANGED <<side, order, spec>>
  BY LiquidityAssumption DEF LiquidityInv, Pools, Split
<1>2. /\ plan.rungs # <<>>
      /\ pieces' = Ascending(Front(pieces) \o plan.rungs \o <<plan.left>>)
  BY DEF Split
<1>3. pieces # <<>> /\ plan = Carve(spec, Last(Ascending(pieces)), deficit)
  BY <1>2 DEF PlanLadder
<1>4. deficit \in Seq(Nat)
  BY <1>1, DeficitIs, TargetsAre
<1>5. Last(Ascending(pieces)) \in Nat
  <2>1. PICK a : a = Ascending(pieces)
    OBVIOUS
  <2>2. a \in Seq(Nat) /\ Len(a) = Len(pieces)
    BY <1>1, <2>1, AscendingIs DEF Pools
  <2>3. Len(pieces) \in Nat \ {0}
    BY <1>1, <1>3
  <2> QED BY <2>1, <2>2, <2>3 DEF Last
<1>6. plan.left \in Nat /\ plan.rungs \in Seq(Nat)
  BY <1>1, <1>3, <1>4, <1>5, CarveIs DEF Cuts
<1>7. Front(pieces) \in Seq(Nat)
  BY <1>1, <1>3 DEF Front
<1>8. pieces' \in Pools
  <2> HIDE DEF plan
  <2>1. PICK f, r, x : f = Front(pieces) /\ r = plan.rungs /\ x = plan.left
    OBVIOUS
  <2>2. f \o r \o <<x>> \in Seq(Nat)
    BY <1>6, <1>7, <2>1
  <2> QED BY <1>2, <2>1, <2>2, AscendingIs
<1> QED BY <1>1, <1>8 DEF LiquidityInv

\* So does a settlement: what the selection covers beyond the need is enough for the
\* rungs that are cut from it, however many of them are kept.
LEMMA SettleKeeps ==
  LiquidityInv /\ (\E amount \in 1..order.size : Settle(amount)) => LiquidityInv'
<1> SUFFICES ASSUME LiquidityInv, NEW amount \in 1..order.size, Settle(amount) PROVE LiquidityInv'
  OBVIOUS
<1> DEFINE needed == Needed(side, order, amount)
           chosen == Select(side, pieces, needed)
           others == Others(pieces, chosen)
           change == SumOf(pieces, chosen) - needed
           planned == PlanChangeRungs(spec, others, change)
<1>1. /\ pieces \in Pools /\ spec \in LadderSpec
      /\ order \in [price : Nat \ {0}, scale : Nat \ {0}, size : Nat, spread : Nat]
      /\ UNCHANGED <<side, order, spec>>
  BY LiquidityAssumption DEF LiquidityInv, Settle
<1>2. amount \in Nat \ {0}
  BY <1>1
<1>3. needed \in Nat \ {0}
  BY <1>1, <1>2, NeededIs
<1>4. PICK kept \in 0..Len(planned) :
        LET rungs == SubSeq(planned, 1, kept)
            rest == change - Total(rungs)
        IN pieces' = Ascending(others \o rungs \o
             (IF rest = 0 \/ (side = "sell" /\ rest < SEAL_ANCHOR_SATS) THEN <<>> ELSE <<rest>>))
  BY DEF Settle
<1>5. chosen # NoCoins
  BY DEF Settle
<1> HIDE DEF needed
<1>6. Enough(pieces, chosen, needed)
  BY <1>1, <1>3, <1>5, SelectIsEnough
<1> HIDE DEF chosen
<1>7. change \in Nat
  <2>1. SumOf(pieces, chosen) \in Int /\ SumOf(pieces, chosen) >= needed
    BY <1>1, <1>6, PoolSums DEF Enough
  <2> QED BY <1>3, <2>1
<1>8. others \in Seq(Nat)
  BY <1>1, OthersAre
<1> HIDE DEF change, others
<1>9. planned \in Seq(Nat) /\ Total(planned) <= change /\ Total(planned) \in Nat
  <2>1. PICK c : c = Carve(spec, change, LadderDeficit(others, TargetRungs(spec)))
    OBVIOUS
  <2>2. c \in Cuts(change)
    BY <1>1, <1>7, <1>8, <2>1, TargetsAre, DeficitIs, CarveIs
  <2>3. planned = c.rungs
    BY <2>1 DEF PlanChangeRungs
  <2>4. c.left \in Nat /\ c.rungs \in Seq(Nat) /\ c.left + Total(c.rungs) = change
    BY <2>2 DEF Cuts
  <2>5. Total(c.rungs) \in Nat
    BY <2>4, SumIsNat
  <2> QED BY <1>7, <2>3, <2>4, <2>5
<1> HIDE DEF planned
<1>10. PICK rungs, rest : rungs = SubSeq(planned, 1, kept) /\ rest = change - Total(rungs)
  OBVIOUS
<1>11. rungs \in Seq(Nat) /\ rest \in Nat
  <2>1. rungs \in Seq(Nat) /\ Total(rungs) \in Nat /\ Total(rungs) <= Total(planned)
    BY <1>9, <1>10, PrefixIsLess
  <2> QED BY <1>7, <1>9, <1>10, <2>1
<1>12. PICK tail : tail = IF rest = 0 \/ (side = "sell" /\ rest < SEAL_ANCHOR_SATS)
                          THEN <<>> ELSE <<rest>>
  OBVIOUS
<1>13. tail \in Seq(Nat)
  BY <1>11, <1>12
<1>14. pieces' = Ascending(others \o rungs \o tail)
  BY <1>4, <1>10, <1>12
<1>15. others \o rungs \o tail \in Seq(Nat)
  BY <1>8, <1>11, <1>13
<1>16. pieces' \in Pools
  BY <1>14, <1>15, AscendingIs
<1> QED BY <1>1, <1>16 DEF LiquidityInv

\* Rebalance passes and settlements leave a pool of non-negative amounts in order: no
\* split and no change (plan_ladder, plan_change_rungs) spends more than there is.
THEOREM LiquidityInvariance == LiquiditySpec => []LiquidityInv
<1>1. LiquidityInv /\ [LiquidityNext]_liquidity => LiquidityInv'
  <2>1. LiquidityInv /\ UNCHANGED liquidity => LiquidityInv'
    BY DEF LiquidityInv, liquidity
  <2> QED BY <2>1, SplitKeeps, SettleKeeps DEF LiquidityNext
<1> QED BY <1>1, LiquidityInits, PTL DEF LiquiditySpec

\* A mirror order trades back at no loss.
LEMMA MirrorIsSafe ==
  ASSUME NEW s, NEW o \in [price : Nat \ {0}, scale : Nat \ {0}, size : Nat, spread : Nat],
         NEW amount \in Nat \ {0}, o.spread > 0, NEW back \in Nat
  PROVE  LET gross == QuoteTotalSats(o.price, amount, o.scale, s = "buy")
             unit == MirrorUnit(s, RecoveredUnit(gross, amount, o.scale), o.spread)
         IN IF s = "buy"
            THEN amount * QuoteTotalSats(unit, back, o.scale, FALSE) <= gross * back
            ELSE amount * QuoteTotalSats(unit, back, o.scale, TRUE) >= gross * back
<1>1. PICK p, c, w, g : /\ p = o.price /\ c = o.scale /\ w = o.spread
                        /\ g = QuoteTotalSats(o.price, amount, o.scale, s = "buy")
  OBVIOUS
<1>2. p \in Nat \ {0} /\ c \in Nat \ {0} /\ w \in Nat \ {0} /\ g \in Nat
  <2>1. p \in Nat \ {0} /\ c \in Nat \ {0} /\ w \in Nat \ {0}
    BY <1>1
  <2>2. (s = "buy") \in BOOLEAN
    OBVIOUS
  <2>3. \A up \in BOOLEAN : QuoteTotalSats(o.price, amount, o.scale, up) \in Nat
    BY NeededIs
  <2>4. g \in Nat
    BY <1>1, <2>2, <2>3, Zenon
  <2> QED BY <2>1, <2>4
<1>3. CASE s = "buy"
  <2>1. g = DivCeil(p * amount, c)
    BY <1>1, <1>3 DEF QuoteTotalSats
  <2>2. p * amount \in Nat /\ p * amount <= g * c
    <3>1. p * amount \in Nat
      BY <1>2
    <3> QED BY <1>2, <2>1, <3>1, Ceiling
  <2>3. amount <= p * amount
    <3>1. 1 * amount <= p * amount
      BY <1>2, Products
    <3> QED BY <3>1
  <2>4. amount <= g * c
    <3>1. g * c \in Int
      BY <1>2
    <3> QED BY <2>2, <2>3, <3>1
  <2>5. PICK unit : unit = MirrorUnit("buy", RecoveredUnit(g, amount, c), w)
    OBVIOUS
  <2>6. unit \in Nat /\ unit * amount <= g * c
    BY <1>2, <2>4, <2>5, MirrorOfSale
  <2>7. amount * QuoteTotalSats(unit, back, c, FALSE) <= g * back
    BY <1>2, <2>6, TradeBack
  <2> QED BY <1>1, <1>3, <2>5, <2>7
<1>4. CASE s # "buy"
  <2>1. PICK unit : unit = MirrorUnit("sell", RecoveredUnit(g, amount, c), w)
    OBVIOUS
  <2>2. unit \in Nat /\ unit * amount >= g * c
    BY <1>2, <2>1, MirrorOfPurchase
  <2>3. amount * QuoteTotalSats(unit, back, c, TRUE) >= g * back
    BY <1>2, <2>2, TradeBack
  <2>4. unit = MirrorUnit(s, RecoveredUnit(g, amount, c), w)
    BY <1>4, <2>1 DEF MirrorUnit
  <2> QED BY <1>1, <1>4, <2>3, <2>4
<1> QED BY <1>3, <1>4

\* With a spread, the order build_mirror_order derives from a fill never trades at a
\* loss to it: for every price, scale, spread, size and amount, whatever is rounded.
THEOREM MirrorIsNeverALoss == LiquiditySpec => []MirrorNeverLoses
<1>1. LiquidityInv => MirrorNeverLoses
  <2> SUFFICES ASSUME LiquidityInv,
                      NEW amount \in 1..AvailableSize(side, order, Total(pieces)),
                      order.spread > 0, NEW back \in 1..order.size
               PROVE  LET gross == QuoteTotalSats(order.price, amount, order.scale, side = "buy")
                          unit == MirrorUnit(side, RecoveredUnit(gross, amount, order.scale),
                                             order.spread)
                      IN IF side = "buy"
                         THEN amount * QuoteTotalSats(unit, back, order.scale, FALSE) <= gross * back
                         ELSE amount * QuoteTotalSats(unit, back, order.scale, TRUE) >= gross * back
    BY DEF MirrorNeverLoses
  <2>1. order \in [price : Nat \ {0}, scale : Nat \ {0}, size : Nat, spread : Nat]
    BY LiquidityAssumption DEF LiquidityInv
  <2>2. amount \in Nat \ {0} /\ back \in Nat
    BY <2>1
  <2> QED BY <2>1, <2>2, MirrorIsSafe
<1> QED BY <1>1, LiquidityInvariance, PTL

\* What the feed advertises, the pool holds.
LEMMA AdvertisedIsHeld ==
  ASSUME NEW s \in {"buy", "sell"},
         NEW o \in [price : Nat \ {0}, scale : Nat \ {0}, size : Nat, spread : Nat],
         NEW total \in Int, NEW amount \in 1..AvailableSize(s, o, total)
  PROVE  amount \in Nat \ {0} /\ Needed(s, o, amount) <= total
<1>1. PICK p, c, z : p = o.price /\ c = o.scale /\ z = o.size
  OBVIOUS
<1>2. p \in Nat \ {0} /\ c \in Nat \ {0} /\ z \in Nat
  BY <1>1
<1>3. SEAL_ANCHOR_SATS \in Nat \ {0}
  BY QuotingAssumption
<1>4. CASE s = "buy"
  <2>1. AvailableSize(s, o, total) = Min({z, total})
    BY <1>1, <1>4 DEF AvailableSize
  <2>2. AvailableSize(s, o, total) \in Int /\ AvailableSize(s, o, total) <= total
    BY <1>2, <2>1, OfTwo
  <2> QED BY <1>4, <2>2 DEF Needed
<1>5. CASE s = "sell"
  <2>1. PICK sats, u : /\ sats = Max({0, total - SEAL_ANCHOR_SATS})
                       /\ u = (sats * c) \div p
    OBVIOUS
  <2>2. sats \in Nat /\ sats = IF 0 >= total - SEAL_ANCHOR_SATS THEN 0 ELSE total - SEAL_ANCHOR_SATS
    <3>1. PICK d : d = total - SEAL_ANCHOR_SATS
      OBVIOUS
    <3>2. d \in Int /\ 0 \in Int
      BY <1>3, <3>1
    <3>3. Max({0, d}) = IF 0 >= d THEN 0 ELSE d
      BY <3>2, OfTwo
    <3>4. sats = IF 0 >= d THEN 0 ELSE d
      BY <2>1, <3>1, <3>3
    <3>5. sats \in Nat
      BY <3>2, <3>4
    <3> QED BY <3>1, <3>4, <3>5
  <2>3. sats * c \in Nat
    BY <1>2, <2>2
  <2>4. u \in Nat /\ u * p <= sats * c
    BY <1>2, <2>1, <2>3, Quotient
  <2>5. AvailableSize(s, o, total) = Min({z, u})
    BY <1>1, <1>2, <1>5, <2>1 DEF AvailableSize, UnitsForSats
  <2>6. amount \in Nat \ {0} /\ amount <= u
    <3>1. AvailableSize(s, o, total) \in Int /\ AvailableSize(s, o, total) <= u
      BY <1>2, <2>4, <2>5, OfTwo
    <3> QED BY <2>4, <3>1
  <2>7. PICK q : q = (p * amount) \div c
    OBVIOUS
  <2>8. q \in Nat /\ q * c <= p * amount
    BY <1>2, <2>6, <2>7, Quotient
  <2>9. q * c <= sats * c
    <3>1. amount * p <= u * p
      BY <1>2, <2>4, <2>6, Products
    <3>2. p * amount = amount * p
      BY <1>2, <2>6
    <3>3. PICK a, b, d, e : a = q * c /\ b = amount * p /\ d = u * p /\ e = sats * c
      OBVIOUS
    <3>4. a \in Int /\ b \in Int /\ d \in Int /\ e \in Int
      BY <1>2, <2>2, <2>4, <2>6, <2>8, <3>3
    <3>5. a <= b /\ b <= d /\ d <= e
      BY <2>4, <2>8, <3>1, <3>2, <3>3
    <3>6. a <= e
      BY <3>4, <3>5
    <3> QED BY <3>3, <3>6
  <2>10. q <= sats
    BY <1>2, <2>2, <2>8, <2>9, Products
  <2>11. sats # 0
    <3>1. ASSUME sats = 0 PROVE FALSE
      <4>1. u * p <= 0
        BY <1>2, <2>4, <3>1
      <4>2. 1 * p <= u * p
        BY <1>2, <2>4, <2>6, Products
      <4> QED BY <1>2, <2>4, <4>1, <4>2
    <3> QED BY <3>1
  <2>12. Needed(s, o, amount) = q + SEAL_ANCHOR_SATS
    BY <1>1, <1>5, <2>7 DEF Needed, QuoteTotalSats
  <2> QED BY <1>3, <2>2, <2>6, <2>8, <2>10, <2>11, <2>12
<1> QED BY <1>4, <1>5

\* Every amount order_prices advertises has a selection that covers it with no coin too
\* many; GreedyExactFitSelector leaves no change if a few coins are exact, and never
\* more than one coin that is large enough would.
THEOREM AdvertisedIsAlwaysFilled == LiquiditySpec => []AdvertisedIsFilled
<1>1. LiquidityInv => AdvertisedIsFilled
  <2> SUFFICES ASSUME LiquidityInv,
                      NEW amount \in 1..AvailableSize(side, order, Total(pieces))
               PROVE  LET needed == Needed(side, order, amount)
                          chosen == Select(side, pieces, needed)
                          change == SumOf(pieces, chosen) - needed
                          most == IF Len(pieces) <= SUBSET_LIMIT_3OFN THEN 3
                                  ELSE IF Len(pieces) <= SUBSET_LIMIT_2OFN THEN 2 ELSE 1
                      IN /\ chosen # NoCoins /\ change >= 0
                         /\ \A i \in chosen : SumOf(pieces, chosen \ {i}) < needed
                         /\ side = "buy" =>
                              /\ Exact(needed, most) # {} => change = 0
                              /\ \A i \in DOMAIN pieces :
                                   pieces[i] >= needed => change <= pieces[i] - needed
    BY DEF AdvertisedIsFilled
  <2> DEFINE needed == Needed(side, order, amount)
             chosen == Select(side, pieces, needed)
             most == IF Len(pieces) <= SUBSET_LIMIT_3OFN THEN 3
                     ELSE IF Len(pieces) <= SUBSET_LIMIT_2OFN THEN 2 ELSE 1
  <2>1. /\ side \in {"buy", "sell"} /\ pieces \in Pools
        /\ order \in [price : Nat \ {0}, scale : Nat \ {0}, size : Nat, spread : Nat]
    BY LiquidityAssumption DEF LiquidityInv
  <2>2. Total(pieces) = SumOf(pieces, DOMAIN pieces) /\ Total(pieces) \in Int
    BY <2>1, PoolSums DEF Total, SumFunction, SumOf
  <2>3. amount \in Nat \ {0} /\ needed <= SumOf(pieces, DOMAIN pieces)
    BY <2>1, <2>2, AdvertisedIsHeld
  <2>4. needed \in Nat \ {0}
    BY <2>1, <2>3, NeededIs
  <2>5. most = MostExact(Len(pieces))
    BY DEF MostExact
  <2> HIDE DEF needed, most
  <2>6. SumOf(pieces, DOMAIN pieces) >= needed
    BY <2>1, <2>2, <2>3, <2>4
  <2>7. chosen # NoCoins
    <3>1. CASE side = "buy"
      BY <2>1, <2>4, <2>6, <3>1, ExactFitIsEnough DEF Select, NoCoins
    <3>2. CASE side # "buy"
      BY <2>1, <2>4, <2>6, <3>2, GreedyIsEnough DEF Select, NoCoins
    <3> QED BY <3>1, <3>2
  <2>8. Enough(pieces, chosen, needed)
    BY <2>1, <2>4, <2>7, SelectIsEnough
  <2>9. ASSUME side = "buy"
        PROVE  /\ Exact(needed, most) # {} => SumOf(pieces, chosen) = needed
               /\ \A i \in DOMAIN pieces : pieces[i] >= needed => SumOf(pieces, chosen) <= pieces[i]
    <3>1. chosen = GreedyExactFit(pieces, needed)
      BY <2>9 DEF Select
    <3>2. ASSUME NEW x \in Exact(needed, most)
          PROVE  \E s \in SUBSET DOMAIN pieces : /\ Cardinality(s) <= MostExact(Len(pieces))
                                                 /\ SumOf(pieces, s) = needed
      BY <2>5 DEF Exact
    <3> HIDE DEF chosen
    <3> QED BY <2>1, <2>4, <2>6, <3>1, <3>2, ExactFitIsEnough
  <2> HIDE DEF chosen
  <2>10. PICK t : t = SumOf(pieces, chosen)
    OBVIOUS
  <2>11. t \in Int /\ t >= needed /\ \A i \in DOMAIN pieces : pieces[i] \in Nat
    BY <2>1, <2>8, <2>10, PoolSums DEF Enough
  <2>12. /\ t - needed >= 0
         /\ \A i \in chosen : SumOf(pieces, chosen \ {i}) < needed
    BY <2>4, <2>8, <2>11 DEF Enough
  <2>13. side = "buy" =>
           /\ Exact(needed, most) # {} => t - needed = 0
           /\ \A i \in DOMAIN pieces : pieces[i] >= needed => t - needed <= pieces[i] - needed
    BY <2>4, <2>9, <2>10, <2>11
  <2> QED BY <2>7, <2>10, <2>12, <2>13 DEF needed, chosen, most
<1> QED BY <1>1, LiquidityInvariance, PTL

-----------------------------------------------------------------------------
(***************************************************************************)
(* The auto-mirror strategy                                                *)
(***************************************************************************)

AtAFill == strategy.pc \in {"source", "opposite", "upsert", "mark"}

\* What the loop has listed and not reached, and the fill it is at, are settled and
\* not marked; only the fill it is at has been taken from the listing.
ListedAreOpen ==
  /\ \A f \in strategy.todo : fills[f] # Unsettled /\ ~fills[f].mirrored
  /\ AtAFill => /\ strategy.at \in Fills /\ strategy.at \notin strategy.todo
                /\ fills[strategy.at] # Unsettled /\ ~fills[strategy.at].mirrored

\* A fill about to be marked was added or left on purpose.
MarkedNext == strategy.pc = "mark" => added[strategy.at] > 0 \/ strategy.at \in skipped

\* An unmarked fill was added again only after a failure, but for the one that has
\* been added in this pass and is about to be marked.
UnmarkedWereAddedBefore ==
  \A f \in Fills :
    ~fills[f].mirrored /\ ~(strategy.pc = "mark" /\ strategy.at = f) => added[f] <= faults

\* The two properties are inductive with these.
IInv ==
  /\ TypeOK
  /\ ListedAreOpen /\ MarkedNext /\ UnmarkedWereAddedBefore
  /\ MarkedMeansHandled /\ AddedOncePerFault

LoopType ==
  [pc : {"rest", "stopped", "next", "source", "opposite", "upsert", "mark", "list", "store"},
   todo : SUBSET Fills, at : Fills \cup {NoFill}, base : Nat, placed : BOOLEAN, seen : Orders]

\* At rest the loop has nothing listed.
LEMMA RestingListsNothing == Resting \in LoopType /\ Resting.todo = {} /\ Resting.pc = "rest"
  BY DEF Resting, LoopType, NoOrders, Orders

\* Nothing is settled, listed or added at first.
LEMMA InitIInv == Init => IInv
<1> SUFFICES ASSUME Init PROVE IInv
  OBVIOUS
<1>1. NoOrders \in Orders /\ Resting \in LoopType
  BY DEF NoOrders, Orders, Resting, LoopType
<1>2. TypeOK
  BY <1>1, MirrorAssumption DEF Init, TypeOK, LoopType
<1>3. ListedAreOpen /\ MarkedNext
  BY DEF Init, ListedAreOpen, MarkedNext, AtAFill, Resting
<1>4. UnmarkedWereAddedBefore /\ MarkedMeansHandled /\ AddedOncePerFault
  BY DEF Init, UnmarkedWereAddedBefore, MarkedMeansHandled, AddedOncePerFault, Unsettled
<1> QED
  BY <1>2, <1>3, <1>4 DEF IInv

\* What the operator and the reload loop do reaches neither fills nor strategy.
LEMMA OthersKeepIInv ==
  ASSUME IInv,
         \/ \E s \in Sides : OrderCreate(s) \/ OrderCancel(s)
         \/ OrderClear
         \/ ReloadLoop
         \/ UNCHANGED vars
  PROVE  IInv'
<1>1. UNCHANGED <<fills, strategy, added, skipped, faults>>
  BY DEF OrderCreate, OrderCancel, OrderClear, ReloadLoop, ReloadList, ReloadPolicy,
         tables, history, counters, vars
<1>2. /\ orders' \in Orders /\ policy' \in Orders /\ writes' \in 0..MaxWrites
      /\ reload' \in [pc : {"rest", "store"}, seen : Orders]
  <2>0. /\ orders \in Orders /\ policy \in Orders /\ NoOrders \in Orders
        /\ reload \in [pc : {"rest", "store"}, seen : Orders]
        /\ writes \in 0..MaxWrites /\ MaxWrites \in Nat
    BY MirrorAssumption DEF IInv, TypeOK, NoOrders, Orders
  <2>1. ASSUME NEW s \in Sides, OrderCreate(s) PROVE orders' \in Orders /\ writes' \in 0..MaxWrites
    <3>1. PICK b \in BOOLEAN : orders' = [orders EXCEPT ![s] = [mirror |-> b, size |-> OrderSize]]
      BY <2>1 DEF OrderCreate, Put
    <3>2. [mirror |-> b, size |-> OrderSize] \in [mirror : BOOLEAN, size : Nat]
      BY MirrorAssumption
    <3>3. orders' \in Orders
      BY <2>0, <3>1, <3>2 DEF Orders
    <3> QED
      BY <2>0, <2>1, <3>3 DEF OrderCreate, Write
  <2>2. ASSUME NEW s \in Sides, OrderCancel(s) PROVE orders' \in Orders /\ writes' \in 0..MaxWrites
    BY <2>0, <2>2 DEF OrderCancel, Put, Orders, Write
  <2>3. CASE OrderClear
    BY <2>0, <2>3 DEF OrderClear, Write
  <2>4. CASE ReloadLoop
    BY <2>0, <2>4 DEF ReloadLoop, ReloadList, ReloadPolicy, tables, history, counters
  <2>5. CASE UNCHANGED vars
    BY <2>0, <2>5 DEF vars
  <2>6. \/ \E s \in Sides : OrderCreate(s) \/ OrderCancel(s)
        \/ OrderClear
        => reload' = reload /\ policy' = policy
    BY DEF OrderCreate, OrderCancel, OrderClear
  <2> QED
    BY <2>0, <2>1, <2>2, <2>3, <2>4, <2>5, <2>6 DEF OrderClear
<1>3. TypeOK'
  BY <1>1, <1>2 DEF IInv, TypeOK
<1> QED
  BY <1>1, <1>3 DEF IInv, ListedAreOpen, AtAFill, MarkedNext, UnmarkedWereAddedBefore,
                    MarkedMeansHandled, AddedOncePerFault

\* A new fill is neither listed nor marked.
LEMMA RecordFillKeepsIInv ==
  ASSUME IInv, NEW f \in Fills, RecordFill(f)
  PROVE  IInv'
<1>1. PICK s \in Sides, n \in {0, 1} :
        fills' = [fills EXCEPT ![f] = [side |-> s, amount |-> n, mirrored |-> FALSE]]
  BY DEF RecordFill
<1>2. /\ UNCHANGED <<orders, policy, strategy, reload, added, skipped, writes, faults>>
      /\ fills[f] = Unsettled /\ ~fills[f].mirrored
      /\ fills'[f] # Unsettled /\ ~fills'[f].mirrored
      /\ fills' \in [Fills -> {Unsettled} \cup
                         [side : Sides, amount : {0, 1}, mirrored : BOOLEAN]]
  BY <1>1 DEF RecordFill, history, counters, IInv, TypeOK, Unsettled
<1>3. \A g \in Fills : fills'[g].mirrored <=> fills[g].mirrored
  BY <1>1, <1>2 DEF IInv, TypeOK
<1>4. TypeOK'
  BY <1>2 DEF IInv, TypeOK
<1>5. ListedAreOpen'
  BY <1>1, <1>2, <1>3 DEF IInv, TypeOK, ListedAreOpen, AtAFill
<1>6. MarkedNext' /\ UnmarkedWereAddedBefore' /\ MarkedMeansHandled' /\ AddedOncePerFault'
  BY <1>2, <1>3 DEF IInv, MarkedNext, UnmarkedWereAddedBefore, MarkedMeansHandled,
                    AddedOncePerFault
<1> QED
  BY <1>4, <1>5, <1>6 DEF IInv

\* The steps of the loop that neither add, leave nor mark.
LEMMA MovesKeepIInv ==
  ASSUME IInv,
         \/ ListUnmirrored \/ NextFill \/ ReadSource \/ ReadOpposite
         \/ EndPass \/ ListForPolicy \/ StorePolicy
  PROVE  IInv'
<1>1. /\ UNCHANGED <<tables, reload, history, counters>>
      /\ policy' \in Orders
  BY DEF ListUnmirrored, NextFill, ReadSource, ReadOpposite, EndPass, ListForPolicy, StorePolicy,
         IInv, TypeOK
<1>2. strategy' \in LoopType /\ strategy'.pc # "mark"
  <2>0. strategy \in LoopType /\ orders \in Orders /\ NoOrders \in Orders /\ Resting \in LoopType
    BY DEF IInv, TypeOK, LoopType, NoOrders, Orders, Resting
  <2>1. CASE ListUnmirrored
    BY <2>0, <2>1 DEF ListUnmirrored, LoopType, Unmirrored
  <2>2. CASE NextFill
    BY <2>0, <2>2 DEF NextFill, LoopType
  <2>3. CASE ReadSource
    BY <2>0, <2>3 DEF ReadSource, Goto, LoopType
  <2>4. CASE ReadOpposite
    <3>1. orders[Opp] \in {None} \cup [mirror : BOOLEAN, size : Nat]
      BY <2>0 DEF Orders, Opp, Opposite, Sides
    <3>2. (IF orders[Opp] = None THEN 0 ELSE orders[Opp].size) \in Nat
      BY <3>1
    <3> QED
      BY <2>0, <2>4, <3>2 DEF ReadOpposite, LoopType
  <2>5. CASE EndPass
    BY <2>0, <2>5 DEF EndPass, LoopType, Resting
  <2>6. CASE ListForPolicy \/ StorePolicy
    BY <2>0, <2>6 DEF ListForPolicy, StorePolicy, LoopType, Resting
  <2> QED
    BY <2>1, <2>2, <2>3, <2>4, <2>5, <2>6
<1>3. strategy.pc # "mark"
  BY DEF ListUnmirrored, NextFill, ReadSource, ReadOpposite, EndPass, ListForPolicy, StorePolicy
<1>4. TypeOK'
  BY <1>1, <1>2 DEF IInv, TypeOK, LoopType, tables, history, counters
<1>5. ListedAreOpen'
  <2>0. strategy \in LoopType /\ fills' = fills
    BY <1>1 DEF IInv, TypeOK, LoopType, tables
  <2>1. CASE ListUnmirrored
    BY <2>0, <2>1 DEF ListUnmirrored, ListedAreOpen, AtAFill, Unmirrored, Resting
  <2>2. CASE NextFill
    <3>1. PICK f \in strategy.todo :
            strategy' = [strategy EXCEPT !.pc = "source", !.at = f, !.todo = @ \ {f}]
      BY <2>2 DEF NextFill
    <3>2. strategy'.at = f /\ strategy'.todo = strategy.todo \ {f} /\ f \in Fills
      BY <2>0, <3>1 DEF LoopType
    <3>3. \A g \in strategy.todo : fills[g] # Unsettled /\ ~fills[g].mirrored
      BY DEF IInv, ListedAreOpen
    <3> QED
      BY <2>0, <3>2, <3>3 DEF ListedAreOpen
  <2>3. CASE ReadSource \/ ReadOpposite
    BY <2>0, <2>3 DEF ReadSource, ReadOpposite, Goto, ListedAreOpen, AtAFill, LoopType, IInv
  <2>4. CASE EndPass \/ ListForPolicy \/ StorePolicy
    <3>1. strategy'.todo = {} /\ strategy'.pc \in {"rest", "list", "store"}
      BY <2>4, RestingListsNothing DEF EndPass, ListForPolicy, StorePolicy, LoopType
    <3> QED
      BY <3>1 DEF ListedAreOpen, AtAFill
  <2> QED
    BY <2>1, <2>2, <2>3, <2>4
<1>6. MarkedNext' /\ UnmarkedWereAddedBefore' /\ MarkedMeansHandled' /\ AddedOncePerFault'
  BY <1>1, <1>2, <1>3 DEF IInv, MarkedNext, UnmarkedWereAddedBefore, MarkedMeansHandled,
                          AddedOncePerFault, tables, history, counters
<1> QED
  BY <1>4, <1>5, <1>6 DEF IInv

\* The four steps that have a fill in hand: they leave every other fill's row, count
\* and place alone.
LEMMA SkipsKeepIInv ==
  ASSUME IInv, SkipAtSource \/ SkipPinned
  PROVE  IInv'
<1>1. /\ strategy' = [strategy EXCEPT !.pc = "mark"] /\ strategy \in LoopType
      /\ skipped' = skipped \cup {strategy.at}
      /\ UNCHANGED <<orders, fills, policy, reload, added, writes, faults>>
      /\ strategy.pc \in {"source", "opposite"}
  BY DEF SkipAtSource, SkipPinned, Skip, Goto, tables, counters, IInv, TypeOK, LoopType
<1>2. /\ strategy'.pc = "mark" /\ strategy'.at = strategy.at /\ strategy'.todo = strategy.todo
      /\ strategy' \in LoopType
  BY <1>1 DEF LoopType
<1>3. /\ strategy.at \in Fills /\ strategy.at \notin strategy.todo
      /\ fills[strategy.at] # Unsettled /\ ~fills[strategy.at].mirrored
  BY <1>1 DEF IInv, ListedAreOpen, AtAFill
<1>4. TypeOK'
  BY <1>1, <1>2, <1>3 DEF IInv, TypeOK, LoopType
<1>5. ListedAreOpen' /\ MarkedNext'
  BY <1>1, <1>2, <1>3 DEF IInv, ListedAreOpen, MarkedNext
<1>6. UnmarkedWereAddedBefore' /\ MarkedMeansHandled' /\ AddedOncePerFault'
  BY <1>1, <1>2 DEF IInv, UnmarkedWereAddedBefore, MarkedMeansHandled, AddedOncePerFault
<1> QED
  BY <1>4, <1>5, <1>6 DEF IInv

\* An upsert counts for a fill that so far was only added before failures.
LEMMA UpsertKeepsIInv ==
  ASSUME IInv, Upsert
  PROVE  IInv'
<1> DEFINE f == strategy.at
<1>1. /\ strategy' = [strategy EXCEPT !.pc = "mark", !.placed = TRUE] /\ strategy \in LoopType
      /\ added' = [added EXCEPT ![f] = @ + 1] /\ added \in [Fills -> Nat]
      /\ UNCHANGED <<fills, policy, reload, skipped, writes, faults>>
      /\ strategy.pc = "upsert" /\ faults \in Nat /\ strategy.base \in Nat
  BY MirrorAssumption DEF Upsert, counters, IInv, TypeOK, LoopType
<1>2. /\ strategy'.pc = "mark" /\ strategy'.at = f /\ strategy'.todo = strategy.todo
      /\ strategy' \in LoopType
  BY <1>1 DEF LoopType
<1>3. /\ f \in Fills /\ f \notin strategy.todo
      /\ fills[f] # Unsettled /\ ~fills[f].mirrored
  BY <1>1 DEF IInv, ListedAreOpen, AtAFill
<1>4. added[f] <= faults /\ added'[f] = added[f] + 1
  BY <1>1, <1>3 DEF IInv, UnmarkedWereAddedBefore
<1>5. orders' \in Orders
  <2>1. orders \in Orders /\ At.amount \in Nat
    BY <1>3 DEF IInv, TypeOK, At, Unsettled
  <2>2. [mirror |-> TRUE, size |-> strategy.base + At.amount] \in [mirror : BOOLEAN, size : Nat]
    BY <1>1, <2>1
  <2> QED
    BY <2>1, <2>2 DEF Upsert, Put, Orders
<1>6. TypeOK'
  BY <1>1, <1>2, <1>3, <1>5 DEF IInv, TypeOK, LoopType
<1>7. ListedAreOpen' /\ MarkedNext'
  BY <1>1, <1>2, <1>3, <1>4 DEF IInv, ListedAreOpen, MarkedNext
<1>8. UnmarkedWereAddedBefore' /\ MarkedMeansHandled' /\ AddedOncePerFault'
  BY <1>1, <1>2, <1>3, <1>4
     DEF IInv, UnmarkedWereAddedBefore, MarkedMeansHandled, AddedOncePerFault
<1> QED
  BY <1>6, <1>7, <1>8 DEF IInv

\* The mark closes the fill in hand, which was added or left.
LEMMA MarkKeepsIInv ==
  ASSUME IInv, MarkMirrored
  PROVE  IInv'
<1> DEFINE f == strategy.at
<1>1. /\ strategy' = [strategy EXCEPT !.pc = "next"] /\ strategy \in LoopType
      /\ fills' = [fills EXCEPT ![f].mirrored = TRUE]
      /\ UNCHANGED <<orders, policy, reload, added, skipped, writes, faults>>
      /\ strategy.pc = "mark"
  BY DEF MarkMirrored, Goto, history, counters, IInv, TypeOK, LoopType
<1>2. strategy'.pc = "next" /\ strategy'.todo = strategy.todo /\ strategy' \in LoopType
  BY <1>1 DEF LoopType
<1>3. /\ f \in Fills /\ f \notin strategy.todo
      /\ fills[f] # Unsettled
  BY <1>1 DEF IInv, ListedAreOpen, AtAFill
<1>4. fills[f] \in [side : Sides, amount : {0, 1}, mirrored : BOOLEAN]
  BY <1>3 DEF IInv, TypeOK
<1>5. /\ fills' \in [Fills -> {Unsettled} \cup
                      [side : Sides, amount : {0, 1}, mirrored : BOOLEAN]]
      /\ \A g \in Fills : g # f => fills'[g] = fills[g]
  <2>1. [fills[f] EXCEPT !.mirrored = TRUE] \in [side : Sides, amount : {0, 1}, mirrored : BOOLEAN]
    BY <1>4
  <2>2. fills' = [fills EXCEPT ![f] = [fills[f] EXCEPT !.mirrored = TRUE]]
    BY <1>1, <1>3 DEF IInv, TypeOK
  <2> QED
    BY <1>3, <2>1, <2>2 DEF IInv, TypeOK
<1>6. TypeOK'
  BY <1>1, <1>2, <1>5 DEF IInv, TypeOK, LoopType
<1>7. ListedAreOpen' /\ MarkedNext'
  BY <1>2, <1>3, <1>5 DEF IInv, TypeOK, ListedAreOpen, MarkedNext, AtAFill
<1>8. added[f] > 0 \/ f \in skipped
  BY <1>1 DEF IInv, MarkedNext
<1>9. MarkedMeansHandled' /\ AddedOncePerFault'
  BY <1>1, <1>3, <1>5, <1>8 DEF IInv, MarkedMeansHandled, AddedOncePerFault
<1>10. UnmarkedWereAddedBefore'
  <2>1. fills'[f].mirrored
    BY <1>1, <1>3, <1>4 DEF IInv, TypeOK
  <2> QED
    BY <1>1, <1>2, <1>3, <1>5, <2>1 DEF IInv, UnmarkedWereAddedBefore
<1> QED
  BY <1>6, <1>7, <1>9, <1>10 DEF IInv

\* A failure drops what was in hand and pays for adding it again.
LEMMA FaultsKeepIInv ==
  ASSUME IInv, StoreFails \/ ListForPolicyFails \/ Restart
  PROVE  IInv'
<1>1. /\ UNCHANGED <<orders, fills, added, skipped, writes>>
      /\ faults' = faults + 1 /\ faults \in Nat /\ faults' \in 0..MaxFaults
      /\ added \in [Fills -> Nat]
  BY MirrorAssumption DEF StoreFails, ListForPolicyFails, Restart, Fault, tables, history,
                          IInv, TypeOK
<1>2. /\ strategy' \in LoopType /\ strategy'.pc \in {"rest", "next"}
      /\ strategy'.todo \subseteq strategy.todo
  <2>1. strategy \in LoopType /\ Resting \in LoopType
    BY DEF IInv, TypeOK, LoopType, Resting, NoOrders, Orders
  <2>2. CASE StoreFails
    BY <2>1, <2>2 DEF StoreFails, Goto, LoopType
  <2>3. CASE ListForPolicyFails \/ Restart
    BY <2>1, <2>3, RestingListsNothing DEF ListForPolicyFails, Restart, LoopType
  <2> QED
    BY <2>2, <2>3
<1>3. policy' \in Orders /\ reload' \in [pc : {"rest", "store"}, seen : Orders]
  BY DEF StoreFails, ListForPolicyFails, Restart, IInv, TypeOK, NoOrders, Orders
<1>4. TypeOK'
  BY <1>1, <1>2, <1>3 DEF IInv, TypeOK, LoopType
<1>5. ListedAreOpen' /\ MarkedNext'
  BY <1>1, <1>2 DEF IInv, ListedAreOpen, MarkedNext, AtAFill
<1>6. MarkedMeansHandled' /\ AddedOncePerFault' /\ UnmarkedWereAddedBefore'
  BY <1>1, <1>2 DEF IInv, MarkedMeansHandled, AddedOncePerFault, UnmarkedWereAddedBefore
<1> QED
  BY <1>4, <1>5, <1>6 DEF IInv

\* Every step, and stuttering, keeps the inductive invariant.
LEMMA NextKeepsIInv == IInv /\ [Next]_vars => IInv'
  BY OthersKeepIInv, RecordFillKeepsIInv, MovesKeepIInv, SkipsKeepIInv, UpsertKeepsIInv,
     MarkKeepsIInv, FaultsKeepIInv DEF Next, StrategyLoop

\* It holds in every reachable state.
LEMMA IInvAlways == Spec => []IInv
  BY InitIInv, NextKeepsIInv, PTL DEF Spec

\* Both tables, both policies and both loops keep their shape.
THEOREM TypeCorrect == Spec => []TypeOK
<1>1. IInv => TypeOK
  BY DEF IInv
<1> QED
  BY <1>1, IInvAlways, PTL

\* spawn_strategy_loop loses no fill: what it marks it has added to an order or
\* decided to leave, wherever it failed, died or was overtaken by the operator.
THEOREM NoFillLost == Spec => []MarkedMeansHandled
<1>1. IInv => MarkedMeansHandled
  BY DEF IInv
<1> QED
  BY <1>1, IInvAlways, PTL

\* spawn_strategy_loop adds a fill once, and once more for each failure at most.
THEOREM NoFillAddedFreely == Spec => []AddedOncePerFault
<1>1. IInv => AddedOncePerFault
  BY DEF IInv
<1> QED
  BY <1>1, IInvAlways, PTL
=============================================================================
