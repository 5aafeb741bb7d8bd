------------------------------- MODULE Spv_proofs -------------------------------
(***************************************************************************)
(* What a gate, a thin client and a bookmark may believe about the chain,  *)
(* for every number of transactions, blocks, reorganisations and restarts, *)
(* every tree of transactions, and every pace of the node.                 *)
(***************************************************************************)
EXTENDS Spv, WellFoundedInduction, FiniteSetTheorems, SequenceTheorems, TLAPS

-----------------------------------------------------------------------------
(***************************************************************************)
(* Numbers: the least, induction, powers                                   *)
(***************************************************************************)

\* A set of numbers that is not empty has a least one.
LEMMA Least ==
  ASSUME NEW T, T \subseteq Nat, T # {}
  PROVE  \E n \in T : \A m \in T : n <= m
<1> DEFINE R == StrictSubsetOrdering(Nat)
           F == FiniteSubsetsOf(Nat)
           U == {1..n : n \in T}
<1>1. IsWellFoundedOn(R, F)
  BY FS_StrictSubsetOrderingWellFounded
<1>2. U \subseteq F /\ U # {}
  <2>1. \A n \in T : 1..n \subseteq Nat /\ IsFiniteSet(1..n)
    BY FS_Interval
  <2> QED
    BY <2>1 DEF FiniteSubsetsOf
<1>3. \E x \in U : \A y \in U : ~(<<y, x>> \in R)
  <2> HIDE DEF R, F, U
  <2> QED
    BY <1>1, <1>2, WFMin
<1>4. PICK n \in T : \A m \in T : ~(<<1..m, 1..n>> \in R)
  BY <1>3
<1>5. ASSUME NEW m \in T, m < n PROVE FALSE
  <2>1. 1..m \subseteq 1..n /\ 1..m # 1..n /\ 1..m \subseteq Nat /\ 1..n \subseteq Nat
    <3>1. n \in 1..n /\ n \notin 1..m
      BY <1>5
    <3> QED
      BY <1>5, <3>1
  <2>2. <<1..m, 1..n>> \in R
    BY <2>1 DEF StrictSubsetOrdering
  <2> QED
    BY <1>4, <2>2
<1> QED
  BY <1>5

\* Induction, on the set of the numbers a formula holds of.
LEMMA Induction ==
  ASSUME NEW T, 0 \in T, \A n \in Nat : n \in T => n + 1 \in T
  PROVE  \A n \in Nat : n \in T
<1> SUFFICES ASSUME Nat \ T # {} PROVE FALSE
  OBVIOUS
<1>1. PICK n \in Nat \ T : \A m \in Nat \ T : n <= m
  BY Least
<1>2. n - 1 \in Nat /\ n - 1 \in T
  BY <1>1
<1> QED
  BY <1>1, <1>2

\* A set of numbers with a bound has a greatest one.
LEMMA MaxIsIn ==
  ASSUME NEW S, S \subseteq Nat, S # {}, NEW b \in Nat, \A i \in S : i <= b
  PROVE  Max(S) \in S /\ \A i \in S : i <= Max(S)
<1> DEFINE T == {b - i : i \in S}
<1>1. T \subseteq Nat /\ \A i \in S : b - i \in T
  OBVIOUS
<1>2. PICK n \in T : \A m \in T : n <= m
  <2>1. T # {}
    BY <1>1
  <2> HIDE DEF T
  <2> QED BY <1>1, <2>1, Least
<1>3. PICK i \in S : n = b - i
  OBVIOUS
<1>4. ASSUME NEW j \in S PROVE i >= j
  <2>1. b - i <= b - j
    BY <1>1, <1>2, <1>3
  <2>2. i \in Nat /\ j \in Nat
    OBVIOUS
  <2> QED BY <2>1, <2>2
<1> QED
  BY <1>3, <1>4 DEF Max

\* A set of numbers that is not empty has its minimum.
LEMMA MinIsIn ==
  ASSUME NEW S, S \subseteq Nat, S # {}
  PROVE  Min(S) \in S /\ \A i \in S : Min(S) <= i
  BY Least DEF Min

\* The greater of two numbers, and the lesser.
LEMMA MaxOfTwo ==
  ASSUME NEW x \in Int, NEW y \in Int
  PROVE  Max({x, y}) = IF x > y THEN x ELSE y
<1>1. CASE x > y
  BY <1>1 DEF Max
<1>2. CASE ~(x > y)
  BY <1>2 DEF Max
<1> QED
  BY <1>1, <1>2

\* The lesser of two numbers.
LEMMA MinOfTwo ==
  ASSUME NEW x \in Int, NEW y \in Int
  PROVE  Min({x, y}) = IF x < y THEN x ELSE y
<1>1. CASE x < y
  BY <1>1 DEF Min
<1>2. CASE ~(x < y)
  BY <1>2 DEF Min
<1> QED
  BY <1>1, <1>2

\* The function that Power applies exists, whatever the exponent.
LEMMA PowerDef ==
  ASSUME NEW b, NEW n \in Nat
  PROVE  \E p : /\ p = [k \in 0..n |-> IF k = 0 THEN 1 ELSE b * p[k - 1]]
                /\ Power(b, n) = p[n]
<1> DEFINE Is(p, m) == p = [k \in 0..m |-> IF k = 0 THEN 1 ELSE b * p[k - 1]]
           T == {m \in Nat : \E p : Is(p, m)}
<1>1. 0 \in T
  <2>1. Is([k \in 0..0 |-> 1], 0)
    OBVIOUS
  <2> QED BY <2>1
<1>2. ASSUME NEW m \in Nat, m \in T PROVE m + 1 \in T
  <2>1. PICK p : Is(p, m)
    BY <1>2
  <2> DEFINE q == [k \in 0..(m + 1) |-> IF k <= m THEN p[k] ELSE b * p[m]]
  <2>2. \A k \in 0..(m + 1) : q[k] = IF k = 0 THEN 1 ELSE b * q[k - 1]
    BY <2>1
  <2>3. Is(q, m + 1)
    BY <2>2
  <2> HIDE DEF Is, q
  <2> QED BY <2>3
<1>3. n \in T
  <2> HIDE DEF T
  <2> QED BY <1>1, <1>2, Induction
<1>4. \E p : Is(p, n)
  BY <1>3
<1> QED
  BY <1>4 DEF Power

\* The powers, one by one.
LEMMA Powers ==
  ASSUME NEW b
  PROVE  /\ Power(b, 0) = 1
         /\ \A n \in Nat : Power(b, n + 1) = b * Power(b, n)
<1> DEFINE Is(p, m) == p = [k \in 0..m |-> IF k = 0 THEN 1 ELSE b * p[k - 1]]
<1>1. \A n \in Nat : \E p : Is(p, n) /\ Power(b, n) = p[n]
  BY PowerDef
<1>2. ASSUME NEW n \in Nat, NEW p, Is(p, n + 1), NEW q, Is(q, n)
      PROVE  p[n] = q[n]
  <2> DEFINE T == {k \in Nat : k <= n => p[k] = q[k]}
  <2>1. 0 \in T
    BY <1>2
  <2>2. ASSUME NEW k \in Nat, k \in T PROVE k + 1 \in T
    BY <1>2, <2>2
  <2>3. n \in T
    <3> HIDE DEF T
    <3> QED BY <2>1, <2>2, Induction
  <2> QED BY <2>3
<1>3. Power(b, 0) = 1
  BY <1>1
<1>4. ASSUME NEW n \in Nat PROVE Power(b, n + 1) = b * Power(b, n)
  <2>1. PICK p : Is(p, n + 1) /\ Power(b, n + 1) = p[n + 1]
    <3> HIDE DEF Is
    <3> QED BY <1>1
  <2>2. PICK q : Is(q, n) /\ Power(b, n) = q[n]
    <3> HIDE DEF Is
    <3> QED BY <1>1
  <2>3. p[n + 1] = b * p[n]
    BY <2>1
  <2> QED BY <1>2, <2>1, <2>2, <2>3
<1> QED BY <1>3, <1>4

\* The powers of a number above 0 are above 0.
LEMMA PowerPositive ==
  ASSUME NEW b \in Nat \ {0}, NEW n \in Nat
  PROVE  Power(b, n) \in Nat \ {0}
<1> DEFINE T == {k \in Nat : Power(b, k) \in Nat \ {0}}
<1>1. 0 \in T
  BY Powers
<1>2. ASSUME NEW k \in Nat, k \in T PROVE k + 1 \in T
  <2>1. Power(b, k + 1) = b * Power(b, k)
    BY Powers
  <2>2. \A x, y \in Nat \ {0} : x * y \in Nat \ {0}
    OBVIOUS
  <2> QED BY <1>2, <2>1, <2>2
<1>3. n \in T
  <2> HIDE DEF T
  <2> QED BY <1>1, <1>2, Induction
<1> QED BY <1>3

-----------------------------------------------------------------------------
(***************************************************************************)
(* The recursive functions of the models, a step at a time                 *)
(***************************************************************************)

\* A branch is hashed up a sibling at a time.
LEMMA HashUps ==
  ASSUME NEW txid, NEW branch, NEW index, Len(branch) \in Nat
  PROVE  /\ HashUp(txid, branch, index)[0] = [node |-> txid, index |-> index]
         /\ \A n \in 0..(Len(branch) - 1) : HashUp(txid, branch, index)[n + 1]
              = Hashed(HashUp(txid, branch, index)[n], branch[n + 1])
<1> DEFINE Is(p, m) == p = [n \in 0..m |-> IF n = 0 THEN [node |-> txid, index |-> index]
                                           ELSE Hashed(p[n - 1], branch[n])]
           T == {m \in Nat : \E p : Is(p, m)}
<1>1. 0 \in T
  <2>1. Is([n \in 0..0 |-> [node |-> txid, index |-> index]], 0)
    OBVIOUS
  <2> HIDE DEF Is
  <2> QED BY <2>1
<1>2. ASSUME NEW m \in Nat, m \in T PROVE m + 1 \in T
  <2>1. PICK p : Is(p, m)
    BY <1>2
  <2> DEFINE q == [n \in 0..(m + 1) |-> IF n <= m THEN p[n] ELSE Hashed(p[m], branch[m + 1])]
  <2>2. \A n \in 0..(m + 1) : q[n] = IF n = 0 THEN [node |-> txid, index |-> index]
                                     ELSE Hashed(q[n - 1], branch[n])
    BY <2>1
  <2>3. Is(q, m + 1)
    BY <2>2
  <2> HIDE DEF Is, q
  <2> QED BY <2>3
<1>3. Len(branch) \in T
  <2> HIDE DEF T
  <2> QED BY <1>1, <1>2, Induction
<1>4. \E p : Is(p, Len(branch))
  BY <1>3
<1>5. Is(HashUp(txid, branch, index), Len(branch))
  BY <1>4 DEF HashUp
<1>6. ASSUME NEW n \in 0..(Len(branch) - 1)
      PROVE  HashUp(txid, branch, index)[n + 1]
              = Hashed(HashUp(txid, branch, index)[n], branch[n + 1])
  <2>1. n + 1 \in 0..Len(branch) /\ n + 1 # 0 /\ (n + 1) - 1 = n
    OBVIOUS
  <2> QED BY <1>5, <2>1
<1> QED
  BY <1>5, <1>6

\* A tree is climbed a level at a time.
LEMMA ClimbsUp ==
  ASSUME NEW txs, NEW pos, Len(txs) \in Nat
  PROVE  /\ Climbs(txs, pos)[0] = [nodes |-> txs, pos |-> pos, branch |-> <<>>]
         /\ \A n \in 0..(Len(txs) - 1) : Climbs(txs, pos)[n + 1] = Climb(Climbs(txs, pos)[n])
<1> DEFINE Is(p, m) == p = [n \in 0..m |-> IF n = 0 THEN [nodes |-> txs, pos |-> pos,
                                                         branch |-> <<>>]
                                           ELSE Climb(p[n - 1])]
           T == {m \in Nat : \E p : Is(p, m)}
<1>1. 0 \in T
  <2>1. Is([n \in 0..0 |-> [nodes |-> txs, pos |-> pos, branch |-> <<>>]], 0)
    OBVIOUS
  <2> HIDE DEF Is
  <2> QED BY <2>1
<1>2. ASSUME NEW m \in Nat, m \in T PROVE m + 1 \in T
  <2>1. PICK p : Is(p, m)
    BY <1>2
  <2> DEFINE q == [n \in 0..(m + 1) |-> IF n <= m THEN p[n] ELSE Climb(p[m])]
  <2>2. \A n \in 0..(m + 1) : q[n] = IF n = 0 THEN [nodes |-> txs, pos |-> pos, branch |-> <<>>]
                                     ELSE Climb(q[n - 1])
    BY <2>1
  <2>3. Is(q, m + 1)
    BY <2>2
  <2> HIDE DEF Is, q
  <2> QED BY <2>3
<1>3. Len(txs) \in T
  <2> HIDE DEF T
  <2> QED BY <1>1, <1>2, Induction
<1>4. \E p : Is(p, Len(txs))
  BY <1>3
<1>5. Is(Climbs(txs, pos), Len(txs))
  BY <1>4 DEF Climbs
<1>6. ASSUME NEW n \in 0..(Len(txs) - 1)
      PROVE  Climbs(txs, pos)[n + 1] = Climb(Climbs(txs, pos)[n])
  <2>1. n + 1 \in 0..Len(txs) /\ n + 1 # 0 /\ (n + 1) - 1 = n
    OBVIOUS
  <2> QED BY <1>5, <2>1
<1> QED
  BY <1>5, <1>6

\* The transactions that a reorganisation places in a block.
Placed(place, n) == {t \in DOMAIN place : place[t] = n}

\* A reorganisation grows the chain a block at a time.
LEMMA RegrownGrows ==
  ASSUME NEW kept, NEW fork, NEW place, NEW blocks \in Nat
  PROVE  /\ Regrown(kept, fork, place, blocks)[0] = kept
         /\ \A n \in 0..(blocks - 1) : Regrown(kept, fork, place, blocks)[n + 1]
              = Grow(Regrown(kept, fork, place, blocks)[n], fork, Placed(place, n + 1))
<1> DEFINE G(c, n) == Grow(c, fork, Placed(place, n))
           Is(p, m) == p = [n \in 0..m |-> IF n = 0 THEN kept ELSE G(p[n - 1], n)]
           T == {m \in Nat : \E p : Is(p, m)}
<1>1. 0 \in T
  <2>1. Is([n \in 0..0 |-> kept], 0)
    OBVIOUS
  <2> HIDE DEF Is
  <2> QED BY <2>1
<1>2. ASSUME NEW m \in Nat, m \in T PROVE m + 1 \in T
  <2>1. PICK p : Is(p, m)
    BY <1>2
  <2> DEFINE q == [n \in 0..(m + 1) |-> IF n <= m THEN p[n]
                     ELSE G(p[m], m + 1)]
  <2>2. \A n \in 0..(m + 1) : q[n] = IF n = 0 THEN kept
                     ELSE G(q[n - 1], n)
    <3> HIDE DEF G
    <3> QED BY <2>1
  <2>3. Is(q, m + 1)
    <3> HIDE DEF G
    <3> QED BY <2>2
  <2> HIDE DEF Is, q
  <2> QED BY <2>3
<1>3. blocks \in T
  <2> HIDE DEF T
  <2> QED BY <1>1, <1>2, Induction
<1>4. \E p : Is(p, blocks)
  BY <1>3
<1>5. Is(Regrown(kept, fork, place, blocks), blocks)
  BY <1>4 DEF Regrown, Placed
<1> HIDE DEF G
<1>6. ASSUME NEW n \in 0..(blocks - 1)
      PROVE  Regrown(kept, fork, place, blocks)[n + 1]
             = G(Regrown(kept, fork, place, blocks)[n], n + 1)
  <2>1. n + 1 \in 0..blocks /\ n + 1 # 0 /\ (n + 1) - 1 = n
    OBVIOUS
  <2> QED BY <1>5, <2>1
<1>7. Regrown(kept, fork, place, blocks)[0] = kept
  BY <1>5
<1> QED
  BY <1>6, <1>7 DEF G

-----------------------------------------------------------------------------
(***************************************************************************)
(* A merkle tree, climbed from a leaf                                      *)
(***************************************************************************)

\* The transactions of every block.
Leaves == Txs \cup Range(Others)

\* A sequence of whatever it holds.
IsSeq(s) == s \in Seq(Range(s))

\* A tree being climbed: there are nodes, and the position is of one of them.
Climbing(s) ==
  /\ IsSeq(s.nodes) /\ s.nodes # <<>> /\ IsSeq(s.branch)
  /\ s.pos \in 0..(Len(s.nodes) - 1)

\* The level above: half the nodes, the node on the path hashed with its sibling x.
Above(s, up, x) ==
  /\ up.nodes = Level(s.nodes)
  /\ Len(up.nodes) = (Len(s.nodes) + 1) \div 2
  /\ up.pos = s.pos \div 2
  /\ up.branch = Append(s.branch, x)
  /\ up.nodes[up.pos + 1] = IF s.pos % 2 = 0 THEN <<s.nodes[s.pos + 1], x>>
                            ELSE <<x, s.nodes[s.pos + 1]>>

\* A level has half the nodes of the one below, each a pair of them.
LEMMA LevelIs ==
  ASSUME NEW nodes, IsSeq(nodes), nodes # <<>>
  PROVE  /\ IsSeq(Level(nodes)) /\ Level(nodes) # <<>>
         /\ Len(Level(nodes)) = (Len(nodes) + 1) \div 2
         /\ \A i \in 1..((Len(nodes) + 1) \div 2) : Level(nodes)[i] =
              <<nodes[2 * i - 1], nodes[IF 2 * i <= Len(nodes) THEN 2 * i ELSE 2 * i - 1]>>
         /\ \A x \in Range(Level(nodes)) :
              \E y, z \in Range(nodes) : x = <<y, z>>
<1> DEFINE h == (Len(nodes) + 1) \div 2
           e(i) == <<nodes[2 * i - 1], nodes[IF 2 * i <= Len(nodes) THEN 2 * i ELSE 2 * i - 1]>>
<1>1. Len(nodes) \in Nat \ {0} /\ h \in Nat \ {0} /\ DOMAIN nodes = 1..Len(nodes)
  BY DEF IsSeq
<1>2. \A i \in 1..h : 2 * i - 1 \in 1..Len(nodes)
  BY <1>1
<1>3. \A i \in 1..h : \E y, z \in Range(nodes) : e(i) = <<y, z>>
  <2> TAKE i \in 1..h
  <2>1. nodes[2 * i - 1] \in Range(nodes)
    BY <1>1, <1>2 DEF Range
  <2>2. nodes[IF 2 * i <= Len(nodes) THEN 2 * i ELSE 2 * i - 1] \in Range(nodes)
    <3>1. CASE 2 * i <= Len(nodes)
      BY <1>1, <3>1 DEF Range
    <3>2. CASE ~(2 * i <= Len(nodes))
      BY <2>1, <3>2
    <3> QED BY <3>1, <3>2
  <2> QED BY <2>1, <2>2
<1>4. Level(nodes) = [i \in 1..h |-> e(i)]
  BY DEF Level
<1> HIDE DEF h, e
<1>5. Level(nodes) \in Seq(Range(Level(nodes))) /\ Len(Level(nodes)) = h
  BY <1>1, <1>4 DEF Range
<1>6. \A x \in Range(Level(nodes)) : \E i \in 1..h : x = e(i)
  BY <1>4 DEF Range
<1>7. \A i \in 1..h : Level(nodes)[i] = e(i)
  BY <1>4
<1>8. IsSeq(Level(nodes)) /\ Level(nodes) # <<>>
  BY <1>1, <1>5 DEF IsSeq
<1>9. \A x \in Range(Level(nodes)) : \E y, z \in Range(nodes) : x = <<y, z>>
  BY <1>3, <1>6
<1> QED
  BY <1>5, <1>7, <1>8, <1>9 DEF h, e

\* An element more.
LEMMA AppendIsSeq ==
  ASSUME NEW s, IsSeq(s), NEW x
  PROVE  /\ IsSeq(Append(s, x)) /\ Len(Append(s, x)) = Len(s) + 1
         /\ Range(Append(s, x)) = Range(s) \cup {x}
<1> DEFINE V == Range(s) \cup {x}
<1>1. s \in Seq(V) /\ x \in V
  BY DEF IsSeq
<1> HIDE DEF V
<1>2. Append(s, x) \in Seq(V) /\ Len(Append(s, x)) = Len(s) + 1 /\ Len(s) \in Nat
      /\ \A i \in 1..Len(s) : Append(s, x)[i] = s[i]
      /\ Append(s, x)[Len(s) + 1] = x
  BY <1>1, AppendProperties
<1>3. DOMAIN Append(s, x) = 1..(Len(s) + 1) /\ DOMAIN s = 1..Len(s)
  BY <1>1, <1>2
<1>4. Range(Append(s, x)) = Range(s) \cup {x}
  <2>1. ASSUME NEW v \in Range(Append(s, x)) PROVE v \in Range(s) \cup {x}
    BY <1>2, <1>3, <2>1 DEF Range
  <2>2. ASSUME NEW v \in Range(s) PROVE v \in Range(Append(s, x))
    BY <1>2, <1>3 DEF Range
  <2>3. x \in Range(Append(s, x))
    BY <1>2, <1>3 DEF Range
  <2> QED BY <2>1, <2>2, <2>3
<1>5. Append(s, x) \in Seq(Range(Append(s, x)))
  BY <1>2, <1>4 DEF V
<1> QED
  BY <1>2, <1>4, <1>5 DEF IsSeq

\* While there are two nodes to hash, a climb goes up a level; at the root it rests.
LEMMA ClimbIs ==
  ASSUME NEW s, Climbing(s)
  PROVE  /\ Climbing(Climb(s))
         /\ \/ Len(s.nodes) = 1 /\ Climb(s) = s
            \/ Len(s.nodes) > 1 /\ \E x : Above(s, Climb(s), x)
<1>1. Len(s.nodes) \in Nat \ {0} /\ s.pos \in Nat /\ s.pos < Len(s.nodes)
  BY DEF Climbing, IsSeq
<1>2. CASE Len(s.nodes) = 1
  BY <1>2 DEF Climb
<1>3. CASE Len(s.nodes) > 1
  <2> DEFINE buddy == IF s.pos % 2 = 0 THEN s.pos + 1 ELSE s.pos - 1
             x == s.nodes[IF buddy < Len(s.nodes) THEN buddy + 1 ELSE s.pos + 1]
             h == (Len(s.nodes) + 1) \div 2
             p == s.pos \div 2
  <2>1. Climb(s) = [nodes |-> Level(s.nodes), pos |-> p, branch |-> Append(s.branch, x)]
    <3>1. Len(s.nodes) # 1
      <4>1. \A n \in Nat \ {0} : n > 1 => n # 1
        OBVIOUS
      <4> QED BY <1>1, <1>3, <4>1
    <3> QED BY <3>1 DEF Climb
  <2>2. p \in 0..(h - 1) /\ p + 1 \in 1..h /\ h \in Nat \ {0}
    <3>1. \A n, q \in Nat : q < n => /\ q \div 2 \in 0..((n + 1) \div 2 - 1)
                                    /\ q \div 2 + 1 \in 1..((n + 1) \div 2)
                                    /\ (n + 1) \div 2 \in Nat \ {0}
      OBVIOUS
    <3> QED BY <1>1, <3>1
  <2>3. Level(s.nodes)[p + 1] = <<s.nodes[2 * (p + 1) - 1],
          s.nodes[IF 2 * (p + 1) <= Len(s.nodes) THEN 2 * (p + 1) ELSE 2 * (p + 1) - 1]>>
    BY <2>2, LevelIs DEF Climbing
  <2>4. ASSUME s.pos % 2 = 0 PROVE Level(s.nodes)[p + 1] = <<s.nodes[s.pos + 1], x>>
    <3>1. 2 * (p + 1) - 1 = s.pos + 1 /\ 2 * (p + 1) = s.pos + 2
      BY <1>1, <2>4
    <3>2. Level(s.nodes)[p + 1] = <<s.nodes[s.pos + 1], x>>
      <4>1. buddy = s.pos + 1
        BY <2>4
      <4>2. (IF 2 * (p + 1) <= Len(s.nodes) THEN 2 * (p + 1) ELSE 2 * (p + 1) - 1)
            = (IF buddy < Len(s.nodes) THEN buddy + 1 ELSE s.pos + 1)
        BY <1>1, <3>1, <4>1
      <4> QED BY <2>3, <3>1, <4>2
    <3> QED BY <3>2
  <2>5. ASSUME s.pos % 2 # 0 PROVE Level(s.nodes)[p + 1] = <<x, s.nodes[s.pos + 1]>>
    <3>1. 2 * (p + 1) - 1 = s.pos /\ 2 * (p + 1) = s.pos + 1
      BY <1>1, <2>5
    <3>2. Level(s.nodes)[p + 1] = <<x, s.nodes[s.pos + 1]>>
      <4>1. buddy = s.pos - 1 /\ buddy < Len(s.nodes) /\ buddy + 1 = s.pos
        BY <1>1, <2>5
      <4>2. x = s.nodes[s.pos]
        BY <4>1
      <4>3. 2 * (p + 1) <= Len(s.nodes)
        BY <1>1, <3>1
      <4> HIDE DEF p, x
      <4> QED BY <2>3, <3>1, <4>2, <4>3
    <3> QED BY <3>2
  <2>6. Level(s.nodes)[p + 1] = IF s.pos % 2 = 0 THEN <<s.nodes[s.pos + 1], x>>
                                ELSE <<x, s.nodes[s.pos + 1]>>
    <3> HIDE DEF p, x
    <3> QED BY <2>4, <2>5
  <2>7. IsSeq(Level(s.nodes)) /\ Level(s.nodes) # <<>> /\ Len(Level(s.nodes)) = h
    BY LevelIs DEF Climbing
  <2>8. IsSeq(Append(s.branch, x))
    <3> HIDE DEF x
    <3> QED BY AppendIsSeq DEF Climbing
  <2>9. Above(s, Climb(s), x)
    <3> HIDE DEF x
    <3>1. /\ Climb(s).nodes = Level(s.nodes) /\ Climb(s).pos = p
          /\ Climb(s).branch = Append(s.branch, x)
      BY <2>1
    <3> QED BY <2>6, <2>7, <3>1 DEF Above
  <2>10. Climbing(Climb(s))
    <3> HIDE DEF x, h, p
    <3> QED BY <2>1, <2>2, <2>7, <2>8 DEF Climbing
  <2> QED BY <1>3, <2>9, <2>10
<1>4. Len(s.nodes) = 1 \/ Len(s.nodes) > 1
  <2>1. \A n \in Nat \ {0} : n = 1 \/ n > 1
    OBVIOUS
  <2> QED BY <1>1, <2>1
<1> QED BY <1>2, <1>3, <1>4

\* All the way up there are nodes to climb.
LEMMA PathClimbs ==
  ASSUME NEW txs, IsSeq(txs), txs # <<>>, NEW pos \in 0..(Len(txs) - 1)
  PROVE  \A n \in 0..Len(txs) : Climbing(Climbs(txs, pos)[n])
<1> DEFINE s == Climbs(txs, pos)
           T == {n \in Nat : n <= Len(txs) => Climbing(s[n])}
<1>1. Len(txs) \in Nat
  BY DEF IsSeq
<1>2. 0 \in T
  <2>1. s[0] = [nodes |-> txs, pos |-> pos, branch |-> <<>>]
    BY <1>1, ClimbsUp
  <2>2. IsSeq(<<>>)
    BY DEF IsSeq
  <2> QED BY <2>1, <2>2 DEF Climbing
<1>3. ASSUME NEW n \in Nat, n \in T PROVE n + 1 \in T
  <2> SUFFICES ASSUME n + 1 <= Len(txs) PROVE Climbing(s[n + 1])
    OBVIOUS
  <2>1. s[n + 1] = Climb(s[n])
    <3>1. n \in 0..(Len(txs) - 1)
      BY <1>1
    <3> QED BY <1>1, <3>1, ClimbsUp
  <2>2. Climbing(s[n])
    BY <1>1, <1>3
  <2> HIDE DEF s
  <2> QED BY <2>1, <2>2, ClimbIs
<1>4. \A n \in Nat : n \in T
  <2> HIDE DEF T
  <2> QED BY <1>2, <1>3, Induction
<1> QED BY <1>1, <1>4

\* The nodes of a level do not depend on where the climb began.
LEMMA NodesAreShared ==
  ASSUME NEW txs, IsSeq(txs), txs # <<>>,
         NEW pos \in 0..(Len(txs) - 1), NEW q \in 0..(Len(txs) - 1)
  PROVE  \A n \in 0..Len(txs) : Climbs(txs, pos)[n].nodes = Climbs(txs, q)[n].nodes
<1> DEFINE s == Climbs(txs, pos)
           r == Climbs(txs, q)
           T == {n \in Nat : n <= Len(txs) => s[n].nodes = r[n].nodes}
<1>1. Len(txs) \in Nat
  BY DEF IsSeq
<1>2. 0 \in T
  <2>1. s[0] = [nodes |-> txs, pos |-> pos, branch |-> <<>>]
        /\ r[0] = [nodes |-> txs, pos |-> q, branch |-> <<>>]
    BY <1>1, ClimbsUp
  <2> QED BY <2>1
<1>3. ASSUME NEW n \in Nat, n \in T PROVE n + 1 \in T
  <2> SUFFICES ASSUME n + 1 <= Len(txs) PROVE s[n + 1].nodes = r[n + 1].nodes
    OBVIOUS
  <2>1. n \in 0..(Len(txs) - 1) /\ n \in 0..Len(txs)
    BY <1>1
  <2>2. s[n + 1] = Climb(s[n]) /\ r[n + 1] = Climb(r[n])
    BY <1>1, <2>1, ClimbsUp
  <2>3. Climbing(s[n]) /\ Climbing(r[n]) /\ s[n].nodes = r[n].nodes
    BY <1>1, <1>3, <2>1, PathClimbs
  <2> HIDE DEF s, r
  <2>4. \/ Len(s[n].nodes) = 1 /\ Climb(s[n]) = s[n]
        \/ Len(s[n].nodes) > 1 /\ Climb(s[n]).nodes = Level(s[n].nodes)
    BY <2>3, ClimbIs DEF Above
  <2>5. \/ Len(r[n].nodes) = 1 /\ Climb(r[n]) = r[n]
        \/ Len(r[n].nodes) > 1 /\ Climb(r[n]).nodes = Level(r[n].nodes)
    BY <2>3, ClimbIs DEF Above
  <2>6. ~(1 > 1)
    OBVIOUS
  <2> QED BY <2>2, <2>3, <2>4, <2>5, <2>6
<1>4. \A n \in Nat : n \in T
  <2> HIDE DEF T
  <2> QED BY <1>2, <1>3, Induction
<1> QED BY <1>1, <1>4

\* At the top there is one node, and the way up is no longer than the tree is deep.
LEMMA PathEnds ==
  ASSUME NEW txs, IsSeq(txs), txs # <<>>, NEW pos \in 0..(Len(txs) - 1)
  PROVE  /\ Len(Path(txs, pos).nodes) = 1 /\ Path(txs, pos).pos = 0
         /\ Path(txs, pos).nodes[1] = MerkleRoot(txs)
<1> DEFINE s == Climbs(txs, pos)
           T == {n \in Nat : n <= Len(txs) =>
                   Len(s[n].nodes) = 1 \/ Len(s[n].nodes) <= Len(txs) - n}
<1>1. Len(txs) \in Nat /\ Len(txs) >= 1 /\ 0 \in 0..(Len(txs) - 1)
  BY DEF IsSeq
<1>2. 0 \in T
  <2>1. s[0] = [nodes |-> txs, pos |-> pos, branch |-> <<>>]
    BY <1>1, ClimbsUp
  <2> QED BY <1>1, <2>1
<1>3. ASSUME NEW n \in Nat, n \in T PROVE n + 1 \in T
  <2> SUFFICES ASSUME n + 1 <= Len(txs)
               PROVE  Len(s[n + 1].nodes) = 1 \/ Len(s[n + 1].nodes) <= Len(txs) - (n + 1)
    OBVIOUS
  <2>1. n \in 0..(Len(txs) - 1) /\ n \in 0..Len(txs)
    BY <1>1
  <2>2. s[n + 1] = Climb(s[n])
    BY <1>1, <2>1, ClimbsUp
  <2>3. Climbing(s[n])
    BY <1>1, <2>1, PathClimbs
  <2>4. Len(s[n].nodes) = 1 \/ Len(s[n].nodes) <= Len(txs) - n
    BY <1>1, <1>3
  <2> HIDE DEF s
  <2>5. Len(s[n].nodes) \in Nat
    BY <2>3 DEF Climbing, IsSeq
  <2>6. CASE Len(s[n].nodes) = 1 /\ Climb(s[n]) = s[n]
    BY <2>2, <2>6
  <2>7. CASE Len(s[n].nodes) > 1 /\ Len(Climb(s[n]).nodes) = (Len(s[n].nodes) + 1) \div 2
    <3>1. \A k, m \in Nat : k > 1 /\ k <= m => (k + 1) \div 2 <= m - 1
      OBVIOUS
    <3>2. Len(txs) - n \in Nat /\ Len(s[n].nodes) <= Len(txs) - n
      <4>1. Len(txs) - n \in Nat
        BY <1>1, <2>1
      <4>2. Len(s[n].nodes) # 1
        <5>1. \A k \in Nat : k > 1 => k # 1
          OBVIOUS
        <5> QED BY <2>5, <2>7, <5>1
      <4> QED BY <2>4, <4>1, <4>2
    <3>3. (Len(s[n].nodes) + 1) \div 2 <= (Len(txs) - n) - 1
      BY <2>5, <2>7, <3>1, <3>2
    <3>4. (Len(txs) - n) - 1 = Len(txs) - (n + 1)
      BY <1>1
    <3> QED BY <2>2, <2>7, <3>3, <3>4
  <2> QED BY <2>3, <2>6, <2>7, ClimbIs DEF Above
<1>4. \A n \in Nat : n \in T
  <2> HIDE DEF T
  <2> QED BY <1>2, <1>3, Induction
<1>5. Climbing(Path(txs, pos)) /\ Climbing(Path(txs, 0))
  <2>1. Len(txs) \in 0..Len(txs)
    BY <1>1
  <2> QED BY <1>1, <2>1, PathClimbs DEF Path
<1>6. Len(Path(txs, pos).nodes) = 1 \/ Len(Path(txs, pos).nodes) <= 0
  BY <1>1, <1>4 DEF Path
<1>7. Len(Path(txs, pos).nodes) = 1 /\ Path(txs, pos).pos = 0
  <2>1. Len(Path(txs, pos).nodes) \in Nat \ {0}
        /\ Path(txs, pos).pos \in 0..(Len(Path(txs, pos).nodes) - 1)
    BY <1>5 DEF Climbing, IsSeq
  <2>2. \A k \in Nat \ {0} : k = 1 \/ k <= 0 => k = 1
    OBVIOUS
  <2>3. Len(Path(txs, pos).nodes) = 1
    BY <1>6, <2>1, <2>2
  <2> QED BY <2>1, <2>3
<1>8. Path(txs, pos).nodes = Path(txs, 0).nodes
  BY <1>1, NodesAreShared DEF Path
<1> QED
  BY <1>7, <1>8 DEF MerkleRoot

\* A tree of 2^depth leaves has branches of at most depth siblings.
LEMMA PathIsShort ==
  ASSUME NEW txs, IsSeq(txs), txs # <<>>, NEW pos \in 0..(Len(txs) - 1),
         NEW depth \in Nat, Len(txs) <= Power(2, depth)
  PROVE  Len(Path(txs, pos).branch) <= depth
<1> DEFINE s == Climbs(txs, pos)
           T == {n \in Nat : n <= Len(txs) =>
                   /\ Len(s[n].branch) <= depth
                   /\ Len(s[n].nodes) <= Power(2, depth - Len(s[n].branch))}
<1>1. Len(txs) \in Nat /\ Len(txs) >= 1
  BY DEF IsSeq
<1>2. 0 \in T
  <2>1. s[0] = [nodes |-> txs, pos |-> pos, branch |-> <<>>]
    BY <1>1, ClimbsUp
  <2>2. depth - Len(<<>>) = depth /\ Len(<<>>) = 0
    OBVIOUS
  <2> QED BY <1>1, <2>1, <2>2
<1>3. ASSUME NEW n \in Nat, n \in T PROVE n + 1 \in T
  <2> SUFFICES ASSUME n + 1 <= Len(txs)
               PROVE  /\ Len(s[n + 1].branch) <= depth
                      /\ Len(s[n + 1].nodes) <= Power(2, depth - Len(s[n + 1].branch))
    OBVIOUS
  <2>1. n \in 0..(Len(txs) - 1) /\ n \in 0..Len(txs)
    BY <1>1
  <2>2. s[n + 1] = Climb(s[n])
    BY <1>1, <2>1, ClimbsUp
  <2>3. Climbing(s[n])
    BY <1>1, <2>1, PathClimbs
  <2>4. Len(s[n].branch) <= depth /\ Len(s[n].nodes) <= Power(2, depth - Len(s[n].branch))
    BY <1>1, <1>3
  <2> HIDE DEF s
  <2>5. Len(s[n].nodes) \in Nat /\ Len(s[n].branch) \in Nat /\ IsSeq(s[n].branch)
    BY <2>3 DEF Climbing, IsSeq
  <2>6. CASE Len(s[n].nodes) = 1 /\ Climb(s[n]) = s[n]
    BY <2>2, <2>4, <2>6
  <2>7. CASE Len(s[n].nodes) > 1 /\ \E x : Above(s[n], Climb(s[n]), x)
    <3>1. PICK x : Above(s[n], Climb(s[n]), x)
      BY <2>7
    <3>2. Len(s[n + 1].branch) = Len(s[n].branch) + 1
          /\ Len(s[n + 1].nodes) = (Len(s[n].nodes) + 1) \div 2
      BY <2>2, <2>5, <3>1, AppendIsSeq DEF Above
    <3> DEFINE k == depth - Len(s[n].branch)
    <3>3. k \in Nat
      BY <2>4, <2>5
    <3>4. k # 0
      <4>1. SUFFICES ASSUME k = 0 PROVE FALSE
        OBVIOUS
      <4>2. Len(s[n].nodes) <= Power(2, 0)
        BY <2>4, <4>1
      <4> QED BY <2>5, <2>7, <4>2, Powers
    <3>5. k - 1 \in Nat /\ Power(2, k) = 2 * Power(2, k - 1)
      <4>1. k - 1 \in Nat /\ (k - 1) + 1 = k
        BY <3>3, <3>4
      <4> HIDE DEF k
      <4> QED BY <4>1, Powers
    <3>6. Power(2, k - 1) \in Nat
      <4> HIDE DEF k
      <4> QED BY <3>5, PowerPositive
    <3>7. \A a, b \in Nat : a <= 2 * b => (a + 1) \div 2 <= b
      OBVIOUS
    <3>8. (Len(s[n].nodes) + 1) \div 2 <= Power(2, k - 1)
      BY <2>4, <2>5, <3>5, <3>6, <3>7
    <3>9. depth - Len(s[n + 1].branch) = k - 1
      BY <2>5, <3>2
    <3>10. Len(s[n + 1].branch) <= depth
      BY <2>5, <3>2, <3>5
    <3> HIDE DEF k
    <3> QED BY <3>2, <3>8, <3>9, <3>10
  <2> QED BY <2>3, <2>6, <2>7, ClimbIs
<1>4. \A n \in Nat : n \in T
  <2> HIDE DEF T
  <2> QED BY <1>2, <1>3, Induction
<1> QED BY <1>1, <1>4 DEF Path

\* One sibling more is one step more.
LEMMA HashUpAppend ==
  ASSUME NEW txid, NEW branch, IsSeq(branch), NEW x, NEW index
  PROVE  HashUp(txid, Append(branch, x), index)[Len(branch) + 1]
           = Hashed(HashUp(txid, branch, index)[Len(branch)], x)
<1> DEFINE long == Append(branch, x)
           up == HashUp(txid, branch, index)
           more == HashUp(txid, long, index)
           T == {n \in Nat : n <= Len(branch) => more[n] = up[n]}
<1>1. Len(branch) \in Nat /\ Len(long) = Len(branch) + 1
      /\ long[Len(branch) + 1] = x /\ \A n \in 1..Len(branch) : long[n] = branch[n]
  BY AppendIsSeq, AppendProperties DEF IsSeq
<1>2. /\ up[0] = [node |-> txid, index |-> index]
      /\ \A n \in 0..(Len(branch) - 1) : up[n + 1] = Hashed(up[n], branch[n + 1])
  BY <1>1, HashUps
<1>3. /\ more[0] = [node |-> txid, index |-> index]
      /\ \A n \in 0..Len(branch) : more[n + 1] = Hashed(more[n], long[n + 1])
  <2>1. Len(long) \in Nat /\ Len(long) - 1 = Len(branch)
    BY <1>1
  <2> HIDE DEF long
  <2> QED BY <2>1, HashUps
<1> HIDE DEF long, up, more
<1>4. 0 \in T
  BY <1>2, <1>3
<1>5. ASSUME NEW n \in Nat, n \in T PROVE n + 1 \in T
  <2> SUFFICES ASSUME n + 1 <= Len(branch) PROVE more[n + 1] = up[n + 1]
    OBVIOUS
  <2>1. n \in 0..(Len(branch) - 1) /\ n \in 0..Len(branch) /\ n + 1 \in 1..Len(branch)
    BY <1>1
  <2>2. more[n] = up[n]
    BY <1>1, <1>5
  <2> QED BY <1>1, <1>2, <1>3, <2>1, <2>2
<1>6. \A n \in Nat : n \in T
  <2> HIDE DEF T
  <2> QED BY <1>4, <1>5, Induction
<1>7. more[Len(branch)] = up[Len(branch)]
  BY <1>1, <1>6
<1>8. more[Len(branch) + 1] = Hashed(more[Len(branch)], x)
  BY <1>1, <1>3
<1> QED
  BY <1>7, <1>8 DEF more, up, long

\* A branch the node gives leads from its leaf to the root of the block.
LEMMA BranchLeadsToRoot ==
  ASSUME NEW txs, IsSeq(txs), txs # <<>>, NEW pos \in 0..(Len(txs) - 1)
  PROVE  ComputeMerkleRoot(txs[pos + 1], Path(txs, pos).branch, pos) = MerkleRoot(txs)
<1> DEFINE s == Climbs(txs, pos)
           t == txs[pos + 1]
           Reached(n) == HashUp(t, s[n].branch, pos)[Len(s[n].branch)]
           T == {n \in Nat : n <= Len(txs) =>
                   Reached(n) = [node |-> s[n].nodes[s[n].pos + 1], index |-> s[n].pos]}
<1>1. Len(txs) \in Nat
  BY DEF IsSeq
<1>2. 0 \in T
  <2>1. s[0] = [nodes |-> txs, pos |-> pos, branch |-> <<>>]
    BY <1>1, ClimbsUp
  <2>2. HashUp(t, <<>>, pos)[0] = [node |-> t, index |-> pos]
    BY HashUps
  <2>3. Len(<<>>) = 0
    OBVIOUS
  <2> QED BY <2>1, <2>2, <2>3
<1>3. ASSUME NEW n \in Nat, n \in T PROVE n + 1 \in T
  <2> SUFFICES ASSUME n + 1 <= Len(txs)
               PROVE  Reached(n + 1)
                        = [node |-> s[n + 1].nodes[s[n + 1].pos + 1], index |-> s[n + 1].pos]
    OBVIOUS
  <2>1. n \in 0..(Len(txs) - 1) /\ n \in 0..Len(txs)
    BY <1>1
  <2>2. s[n + 1] = Climb(s[n])
    BY <1>1, <2>1, ClimbsUp
  <2>3. Climbing(s[n])
    BY <1>1, <2>1, PathClimbs
  <2>4. Reached(n) = [node |-> s[n].nodes[s[n].pos + 1], index |-> s[n].pos]
    BY <1>1, <1>3
  <2> HIDE DEF s, t
  <2>5. CASE Climb(s[n]) = s[n]
    BY <2>2, <2>4, <2>5
  <2>6. CASE \E x : Above(s[n], Climb(s[n]), x)
    <3>1. PICK x : Above(s[n], Climb(s[n]), x)
      BY <2>6
    <3>2. s[n + 1].branch = Append(s[n].branch, x) /\ Len(s[n + 1].branch) = Len(s[n].branch) + 1
      BY <2>2, <2>3, <3>1, AppendIsSeq DEF Above, Climbing
    <3>3. Reached(n + 1) = Hashed(Reached(n), x)
      BY <2>3, <3>2, HashUpAppend DEF Climbing
    <3>4. Hashed(Reached(n), x)
          = [node |-> s[n + 1].nodes[s[n + 1].pos + 1], index |-> s[n + 1].pos]
      BY <2>2, <2>4, <3>1 DEF Hashed, Above
    <3> QED BY <3>3, <3>4
  <2> QED BY <2>3, <2>5, <2>6, ClimbIs
<1>4. \A n \in Nat : n \in T
  <2> HIDE DEF T
  <2> QED BY <1>2, <1>3, Induction
<1>5. Reached(Len(txs)).node = s[Len(txs)].nodes[s[Len(txs)].pos + 1]
  <2>1. Len(txs) \in T /\ Len(txs) <= Len(txs)
    BY <1>1, <1>4
  <2>2. Reached(Len(txs)) = [node |-> s[Len(txs)].nodes[s[Len(txs)].pos + 1],
                             index |-> s[Len(txs)].pos]
    BY <2>1
  <2> HIDE DEF Reached
  <2> QED BY <2>2
<1>6. s[Len(txs)].pos = 0 /\ s[Len(txs)].nodes[1] = MerkleRoot(txs)
  BY PathEnds DEF Path
<1> QED
  BY <1>5, <1>6 DEF ComputeMerkleRoot, Path

\* The hash of two nodes is no transaction.
NoNodeIsALeaf == \A t \in Leaves : \A x, y : t # <<x, y>>

\* A branch that leads to the root of a block began at a transaction of it.
LEMMA RootHasLeaf ==
  ASSUME NoNodeIsALeaf,
         NEW txs, IsSeq(txs), txs # <<>>, Range(txs) \subseteq Leaves,
         NEW t \in Leaves, NEW branch, Len(branch) \in Nat, NEW index,
         ComputeMerkleRoot(t, branch, index) = MerkleRoot(txs)
  PROVE  t \in Range(txs)
<1> DEFINE s == Climbs(txs, 0)
           up == HashUp(t, branch, index)
           T == {n \in Nat : n <= Len(txs) =>
                   \A d \in 0..Len(branch) : up[d].node \in Range(s[n].nodes) => t \in Range(txs)}
<1>1. Len(txs) \in Nat /\ 0 \in 0..(Len(txs) - 1)
  BY DEF IsSeq
<1>2. /\ up[0] = [node |-> t, index |-> index]
      /\ \A d \in 0..(Len(branch) - 1) : up[d + 1] = Hashed(up[d], branch[d + 1])
  BY HashUps
<1>3. \A d \in 1..Len(branch) : \E x, y : /\ up[d].node = <<x, y>>
                                        /\ up[d - 1].node \in {x, y}
  <2> TAKE d \in 1..Len(branch)
  <2>1. d - 1 \in 0..(Len(branch) - 1) /\ (d - 1) + 1 = d
    OBVIOUS
  <2>2. up[d] = Hashed(up[d - 1], branch[d])
    BY <1>2, <2>1
  <2> HIDE DEF up
  <2>3. up[d].node = IF up[d - 1].index % 2 = 0 THEN <<up[d - 1].node, branch[d]>>
                     ELSE <<branch[d], up[d - 1].node>>
    BY <2>2 DEF Hashed
  <2> QED BY <2>3
<1>4. 0 \in T
  <2>1. s[0] = [nodes |-> txs, pos |-> 0, branch |-> <<>>]
    BY <1>1, ClimbsUp
  <2> HIDE DEF s, up
  <2>2. ASSUME NEW d \in 0..Len(branch), up[d].node \in Range(txs) PROVE t \in Range(txs)
    <3>1. CASE d = 0
      BY <1>2, <2>2, <3>1
    <3>2. CASE d # 0
      <4>1. d \in 1..Len(branch)
        BY <3>2
      <4> QED BY <1>3, <2>2, <4>1 DEF NoNodeIsALeaf
    <3> QED BY <3>1, <3>2
  <2> QED BY <2>1, <2>2
<1>5. ASSUME NEW n \in Nat, n \in T PROVE n + 1 \in T
  <2> SUFFICES ASSUME n + 1 <= Len(txs), NEW d \in 0..Len(branch),
                      up[d].node \in Range(s[n + 1].nodes)
               PROVE  t \in Range(txs)
    OBVIOUS
  <2>1. n \in 0..(Len(txs) - 1) /\ n \in 0..Len(txs)
    BY <1>1
  <2>2. s[n + 1] = Climb(s[n])
    BY <1>1, <2>1, ClimbsUp
  <2>3. Climbing(s[n])
    BY <1>1, <2>1, PathClimbs
  <2>4. \A e \in 0..Len(branch) : up[e].node \in Range(s[n].nodes) => t \in Range(txs)
    BY <1>1, <1>5
  <2> HIDE DEF s, up
  <2>5. CASE Climb(s[n]) = s[n]
    BY <2>2, <2>4, <2>5
  <2>6. CASE \E x : Above(s[n], Climb(s[n]), x)
    <3>1. s[n + 1].nodes = Level(s[n].nodes)
      BY <2>2, <2>6 DEF Above
    <3>2. PICK y, z \in Range(s[n].nodes) : up[d].node = <<y, z>>
      BY <2>3, <3>1, LevelIs DEF Climbing
    <3>3. d # 0
      BY <1>2, <3>2 DEF NoNodeIsALeaf
    <3>4. d \in 1..Len(branch) /\ d - 1 \in 0..Len(branch)
      BY <3>3
    <3>5. PICK v, w : up[d].node = <<v, w>> /\ up[d - 1].node \in {v, w}
      BY <1>3, <3>4
    <3>6. v = y /\ w = z
      BY <3>2, <3>5
    <3>7. up[d - 1].node \in Range(s[n].nodes)
      BY <3>2, <3>5, <3>6
    <3> QED BY <2>4, <3>4, <3>7
  <2> QED BY <2>3, <2>5, <2>6, ClimbIs
<1>6. \A n \in Nat : n \in T
  <2> HIDE DEF T
  <2> QED BY <1>4, <1>5, Induction
<1>7. up[Len(branch)].node \in Range(s[Len(txs)].nodes)
  <2>1. Climbing(s[Len(txs)])
    BY <1>1, PathClimbs
  <2>2. up[Len(branch)].node = s[Len(txs)].nodes[1]
    BY DEF ComputeMerkleRoot, MerkleRoot, Path
  <2> HIDE DEF s, up
  <2>3. s[Len(txs)].nodes[1] \in Range(s[Len(txs)].nodes)
    <3>1. 1 \in DOMAIN s[Len(txs)].nodes
      BY <2>1 DEF Climbing, IsSeq
    <3> QED BY <3>1 DEF Range
  <2> QED BY <2>2, <2>3
<1> QED
  BY <1>1, <1>6, <1>7

-----------------------------------------------------------------------------
(***************************************************************************)
(* Blocks, their difficulty and their transactions                         *)
(***************************************************************************)

\* The compact form of a target.
Compact == [size : Nat, mantissa : Nat]

\* The transactions of a block: some, and no more than its tree may have.
IsListing(txs) ==
  /\ IsSeq(txs) /\ txs # <<>> /\ Range(txs) \subseteq Leaves
  /\ Len(txs) <= Power(2, MaxMerkleDepth)

\* What the network asks of the i-th block.
OwedBits(c, i) ==
  IF (i - 1) % Interval # 0 THEN c[i - 1].bits
  ELSE ExpectedRetargetBits(c[i - 1].bits, c[i - 1].time, c[i - Interval].time)

\* The i-th block names its height, under a fork the chain has seen.
IsBlock(c, f, i) ==
  /\ c[i].id = <<c[i].id[1], i - 1>> /\ c[i].id[1] \in 0..f
  /\ c[i].bits \in Compact /\ c[i].time \in Nat
  /\ IsListing(c[i].txs)

\* The i-th block names the one before, and states the difficulty owed.
Follows(c, i) == c[i].prev = c[i - 1].id /\ c[i].bits = OwedBits(c, i)

\* No transaction is mined twice.
MinedOnce(c) ==
  \A t \in Txs : \A i, j \in DOMAIN c :
    t \in Range(c[i].txs) /\ t \in Range(c[j].txs) => i = j

\* A chain after f reorganisations.
IsChain(c, f) ==
  /\ IsSeq(c) /\ c # <<>> /\ Len(c) <= MaxHeight + 1
  /\ c[1].id = <<0, 0>>
  /\ \A i \in DOMAIN c : IsBlock(c, f, i)
  /\ \A i \in 2..Len(c) : Follows(c, i)
  /\ MinedOnce(c)

\* The transaction has k confirmations.
Deeper(c, t, k) == \E i \in DOMAIN c : t \in Range(c[i].txs) /\ Len(c) + 1 - i >= k

\* The length and the elements of a sequence.
LEMMA SeqLen ==
  ASSUME NEW s, IsSeq(s)
  PROVE  /\ Len(s) \in Nat /\ DOMAIN s = 1..Len(s)
         /\ s # <<>> <=> Len(s) >= 1
         /\ \A i \in 1..Len(s) : s[i] \in Range(s)
<1>1. Len(s) \in Nat /\ DOMAIN s = 1..Len(s)
  BY DEF IsSeq
<1>2. s # <<>> <=> Len(s) >= 1
  BY DEF IsSeq
<1>3. \A i \in 1..Len(s) : s[i] \in Range(s)
  BY <1>1 DEF Range
<1> QED BY <1>1, <1>2, <1>3

\* A finite set has a sequence of its elements, as long as it has.
LEMMA SetToSeqIs ==
  ASSUME NEW S, IsFiniteSet(S)
  PROVE  IsSeq(SetToSeq(S)) /\ Range(SetToSeq(S)) = S /\ Len(SetToSeq(S)) = Cardinality(S)
<1> DEFINE n == Cardinality(S)
<1>1. n \in Nat /\ ExistsBijection(1..n, S)
  BY FS_CardinalityType
<1> HIDE DEF n
<1>2. \E f \in [1..n -> S] : IsInjective(f)
  BY <1>1 DEF ExistsBijection, Bijection, Injection, IsInjective
<1>3. SetToSeq(S) \in [1..n -> S] /\ IsInjective(SetToSeq(S))
  BY <1>2 DEF SetToSeq, n
<1>4. SetToSeq(S) \in Injection(1..n, S)
  BY <1>3 DEF Injection, IsInjective
<1>5. IsFiniteSet(1..n) /\ Cardinality(1..n) = Cardinality(S)
  BY <1>1, FS_Interval DEF n
<1>6. SetToSeq(S) \in Surjection(1..n, S)
  BY <1>4, <1>5, FS_Injection
<1>7. Range(SetToSeq(S)) = S
  BY <1>3, <1>6 DEF Range, Surjection
<1>8. SetToSeq(S) \in Seq(S) /\ Len(SetToSeq(S)) = n
  BY <1>1, <1>3
<1> QED BY <1>7, <1>8 DEF IsSeq, n

\* Two sequences, one after the other.
LEMMA ConcatIs ==
  ASSUME NEW s, IsSeq(s), NEW u, IsSeq(u)
  PROVE  /\ IsSeq(s \o u) /\ Len(s \o u) = Len(s) + Len(u)
         /\ Range(s \o u) = Range(s) \cup Range(u)
<1> DEFINE V == Range(s) \cup Range(u)
<1>1. s \in Seq(V) /\ u \in Seq(V)
  BY DEF IsSeq
<1>2. Len(s) \in Nat /\ Len(u) \in Nat /\ DOMAIN s = 1..Len(s) /\ DOMAIN u = 1..Len(u)
  BY <1>1
<1> HIDE DEF V
<1>3. /\ s \o u \in Seq(V) /\ Len(s \o u) = Len(s) + Len(u)
      /\ \A i \in 1..(Len(s) + Len(u)) : (s \o u)[i] = IF i <= Len(s) THEN s[i] ELSE u[i - Len(s)]
  BY <1>1, ConcatProperties
<1>4. DOMAIN (s \o u) = 1..(Len(s) + Len(u))
  BY <1>3
<1>5. Range(s \o u) = V
  <2>1. ASSUME NEW x \in Range(s \o u) PROVE x \in V
    BY <1>3, <1>4, ElementOfSeq DEF Range
  <2>2. ASSUME NEW x \in Range(s) PROVE x \in Range(s \o u)
    <3>1. PICK i \in 1..Len(s) : x = s[i]
      BY <1>2 DEF Range
    <3>2. i \in 1..(Len(s) + Len(u)) /\ (s \o u)[i] = s[i]
      BY <1>2, <1>3
    <3> QED BY <1>4, <3>1, <3>2 DEF Range
  <2>3. ASSUME NEW x \in Range(u) PROVE x \in Range(s \o u)
    <3>1. PICK i \in 1..Len(u) : x = u[i]
      BY <1>2 DEF Range
    <3>2. /\ i + Len(s) \in 1..(Len(s) + Len(u)) /\ ~(i + Len(s) <= Len(s))
          /\ (i + Len(s)) - Len(s) = i
      BY <1>2
    <3>3. (s \o u)[i + Len(s)] = u[i]
      BY <1>3, <3>2
    <3> QED BY <1>4, <3>1, <3>2, <3>3 DEF Range
  <2> QED BY <2>1, <2>2, <2>3 DEF V
<1> QED BY <1>3, <1>5 DEF IsSeq, V

\* The transactions of a block.
LEMMA ListingIs ==
  ASSUME NEW S \in SUBSET Txs
  PROVE  /\ IsListing(Others \o SetToSeq(S))
         /\ Range(Others \o SetToSeq(S)) \cap Txs = S
<1> DEFINE l == Others \o SetToSeq(S)
<1>1. IsFiniteSet(S) /\ Cardinality(S) <= Cardinality(Txs) /\ Cardinality(S) \in Nat
      /\ Cardinality(Txs) \in Nat
  BY SpvAssumption, FS_Subset, FS_CardinalityType
<1>2. IsSeq(Others) /\ Others # <<>> /\ Len(Others) \in Nat
  BY SpvAssumption DEF IsSeq
<1>3. IsSeq(SetToSeq(S)) /\ Range(SetToSeq(S)) = S /\ Len(SetToSeq(S)) = Cardinality(S)
  BY <1>1, SetToSeqIs
<1>4. IsSeq(l) /\ Range(l) = Range(Others) \cup S /\ Len(l) = Len(Others) + Cardinality(S)
  BY <1>2, <1>3, ConcatIs
<1>5. l # <<>>
  BY <1>1, <1>2, <1>4, SeqLen
<1>6. Len(l) <= Power(2, MaxMerkleDepth)
  <2>1. Power(2, MaxMerkleDepth) \in Nat
    BY HeaderAssumption, PowerPositive
  <2> QED BY <1>1, <1>2, <1>4, <2>1, SpvAssumption
<1>7. Range(l) \subseteq Leaves
  BY <1>4 DEF Leaves
<1>8. Range(l) \cap Txs = S
  BY <1>4, SpvAssumption
<1> QED BY <1>4, <1>5, <1>6, <1>7, <1>8 DEF IsListing

\* A compact form is of a target.
LEMMA TargetIsNat ==
  ASSUME NEW bits \in Compact
  PROVE  TargetFromCompact(bits) \in Nat
<1>1. bits.size \in Nat /\ bits.mantissa \in Nat /\ Radix \in Nat \ {0}
  BY HeaderAssumption DEF Compact
<1>2. CASE bits.size <= 3
  <2>1. Power(Radix, 3 - bits.size) \in Nat \ {0}
    BY <1>1, <1>2, PowerPositive
  <2>2. \A x \in Nat, y \in Nat \ {0} : x \div y \in Nat
    OBVIOUS
  <2>3. TargetFromCompact(bits) = bits.mantissa \div Power(Radix, 3 - bits.size)
    BY <1>2 DEF TargetFromCompact
  <2> QED BY <1>1, <2>1, <2>2, <2>3
<1>3. CASE ~(bits.size <= 3)
  <2>1. Power(Radix, bits.size - 3) \in Nat \ {0}
    BY <1>1, <1>3, PowerPositive
  <2>2. \A x, y \in Nat : x * y \in Nat
    OBVIOUS
  <2>3. TargetFromCompact(bits) = bits.mantissa * Power(Radix, bits.size - 3)
    BY <1>3 DEF TargetFromCompact
  <2> QED BY <1>1, <2>1, <2>2, <2>3
<1> QED BY <1>2, <1>3

\* A target that fits its bytes has a compact form.
LEMMA CompactIs ==
  ASSUME NEW target \in Nat, target < Power(Radix, TargetSize)
  PROVE  CompactFromTarget(target) \in Compact
<1> DEFINE D == {d \in 0..TargetSize : target < Power(Radix, d)}
           size == Digits(target)
           top == IF size <= 3 THEN target * Power(Radix, 3 - size)
                  ELSE target \div Power(Radix, size - 3)
<1>1. Radix \in Nat \ {0} /\ TargetSize \in Nat
  BY HeaderAssumption
<1>2. size \in Nat
  <2>1. D \subseteq Nat /\ D # {}
    BY <1>1
  <2>2. Min(D) \in D
    <3> HIDE DEF D
    <3> QED BY <2>1, MinIsIn
  <2> QED BY <2>1, <2>2 DEF Digits
<1> HIDE DEF size
<1>3. \A x, y \in Nat : x * y \in Nat
  OBVIOUS
<1>4. \A x \in Nat, y \in Nat \ {0} : x \div y \in Nat
  OBVIOUS
<1>5. top \in Nat
  <2>1. CASE size <= 3
    <3>1. Power(Radix, 3 - size) \in Nat \ {0}
      BY <1>1, <1>2, <2>1, PowerPositive
    <3> QED BY <1>3, <2>1, <3>1
  <2>2. CASE ~(size <= 3)
    <3>1. Power(Radix, size - 3) \in Nat \ {0}
      BY <1>1, <1>2, <2>2, PowerPositive
    <3> QED BY <1>4, <2>2, <3>1
  <2> QED BY <2>1, <2>2
<1> HIDE DEF top
<1>6. top \div Radix \in Nat
  BY <1>1, <1>4, <1>5
<1>7. CompactFromTarget(target) =
        IF top < Power(Radix, 3) \div 2 THEN [size |-> size, mantissa |-> top]
        ELSE [size |-> size + 1, mantissa |-> top \div Radix]
  BY DEF CompactFromTarget, top, size
<1> QED BY <1>2, <1>5, <1>6, <1>7 DEF Compact

\* A retarget states a target in compact form.
LEMMA RetargetIs ==
  ASSUME NEW bits \in Compact, NEW last \in Nat, NEW first \in Nat
  PROVE  ExpectedRetargetBits(bits, last, first) \in Compact
<1> DEFINE actual == Clamp(last - first, Timespan \div 4, Timespan * 4)
           target == (TargetFromCompact(bits) * actual) \div Timespan
           limit == TargetFromCompact(PowLimit)
<1>1. Timespan \in Nat \ {0} /\ Timespan \div 4 \in Nat /\ Timespan * 4 \in Nat
  BY HeaderAssumption
<1>2. actual \in Nat
  <2>1. Min({last - first, Timespan * 4}) \in Int
    BY <1>1, MinOfTwo
  <2> QED BY <1>1, <2>1, MaxOfTwo DEF Clamp
<1>3. PowLimit \in Compact
  BY HeaderAssumption DEF Compact
<1>4. limit \in Nat /\ TargetFromCompact(bits) \in Nat
  BY <1>3, TargetIsNat
<1> HIDE DEF actual, limit
<1>5. target \in Nat
  <2>1. \A x, y \in Nat : x * y \in Nat
    OBVIOUS
  <2>2. \A x \in Nat, y \in Nat \ {0} : x \div y \in Nat
    OBVIOUS
  <2>3. TargetFromCompact(bits) * actual \in Nat
    BY <1>2, <1>4, <2>1
  <2> QED BY <1>1, <2>2, <2>3
<1> HIDE DEF target
<1>6. Min({target, limit}) \in Nat /\ Min({target, limit}) <= limit
  BY <1>4, <1>5, MinOfTwo
<1>7. Min({target, limit}) < Power(Radix, TargetSize)
  <2>1. Power(Radix, TargetSize) \in Nat
    BY HeaderAssumption, PowerPositive
  <2>2. limit < Power(Radix, TargetSize)
    BY HeaderAssumption DEF limit
  <2> QED BY <1>4, <1>6, <2>1, <2>2
<1>8. ExpectedRetargetBits(bits, last, first) = CompactFromTarget(Min({target, limit}))
  BY DEF ExpectedRetargetBits, target, limit, actual
<1> QED BY <1>6, <1>7, <1>8, CompactIs

-----------------------------------------------------------------------------
(***************************************************************************)
(* The chain grows, is cut and grows again                                 *)
(***************************************************************************)

\* Which transactions a chain has mined.
LEMMA MinedIs ==
  ASSUME NEW c, NEW t
  PROVE  t \in Mined(c) <=> t \in Txs /\ \E i \in DOMAIN c : t \in Range(c[i].txs)
BY DEF Mined

\* A chain is one of more reorganisations too.
LEMMA LaterForks ==
  ASSUME NEW f \in Nat, NEW g \in Nat, f <= g, NEW c, IsChain(c, f)
  PROVE  IsChain(c, g)
<1>1. ASSUME NEW i \in DOMAIN c PROVE IsBlock(c, g, i)
  <2>1. IsBlock(c, f, i)
    BY DEF IsChain
  <2>2. c[i].id[1] \in 0..g
    BY <2>1 DEF IsBlock
  <2> QED BY <2>1, <2>2 DEF IsBlock
<1> QED BY <1>1 DEF IsChain

\* The bits the network asks of the next block are what the rule of the headers says.
LEMMA OwedIs ==
  ASSUME NEW f \in Nat, NEW c, IsChain(c, f), NEW i \in 2..(Len(c) + 1)
  PROVE  /\ OwedBits(c, i) \in Compact
         /\ (i - 1) % Interval = 0 => i - Interval \in 1..Len(c)
<1>1. Len(c) \in Nat /\ DOMAIN c = 1..Len(c) /\ Len(c) >= 1
  BY SeqLen DEF IsChain
<1>2. i \in Nat /\ i - 1 \in 1..Len(c) /\ i - 1 \in Nat \ {0}
  BY <1>1
<1>3. Interval \in Nat \ {0}
  BY HeaderAssumption
<1>4. \A a \in Nat \ {0}, m \in Nat \ {0} : a % m = 0 => a >= m
  OBVIOUS
<1>5. (i - 1) % Interval = 0 => i - 1 >= Interval
  BY <1>2, <1>3, <1>4
<1>6. (i - 1) % Interval = 0 => i - Interval \in 1..Len(c)
  BY <1>1, <1>2, <1>3, <1>5
<1>7. \A j \in 1..Len(c) : c[j].bits \in Compact /\ c[j].time \in Nat
  BY <1>1 DEF IsChain, IsBlock
<1>8. OwedBits(c, i) \in Compact
  <2>1. CASE (i - 1) % Interval = 0
    <3>1. ExpectedRetargetBits(c[i - 1].bits, c[i - 1].time, c[i - Interval].time) \in Compact
      BY <1>2, <1>6, <1>7, <2>1, RetargetIs
    <3> QED BY <2>1, <3>1 DEF OwedBits
  <2>2. CASE (i - 1) % Interval # 0
    BY <1>2, <1>7, <2>2 DEF OwedBits
  <2> QED BY <2>1, <2>2
<1> QED BY <1>6, <1>8

\* A chain with a block more is a chain, of which the old one is the start.
LEMMA GrowIs ==
  ASSUME NEW f \in Nat, NEW g \in 0..f, NEW c, IsChain(c, f), Len(c) <= MaxHeight,
         NEW S \in SUBSET (Txs \ Mined(c))
  PROVE  /\ IsChain(Grow(c, g, S), f)
         /\ Len(Grow(c, g, S)) = Len(c) + 1
         /\ \A i \in 1..Len(c) : Grow(c, g, S)[i] = c[i]
         /\ Grow(c, g, S)[Len(c) + 1].id = <<g, Len(c)>>
         /\ Mined(Grow(c, g, S)) = Mined(c) \cup S
<1> DEFINE n == Len(c)
           new == [id |-> <<g, n>>, prev |-> c[n].id, bits |-> NetworkBits(c),
                   time |-> Times[n], txs |-> Others \o SetToSeq(S)]
           d == Grow(c, g, S)
<1>1. n \in Nat /\ DOMAIN c = 1..n /\ n >= 1 /\ IsSeq(c)
  BY SeqLen DEF IsChain
<1>2. d = Append(c, new)
  BY DEF Grow
<1>3. /\ new.id = <<g, n>> /\ new.prev = c[n].id /\ new.bits = NetworkBits(c)
      /\ new.time = Times[n] /\ new.txs = Others \o SetToSeq(S)
  OBVIOUS
<1>4. n <= MaxHeight
  OBVIOUS
<1> HIDE DEF new, d
<1>5. /\ IsSeq(d) /\ Len(d) = n + 1 /\ DOMAIN d = 1..(n + 1)
      /\ \A i \in 1..n : d[i] = c[i]
      /\ d[n + 1] = new
  <2>1. IsSeq(d) /\ Len(d) = n + 1
    BY <1>1, <1>2, AppendIsSeq
  <2>2. DOMAIN d = 1..(n + 1)
    BY <1>1, <2>1, SeqLen
  <2>3. c \in Seq(Range(c))
    BY <1>1 DEF IsSeq
  <2>4. \A i \in 1..n : d[i] = c[i]
    BY <1>1, <1>2, <2>3
  <2>5. d[n + 1] = new
    BY <1>1, <1>2, <2>3
  <2> QED BY <2>1, <2>2, <2>4, <2>5
<1> HIDE DEF n
<1>6. /\ IsListing(new.txs) /\ Range(new.txs) \cap Txs = S
  BY <1>3, ListingIs
<1>7. NetworkBits(c) = OwedBits(c, n + 1) /\ NetworkBits(c) \in Compact
  <2>1. n + 1 \in 2..(n + 1) /\ (n + 1) - 1 = n
    BY <1>1
  <2>2. OwedBits(c, n + 1) \in Compact
    BY <2>1, OwedIs DEF n
  <2>3. (n - Interval) + 1 = (n + 1) - Interval
    BY <1>1, HeaderAssumption
  <2>4. NetworkBits(c) = OwedBits(c, n + 1)
    BY <2>1, <2>3 DEF NetworkBits, OwedBits, At, n
  <2> QED BY <2>2, <2>4
<1>8. Times[n] \in Nat
  BY <1>1, <1>4, SpvAssumption
<1>9. ASSUME NEW i \in 1..(n + 1) PROVE IsBlock(d, f, i)
  <2>1. CASE i \in 1..n
    <3>1. IsBlock(c, f, i) /\ d[i] = c[i]
      BY <1>1, <1>5, <2>1 DEF IsChain
    <3> QED BY <3>1 DEF IsBlock
  <2>2. CASE i = n + 1
    <3>1. i - 1 = n /\ d[i] = new
      BY <1>1, <1>5, <2>2
    <3>2. d[i].id = <<g, i - 1>> /\ <<g, i - 1>>[1] = g
      BY <1>3, <3>1
    <3>3. d[i].id = <<d[i].id[1], i - 1>> /\ d[i].id[1] \in 0..f
      BY <3>2
    <3> QED BY <1>3, <1>6, <1>7, <1>8, <3>1, <3>3 DEF IsBlock
  <2> QED BY <1>1, <2>1, <2>2
<1>10. ASSUME NEW i \in 2..(n + 1) PROVE OwedBits(d, i) = OwedBits(c, i)
  <2>1. i - 1 \in 1..n
    BY <1>1
  <2>2. d[i - 1] = c[i - 1]
    BY <1>5, <2>1
  <2>3. (i - 1) % Interval = 0 => d[i - Interval] = c[i - Interval]
    <3>1. (i - 1) % Interval = 0 => i - Interval \in 1..n
      BY OwedIs DEF n
    <3> QED BY <1>5, <3>1
  <2> QED BY <2>2, <2>3 DEF OwedBits
<1>11. ASSUME NEW i \in 2..(n + 1) PROVE Follows(d, i)
  <2>1. OwedBits(d, i) = OwedBits(c, i) /\ i - 1 \in 1..n /\ d[i - 1] = c[i - 1]
    BY <1>1, <1>5, <1>10
  <2>2. CASE i \in 2..n
    <3>1. Follows(c, i) /\ d[i] = c[i]
      BY <1>1, <1>5, <2>2 DEF IsChain, n
    <3> QED BY <2>1, <3>1 DEF Follows
  <2>3. CASE i = n + 1
    <3>1. d[i] = new /\ i - 1 = n
      BY <1>1, <1>5, <2>3
    <3> QED BY <1>3, <1>7, <2>1, <2>3, <3>1 DEF Follows
  <2> QED BY <1>1, <2>2, <2>3
<1>12. MinedOnce(d)
  <2>1. ASSUME NEW t \in Txs, NEW i \in 1..n, t \in Range(d[i].txs) PROVE t \notin S
    BY <1>1, <1>5, <2>1, MinedIs
  <2>2. ASSUME NEW t \in Txs, NEW i \in DOMAIN d, NEW j \in DOMAIN d,
               t \in Range(d[i].txs), t \in Range(d[j].txs)
        PROVE  i = j
    <3>1. t \in Range(d[n + 1].txs) => t \in S
      BY <1>5, <1>6
    <3>2. CASE i \in 1..n /\ j \in 1..n
      BY <1>1, <1>5, <2>2, <3>2 DEF IsChain, MinedOnce
    <3>3. CASE i = n + 1 /\ j \in 1..n
      BY <2>1, <2>2, <3>1, <3>3
    <3>4. CASE i \in 1..n /\ j = n + 1
      BY <2>1, <2>2, <3>1, <3>4
    <3> QED BY <1>1, <1>5, <3>2, <3>3, <3>4
  <2> QED BY <2>2 DEF MinedOnce
<1>13. IsChain(d, f)
  <2>1. d # <<>> /\ d[1].id = <<0, 0>>
    BY <1>1, <1>5, SeqLen DEF IsChain
  <2>2. Len(d) <= MaxHeight + 1
    BY <1>1, <1>4, <1>5, SpvAssumption
  <2> QED BY <1>5, <1>9, <1>11, <1>12, <2>1, <2>2 DEF IsChain
<1>14. Mined(d) = Mined(c) \cup S
  <2>1. ASSUME NEW t \in Mined(d) PROVE t \in Mined(c) \cup S
    <3>1. PICK i \in DOMAIN d : t \in Range(d[i].txs) /\ t \in Txs
      BY <2>1, MinedIs
    <3>2. CASE i \in 1..n
      BY <1>1, <1>5, <3>1, <3>2, MinedIs
    <3>3. CASE i = n + 1
      BY <1>5, <1>6, <3>1, <3>3
    <3> QED BY <1>1, <1>5, <3>2, <3>3
  <2>2. ASSUME NEW t \in Mined(c) PROVE t \in Mined(d)
    <3>1. PICK i \in DOMAIN c : t \in Range(c[i].txs) /\ t \in Txs
      BY <2>2, MinedIs
    <3>2. i \in DOMAIN d /\ d[i] = c[i]
      BY <1>1, <1>5
    <3> QED BY <3>1, <3>2, MinedIs
  <2>3. ASSUME NEW t \in S PROVE t \in Mined(d)
    <3>1. n + 1 \in DOMAIN d /\ t \in Range(d[n + 1].txs)
      BY <1>1, <1>5, <1>6
    <3> QED BY <3>1, MinedIs
  <2> QED BY <2>1, <2>2, <2>3
<1> QED BY <1>3, <1>5, <1>13, <1>14 DEF d, n

\* A chain without its last blocks is a chain.
LEMMA PrefixIs ==
  ASSUME NEW f \in Nat, NEW c, IsChain(c, f), NEW n \in 1..Len(c)
  PROVE  /\ IsChain(SubSeq(c, 1, n), f) /\ Len(SubSeq(c, 1, n)) = n
         /\ \A i \in 1..n : SubSeq(c, 1, n)[i] = c[i]
<1> DEFINE d == SubSeq(c, 1, n)
<1>1. Len(c) \in Nat /\ DOMAIN c = 1..Len(c) /\ Len(c) >= 1 /\ IsSeq(c)
  BY SeqLen DEF IsChain
<1>2. d = [i \in 1..n |-> c[i]]
  <2>1. c \in Seq(Range(c))
    BY <1>1 DEF IsSeq
  <2> QED BY <1>1, <2>1
<1> HIDE DEF d
<1>3. n \in Nat /\ n >= 1 /\ n <= Len(c)
  BY <1>1
<1>4. IsSeq(d) /\ Len(d) = n /\ DOMAIN d = 1..n
  BY <1>2, <1>3 DEF IsSeq, Range
<1>5. \A i \in 1..n : i \in DOMAIN c /\ d[i] = c[i]
  BY <1>1, <1>2, <1>3
<1>6. ASSUME NEW i \in 1..n PROVE IsBlock(d, f, i)
  <2>1. IsBlock(c, f, i) /\ d[i] = c[i]
    BY <1>5 DEF IsChain
  <2> QED BY <2>1 DEF IsBlock
<1>7. ASSUME NEW i \in 2..n PROVE Follows(d, i)
  <2>1. i \in 2..Len(c) /\ i \in 2..(Len(c) + 1) /\ i - 1 \in 1..n
    BY <1>1, <1>3
  <2>2. Follows(c, i)
    BY <2>1 DEF IsChain
  <2>3. (i - 1) % Interval = 0 => i - Interval \in 1..n
    <3>1. (i - 1) % Interval = 0 => i - Interval \in 1..Len(c)
      BY <2>1, OwedIs
    <3>2. Interval \in Nat \ {0}
      BY HeaderAssumption
    <3> QED BY <1>1, <1>3, <3>1, <3>2
  <2>4. d[i - 1] = c[i - 1] /\ d[i] = c[i]
        /\ ((i - 1) % Interval = 0 => d[i - Interval] = c[i - Interval])
    BY <1>5, <2>1, <2>3
  <2>5. OwedBits(d, i) = OwedBits(c, i)
    BY <2>4 DEF OwedBits
  <2> QED BY <2>2, <2>4, <2>5 DEF Follows
<1>8. MinedOnce(d)
  <2>1. MinedOnce(c)
    BY DEF IsChain
  <2> QED BY <1>4, <1>5, <2>1 DEF MinedOnce
<1>9. d # <<>> /\ Len(d) <= MaxHeight + 1 /\ d[1].id = <<0, 0>>
  <2>1. d # <<>>
    BY <1>3, <1>4, SeqLen
  <2>2. Len(c) <= MaxHeight + 1 /\ c[1].id = <<0, 0>>
    BY DEF IsChain
  <2> QED BY <1>1, <1>3, <1>4, <1>5, <2>1, <2>2, SpvAssumption
<1> QED BY <1>4, <1>5, <1>6, <1>7, <1>8, <1>9 DEF IsChain, d

\* The chain that kept has become: it is the start, and the rest is of the fork.
Regrew(c, kept, g, blocks) ==
  /\ Len(c) = Len(kept) + blocks
  /\ \A i \in 1..Len(kept) : c[i] = kept[i]
  /\ \A i \in (Len(kept) + 1)..Len(c) : c[i].id = <<g, i - 1>>

\* Blocks more, of a fork the chain has seen, make a chain of a chain.
LEMMA RegrownIs ==
  ASSUME NEW f \in Nat, NEW g \in 0..f, NEW kept, IsChain(kept, f), NEW blocks \in Nat,
         Len(kept) + blocks <= MaxHeight + 1,
         NEW place \in [Txs \ Mined(kept) -> 0..blocks]
  PROVE  /\ IsChain(Regrown(kept, g, place, blocks)[blocks], f)
         /\ Regrew(Regrown(kept, g, place, blocks)[blocks], kept, g, blocks)
<1> DEFINE R(n) == Regrown(kept, g, place, blocks)[n]
           k == Len(kept)
           placed(n) == {t \in DOMAIN place : place[t] \in 1..n}
           G(c, n) == /\ IsChain(c, f) /\ Len(c) = k + n
                      /\ \A i \in 1..k : c[i] = kept[i]
                      /\ \A i \in (k + 1)..(k + n) : c[i].id = <<g, i - 1>>
                      /\ Mined(c) = Mined(kept) \cup placed(n)
           T == {n \in Nat : n <= blocks => G(R(n), n)}
<1>1. k \in Nat /\ k >= 1
  BY SeqLen DEF IsChain
<1>2. R(0) = kept
  BY RegrownGrows
<1>3. \A n \in 0..(blocks - 1) : R(n + 1) = Grow(R(n), g, Placed(place, n + 1))
  BY RegrownGrows
<1> HIDE DEF R
<1>4. 0 \in T
  BY <1>1, <1>2
<1>5. ASSUME NEW n \in Nat, n \in T PROVE n + 1 \in T
  <2> SUFFICES ASSUME n + 1 <= blocks PROVE G(R(n + 1), n + 1)
    <3> HIDE DEF G
    <3> QED OBVIOUS
  <2> DEFINE S == Placed(place, n + 1)
             c == R(n)
             d == R(n + 1)
  <2>1. n \in 0..(blocks - 1) /\ n <= blocks
    OBVIOUS
  <2>2. /\ IsChain(c, f) /\ Len(c) = k + n
        /\ \A i \in 1..k : c[i] = kept[i]
        /\ \A i \in (k + 1)..(k + n) : c[i].id = <<g, i - 1>>
        /\ Mined(c) = Mined(kept) \cup placed(n)
    BY <1>5, <2>1
  <2>3. d = Grow(c, g, S)
    BY <1>3, <2>1
  <2> HIDE DEF c, d
  <2>4. S \in SUBSET (Txs \ Mined(c))
    BY <2>2 DEF Placed
  <2>5. Len(c) <= MaxHeight
    BY <1>1, <2>2, SpvAssumption
  <2> HIDE DEF S
  <2>6. /\ IsChain(d, f) /\ Len(d) = Len(c) + 1
        /\ \A i \in 1..Len(c) : d[i] = c[i]
        /\ d[Len(c) + 1].id = <<g, Len(c)>>
        /\ Mined(d) = Mined(c) \cup S
    <3>1. IsChain(c, f)
      BY <2>2
    <3> HIDE DEF G, T, placed
    <3> QED BY <2>3, <2>4, <2>5, <3>1, GrowIs
  <2>7. Len(d) = k + (n + 1)
    BY <1>1, <2>2, <2>6
  <2>8. \A i \in 1..k : d[i] = kept[i]
    BY <1>1, <2>2, <2>6
  <2>9. \A i \in (k + 1)..(k + (n + 1)) : d[i].id = <<g, i - 1>>
    <3> TAKE i \in (k + 1)..(k + (n + 1))
    <3>1. CASE i = k + n + 1
      BY <1>1, <2>2, <2>6, <3>1
    <3>2. CASE i # k + n + 1
      <4>1. i \in (k + 1)..(k + n)
        BY <1>1, <3>2
      <4>2. Len(c) = k + n
        BY <2>2
      <4>3. i \in 1..Len(c)
        BY <1>1, <4>1, <4>2
      <4> QED BY <2>2, <2>6, <4>1, <4>3
    <3> QED BY <3>1, <3>2
  <2>10. placed(n + 1) = placed(n) \cup S
    BY DEF S, Placed
  <2>11. Mined(d) = Mined(kept) \cup placed(n + 1)
    <3> HIDE DEF placed
    <3> QED BY <2>2, <2>6, <2>10
  <2> QED BY <2>6, <2>7, <2>8, <2>9, <2>11 DEF d
<1>6. blocks \in T
  <2> HIDE DEF T
  <2> QED BY <1>4, <1>5, Induction
<1>7. G(R(blocks), blocks)
  BY <1>6
<1> HIDE DEF G
<1>8. R(blocks) = Regrown(kept, g, place, blocks)[blocks]
  BY DEF R
<1> QED BY <1>7, <1>8 DEF G, Regrew

\* The node's answer says how deep a transaction is.
LEMMA ConfirmationsAre ==
  ASSUME NEW f \in Nat, NEW c, IsChain(c, f), NEW t \in Txs
  PROVE  /\ \A k \in Nat \ {0} : Confirmations(c, t) >= k <=> Deeper(c, t, k)
         /\ t \in Mined(c) => /\ HeightIn(c, t) \in 0..Tip(c)
                              /\ t \in Range(c[HeightIn(c, t) + 1].txs)
                              /\ Confirmations(c, t) = Len(c) - HeightIn(c, t)
         /\ Confirmations(c, t) \in Nat
<1> DEFINE h == HeightIn(c, t)
<1>1. Len(c) \in Nat /\ DOMAIN c = 1..Len(c) /\ Len(c) >= 1
  BY SeqLen DEF IsChain
<1>2. ASSUME t \in Mined(c) PROVE h \in 0..Tip(c) /\ t \in Range(c[h + 1].txs)
  <2>1. PICK i \in DOMAIN c : t \in Range(c[i].txs)
    BY <1>2, MinedIs
  <2>2. i - 1 \in 0..Tip(c) /\ At(c, i - 1) = c[i]
    BY <1>1 DEF Tip, At
  <2>3. h \in 0..Tip(c) /\ t \in Range(At(c, h).txs)
    BY <2>1, <2>2 DEF HeightIn
  <2> QED BY <2>3 DEF At
<1> HIDE DEF h
<1>3. t \in Mined(c) => Confirmations(c, t) = Len(c) - h
  BY <1>1, <1>2 DEF Confirmations, Tip, h
<1>4. Confirmations(c, t) \in Nat
  BY <1>1, <1>2, <1>3 DEF Confirmations, Tip
<1>5. ASSUME NEW k \in Nat \ {0} PROVE Confirmations(c, t) >= k <=> Deeper(c, t, k)
  <2>1. ASSUME Confirmations(c, t) >= k PROVE Deeper(c, t, k)
    <3>1. t \in Mined(c)
      BY <2>1 DEF Confirmations
    <3>2. h + 1 \in DOMAIN c /\ t \in Range(c[h + 1].txs) /\ Len(c) + 1 - (h + 1) >= k
      BY <1>1, <1>2, <1>3, <2>1, <3>1 DEF Tip
    <3> QED BY <3>2 DEF Deeper
  <2>2. ASSUME Deeper(c, t, k) PROVE Confirmations(c, t) >= k
    <3>1. PICK i \in DOMAIN c : t \in Range(c[i].txs) /\ Len(c) + 1 - i >= k
      BY <2>2 DEF Deeper
    <3>2. t \in Mined(c)
      BY <3>1, MinedIs
    <3>3. h + 1 \in DOMAIN c /\ t \in Range(c[h + 1].txs)
      BY <1>1, <1>2, <3>2 DEF Tip
    <3>4. h + 1 = i
      BY <3>1, <3>3 DEF IsChain, MinedOnce
    <3> QED BY <1>1, <1>2, <1>3, <3>1, <3>2, <3>4 DEF Tip
  <2> QED BY <2>1, <2>2
<1> QED BY <1>2, <1>3, <1>4, <1>5 DEF h

\* What begins a chain is no less deep in it.
LEMMA DeeperGrows ==
  ASSUME NEW c, IsSeq(c), NEW d, IsSeq(d), Len(c) <= Len(d),
         NEW n \in 0..Len(c), \A i \in 1..n : d[i] = c[i],
         NEW t, NEW k \in Nat, Len(c) - n < k,
         Deeper(c, t, k)
  PROVE  Deeper(d, t, k)
<1>1. Len(c) \in Nat /\ DOMAIN c = 1..Len(c) /\ Len(d) \in Nat /\ DOMAIN d = 1..Len(d)
  BY SeqLen
<1>2. PICK i \in DOMAIN c : t \in Range(c[i].txs) /\ Len(c) + 1 - i >= k
  BY DEF Deeper
<1>3. i \in 1..n /\ i \in DOMAIN d /\ d[i] = c[i] /\ Len(d) + 1 - i >= k
  BY <1>1, <1>2
<1> QED BY <1>2, <1>3 DEF Deeper

\* What is deep enough now joins the history.
LEMMA NowDeepIs ==
  ASSUME NEW f \in Nat, NEW c, IsChain(c, f), NEW t \in Txs
  PROVE  t \in NowDeep(c) <=> Deeper(c, t, MinConfs)
<1>1. MinConfs \in Nat \ {0}
  BY SpvAssumption
<1> QED BY <1>1, ConfirmationsAre DEF NowDeep

-----------------------------------------------------------------------------
(***************************************************************************)
(* The inductive invariant, and the steps of the node                      *)
(***************************************************************************)

\* What the history says of the chain: a transaction deep enough is in it.
ChainSound ==
  /\ forks \in Nat /\ IsChain(chain, forks)
  /\ \A t \in Txs : Deeper(chain, t, MinConfs) => t \in deep

\* An anchor states the height of the block it names.
IsAnchor(a) == a.index \in Nat /\ IsSeq(a.branch) /\ a.height = a.block[2]
\* A tier, or a pack.
AreAnchors(f) == \A t \in DOMAIN f : IsAnchor(f[t])

\* What a request is made of.
IsBuild(b) ==
  /\ b = [pc |-> b.pc, todo |-> b.todo, tip |-> b.tip, at |-> b.at, branch |-> b.branch,
          index |-> b.index, hits |-> b.hits, keeps |-> b.keeps]
  /\ AreAnchors(b.hits)
  /\ b.pc = "header" =>
       b.at \in 0..Tip(chain) /\ b.index \in Nat /\ IsSeq(b.branch)

\* The prover's tiers, the request it works on and the packs it served.
ProverSound == AreAnchors(cache) /\ AreAnchors(disk) /\ AreAnchors(pack) /\ IsBuild(build)

\* Linked headers are the chain's up to the last one that is.
RunSound ==
  /\ IsSeq(run) /\ Len(run) <= Len(chain)
  /\ \A i \in DOMAIN run : run[i].id[1] \in 0..forks
  /\ Linked(run) => \A n \in DOMAIN run :
       run[n].id = chain[n].id => \A i \in 1..n : run[i] = Header(chain[i])

\* The root of a linked header is of a block that was as deep as the run says.
RunDeep ==
  Linked(run) => \A i \in DOMAIN run :
    \E txs : /\ IsListing(txs) /\ run[i].root = MerkleRoot(txs)
             /\ Len(run) + 1 - i >= MinConfs => Range(txs) \cap Txs \subseteq deep

\* A gate's check: what it was asked is known buried, was found deep, or is not done.
IsGate(g) ==
  /\ g = [pc |-> g.pc, asked |-> g.asked, todo |-> g.todo, unmined |-> g.unmined,
          buried |-> g.buried, keeps |-> g.keeps]
  /\ g.asked \subseteq Txs /\ g.todo \subseteq Txs /\ g.buried \subseteq Txs
  /\ g.asked \subseteq bookmark \cup deep \cup g.todo \cup g.unmined
  /\ \A t \in g.buried : Deeper(chain, t, BuryDepth)

\* What a gate counts as mined was deep, and what it keeps is buried.
GateSound ==
  /\ IsGate(gate)
  /\ bookmark \subseteq Txs
  /\ \A t \in bookmark : Deeper(chain, t, BuryDepth)

\* The inductive invariant.
IInv == ChainSound /\ ProverSound /\ RunSound /\ RunDeep /\ GateSound

\* The chain after a step of the node: the first n blocks are kept.
Rewritten(n) ==
  /\ n \in 1..Len(chain) /\ Len(chain) - n < BuryDepth
  /\ forks' \in Nat /\ forks <= forks'
  /\ IsChain(chain', forks') /\ Len(chain) <= Len(chain')
  /\ \A i \in 1..n : chain'[i] = chain[i]
  /\ \A i \in (n + 1)..Len(chain) : chain'[i].id = <<forks + 1, i - 1>>
  /\ deep' = deep \cup NowDeep(chain')

\* A block more.
LEMMA MineIs ==
  ASSUME ChainSound, Mine
  PROVE  Rewritten(Len(chain))
<1>1. Len(chain) \in Nat /\ Len(chain) >= 1
  BY SeqLen DEF ChainSound, IsChain
<1>2. PICK txs \in SUBSET (Txs \ Mined(chain)) : chain' = Grow(chain, forks, txs)
  BY DEF Mine
<1>3. Len(chain) <= MaxHeight
  BY <1>1, SpvAssumption DEF Mine, Tip
<1>4. /\ IsChain(chain', forks) /\ Len(chain') = Len(chain) + 1
      /\ \A i \in 1..Len(chain) : chain'[i] = chain[i]
  <2>1. forks \in Nat /\ forks \in 0..forks /\ IsChain(chain, forks)
    BY DEF ChainSound
  <2> QED BY <1>2, <1>3, <2>1, GrowIs
<1>5. forks' = forks /\ deep' = deep \cup NowDeep(chain') /\ forks \in Nat
  BY DEF Mine, ChainSound
<1>6. Len(chain) - Len(chain) < BuryDepth
  BY <1>1, SpvAssumption
<1>7. \A i \in (Len(chain) + 1)..Len(chain) : FALSE
  BY <1>1
<1> QED BY <1>1, <1>4, <1>5, <1>6, <1>7 DEF Rewritten

\* A reorganisation replaces fewer blocks than a bookmark is deep.
LEMMA ReorgIs ==
  ASSUME ChainSound, Reorg
  PROVE  \E n \in 1..Len(chain) : Rewritten(n)
<1>1. Len(chain) \in Nat /\ Len(chain) >= 1 /\ forks \in Nat /\ IsChain(chain, forks)
  BY SeqLen DEF ChainSound, IsChain
<1> DEFINE bound == Min({MaxReorg, Tip(chain)})
<1>2. bound \in Nat /\ bound <= MaxReorg /\ bound <= Tip(chain)
  <2>1. MaxReorg \in Nat /\ Tip(chain) \in Nat
    BY <1>1, SpvAssumption DEF Tip
  <2> QED BY <2>1, MinOfTwo
<1>3. PICK d \in 1..bound :
        LET kept == SubSeq(chain, 1, Len(chain) - d) IN
        \E place \in [Txs \ Mined(kept) -> 0..(d + 1)] :
          chain' = Regrown(kept, forks + 1, place, d + 1)[d + 1]
  BY DEF Reorg
<1> DEFINE n == Len(chain) - d
           kept == SubSeq(chain, 1, n)
<1> HIDE DEF bound, kept
<1>4. d \in Nat \ {0} /\ n \in 1..Len(chain) /\ d <= MaxReorg
  BY <1>1, <1>2, SpvAssumption DEF Tip
<1>5. PICK place \in [Txs \ Mined(kept) -> 0..(d + 1)] :
        chain' = Regrown(kept, forks + 1, place, d + 1)[d + 1]
  BY <1>3 DEF kept
<1>6. IsChain(kept, forks + 1) /\ Len(kept) = n /\ \A i \in 1..n : kept[i] = chain[i]
  <2>1. IsChain(kept, forks) /\ Len(kept) = n /\ \A i \in 1..n : kept[i] = chain[i]
    BY <1>1, <1>4, PrefixIs DEF kept
  <2> QED BY <1>1, <2>1, LaterForks
<1>7. Len(kept) + (d + 1) <= MaxHeight + 1
  <2>1. Len(chain) - 1 < MaxHeight
    BY DEF Reorg, Tip
  <2>2. Len(kept) = Len(chain) - d
    BY <1>6 DEF n
  <2>3. MaxHeight \in Nat
    BY SpvAssumption
  <2>4. \A l, e, m \in Nat : l - 1 < m => (l - e) + (e + 1) <= m + 1
    OBVIOUS
  <2> QED BY <1>1, <1>4, <2>1, <2>2, <2>3, <2>4
<1>8. /\ IsChain(chain', forks + 1) /\ Len(chain') = Len(kept) + (d + 1)
      /\ \A i \in 1..Len(kept) : chain'[i] = kept[i]
      /\ \A i \in (Len(kept) + 1)..Len(chain') : chain'[i].id = <<forks + 1, i - 1>>
  <2>1. forks + 1 \in Nat /\ forks + 1 \in 0..(forks + 1) /\ d + 1 \in Nat
    BY <1>1, <1>4
  <2> DEFINE g == forks + 1
             b == d + 1
             c == Regrown(kept, g, place, b)[b]
  <2>2. /\ g \in Nat /\ g \in 0..g /\ b \in Nat /\ IsChain(kept, g)
        /\ Len(kept) + b <= MaxHeight + 1 /\ place \in [Txs \ Mined(kept) -> 0..b]
    BY <1>5, <1>6, <1>7, <2>1
  <2>3. chain' = c
    BY <1>5
  <2> HIDE DEF g, b
  <2>4. IsChain(c, g) /\ Regrew(c, kept, g, b)
    BY <2>2, RegrownIs
  <2> HIDE DEF c
  <2> QED BY <2>3, <2>4 DEF g, b, Regrew
<1>9. forks' = forks + 1 /\ deep' = deep \cup NowDeep(chain')
  BY DEF Reorg
<1>10. Len(chain) - n < BuryDepth
  BY <1>1, <1>4, SpvAssumption
<1>11. Len(chain') = Len(chain) + 1
  BY <1>1, <1>4, <1>6, <1>8
<1>12. \A i \in (n + 1)..Len(chain) : i \in (Len(kept) + 1)..Len(chain')
  BY <1>1, <1>4, <1>6, <1>11
<1>13. \A i \in 1..n : chain'[i] = chain[i]
  BY <1>6, <1>8
<1> HIDE DEF n
<1>14. Rewritten(n)
  BY <1>1, <1>4, <1>8, <1>9, <1>10, <1>11, <1>12, <1>13 DEF Rewritten
<1> QED BY <1>4, <1>14

\* However the node's chain moves, what was read from it is of the past.
LEMMA NodeMoves ==
  ASSUME IInv, NEW n \in 1..Len(chain), Rewritten(n),
         UNCHANGED <<prover, client, checker>>
  PROVE  IInv'
<1>1. /\ Len(chain) \in Nat /\ DOMAIN chain = 1..Len(chain) /\ Len(chain) >= 1
      /\ Len(chain') \in Nat /\ DOMAIN chain' = 1..Len(chain') /\ Len(chain) <= Len(chain')
      /\ forks \in Nat /\ forks' \in Nat /\ forks <= forks'
      /\ IsSeq(chain) /\ IsSeq(chain')
  BY SeqLen DEF IInv, ChainSound, IsChain, Rewritten
<1>2. n \in Nat /\ n <= Len(chain)
  BY <1>1
<1>3. /\ UNCHANGED <<cache, disk, build, pack, run, gate, bookmark>>
      /\ deep \subseteq deep'
  BY DEF prover, client, checker, Rewritten
<1>4. ChainSound'
  <2>1. IsChain(chain', forks') /\ forks' \in Nat /\ deep' = deep \cup NowDeep(chain')
    BY DEF Rewritten
  <2>2. ASSUME NEW t \in Txs, Deeper(chain', t, MinConfs) PROVE t \in deep'
    BY <2>1, <2>2, NowDeepIs
  <2> QED BY <2>1, <2>2 DEF ChainSound
<1>5. ProverSound'
  <2>1. Tip(chain)' = Tip(chain') /\ 0..Tip(chain) \subseteq 0..Tip(chain')
    BY <1>1 DEF Tip
  <2> QED BY <1>3, <2>1 DEF IInv, ProverSound, IsBuild, AreAnchors
<1>6. RunSound'
  <2>1. IsSeq(run) /\ Len(run) \in Nat /\ DOMAIN run = 1..Len(run) /\ Len(run) <= Len(chain)
        /\ \A i \in DOMAIN run : run[i].id[1] \in 0..forks
    BY SeqLen DEF IInv, RunSound
  <2>2. Len(run) <= Len(chain') /\ \A i \in DOMAIN run : run[i].id[1] \in 0..forks'
    BY <1>1, <2>1
  <2>3. ASSUME Linked(run), NEW m \in DOMAIN run, run[m].id = chain'[m].id
        PROVE  \A i \in 1..m : run[i] = Header(chain'[i])
    <3>1. m \in 1..n
      <4>1. SUFFICES ASSUME m \in (n + 1)..Len(chain) PROVE FALSE
        BY <1>1, <1>2, <2>1
      <4>2. run[m].id = <<forks + 1, m - 1>>
        BY <2>3, <4>1 DEF Rewritten
      <4>3. run[m].id[1] = forks + 1
        BY <4>2
      <4> QED BY <1>1, <2>1, <4>3
    <3>2. chain'[m] = chain[m] /\ \A i \in 1..m : chain'[i] = chain[i]
      BY <1>2, <3>1 DEF Rewritten
    <3>3. run[m].id = chain[m].id
      BY <2>3, <3>2
    <3>4. \A i \in 1..m : run[i] = Header(chain[i])
      BY <2>3, <3>3 DEF IInv, RunSound
    <3> QED BY <3>2, <3>4
  <2> QED BY <1>3, <2>1, <2>2, <2>3 DEF RunSound
<1>7. RunDeep'
  BY <1>3 DEF IInv, RunDeep
<1>8. GateSound'
  <2>1. ASSUME NEW t, Deeper(chain, t, BuryDepth) PROVE Deeper(chain', t, BuryDepth)
    <3>1. n \in 0..Len(chain) /\ BuryDepth \in Nat /\ Len(chain) - n < BuryDepth
          /\ \A i \in 1..n : chain'[i] = chain[i]
      BY <1>1, SpvAssumption DEF Rewritten
    <3> QED BY <1>1, <2>1, <3>1, DeeperGrows
  <2>2. IsGate(gate)'
    BY <1>3, <2>1 DEF IInv, GateSound, IsGate
  <2> QED BY <1>3, <2>1, <2>2 DEF IInv, GateSound
<1> QED BY <1>4, <1>5, <1>6, <1>7, <1>8 DEF IInv

-----------------------------------------------------------------------------
(***************************************************************************)
(* The steps of the prover                                                 *)
(***************************************************************************)

\* The tiers and packs hold anchors, however they are merged.
LEMMA AnchorsMerge ==
  ASSUME NEW f, AreAnchors(f), NEW g, AreAnchors(g)
  PROVE  AreAnchors(Merge(f, g))
BY DEF AreAnchors, Merge

\* A part of a tier.
LEMMA AnchorsPart ==
  ASSUME NEW f, AreAnchors(f), NEW s
  PROVE  AreAnchors(Part(f, s))
BY DEF AreAnchors, Part

\* An empty one.
LEMMA NoAnchors == AreAnchors(<<>>)
BY DEF AreAnchors

\* What the prover does leaves the rest of the invariant alone.
Unmoved == UNCHANGED <<chain, forks, deep, run, gate, bookmark>>

\* So its steps need only keep ProverSound.
LEMMA ProverMoves ==
  ASSUME IInv, Unmoved, ProverSound'
  PROVE  IInv'
<1>1. ChainSound' /\ RunSound' /\ RunDeep'
  BY DEF IInv, Unmoved, ChainSound, RunSound, RunDeep
<1>2. GateSound'
  BY DEF IInv, Unmoved, GateSound, IsGate
<1> QED BY <1>1, <1>2 DEF IInv

\* proof_pack answers from the tiers, or starts a request for what they lack.
LEMMA AskKeeps ==
  ASSUME IInv, NEW ts \in Consignments, Ask(ts)
  PROVE  IInv'
<1> DEFINE hits == Merge(IF DiskTier THEN Part(disk, ts) ELSE <<>>, Part(cache, ts))
<1>1. AreAnchors(hits)
  <2>1. AreAnchors(Part(disk, ts)) /\ AreAnchors(Part(cache, ts))
    BY AnchorsPart DEF IInv, ProverSound
  <2>2. AreAnchors(IF DiskTier THEN Part(disk, ts) ELSE <<>>)
    BY <2>1, NoAnchors
  <2> QED BY <2>1, <2>2, AnchorsMerge
<1>2. cache' = Merge(cache, hits) /\ disk' = disk /\ Unmoved
  BY DEF Ask, Unmoved, checker
<1>3. \/ /\ pack' = Merge(pack, hits) /\ build' = build
      \/ /\ build' = [Resting EXCEPT !.pc = "get", !.todo = SetToSeq(ts \ DOMAIN hits),
                                     !.tip = Tip(chain), !.hits = hits, !.keeps = TRUE]
         /\ pack' = pack
  BY DEF Ask
<1> HIDE DEF hits
<1>4. AreAnchors(cache') /\ AreAnchors(disk') /\ AreAnchors(pack')
  <2>1. AreAnchors(Merge(cache, hits)) /\ AreAnchors(Merge(pack, hits))
    BY <1>1, AnchorsMerge DEF IInv, ProverSound
  <2> QED BY <1>2, <1>3, <2>1 DEF IInv, ProverSound
<1>5. IsBuild(build)'
  <2>1. CASE build' = build
    BY <1>2, <2>1 DEF IInv, ProverSound, IsBuild, AreAnchors, Unmoved
  <2>2. CASE build' = [Resting EXCEPT !.pc = "get", !.todo = SetToSeq(ts \ DOMAIN hits),
                                     !.tip = Tip(chain), !.hits = hits, !.keeps = TRUE]
    <3>1. build'.hits = hits /\ build'.pc = "get"
      BY <2>2 DEF Resting
    <3>2. build' = [pc |-> build'.pc, todo |-> build'.todo, tip |-> build'.tip,
                    at |-> build'.at, branch |-> build'.branch, index |-> build'.index,
                    hits |-> build'.hits, keeps |-> build'.keeps]
      BY <2>2 DEF Resting
    <3> QED BY <1>1, <3>1, <3>2 DEF IsBuild
  <2> QED BY <1>3, <2>1, <2>2
<1>6. ProverSound'
  BY <1>4, <1>5 DEF ProverSound
<1> QED BY <1>2, <1>6, ProverMoves

\* The broker's request starts with nothing.
LEMMA AskBrokerKeeps ==
  ASSUME IInv, NEW ts \in Consignments, AskBroker(ts)
  PROVE  IInv'
<1>1. build' = [Resting EXCEPT !.pc = "get", !.todo = SetToSeq(ts), !.tip = Tip(chain)]
      /\ UNCHANGED <<cache, disk, pack>> /\ Unmoved
  BY DEF AskBroker, Unmoved, client, checker
<1>2. IsBuild(build)'
  <2>1. build'.hits = <<>> /\ build'.pc = "get"
    BY <1>1 DEF Resting
  <2>2. build' = [pc |-> build'.pc, todo |-> build'.todo, tip |-> build'.tip,
                  at |-> build'.at, branch |-> build'.branch, index |-> build'.index,
                  hits |-> build'.hits, keeps |-> build'.keeps]
    BY <1>1 DEF Resting
  <2> QED BY <2>1, <2>2, NoAnchors DEF IsBuild
<1>3. ProverSound'
  BY <1>1, <1>2 DEF IInv, ProverSound, AreAnchors
<1> QED BY <1>1, <1>3, ProverMoves

\* A txid that is done with, or for which the node has no answer.
LEMMA NextTxid ==
  ASSUME IInv, NEW hits, AreAnchors(hits), NEW pc, pc # "header", NEW at, NEW todo,
         build' = [pc |-> pc, todo |-> todo, tip |-> build.tip, at |-> at,
                   branch |-> build.branch, index |-> build.index, hits |-> hits,
                   keeps |-> build.keeps],
         UNCHANGED <<cache, disk, pack>>, Unmoved
  PROVE  IInv'
<1>1. build'.pc # "header" /\ build'.hits = hits
      /\ build' = [pc |-> build'.pc, todo |-> build'.todo, tip |-> build'.tip,
                   at |-> build'.at, branch |-> build'.branch, index |-> build'.index,
                   hits |-> build'.hits, keeps |-> build'.keeps]
  OBVIOUS
<1>2. IsBuild(build)'
  BY <1>1 DEF IsBuild
<1>3. ProverSound'
  BY <1>2 DEF IInv, ProverSound, AreAnchors
<1> QED BY <1>3, ProverMoves

\* transaction.get: the height that the depth gives, or the node's failure.
LEMMA GetKeeps ==
  ASSUME IInv, Get
  PROVE  IInv'
<1>1. IsBuild(build)
  BY DEF IInv, ProverSound
<1>2. UNCHANGED <<cache, disk, pack>> /\ Unmoved
  BY DEF Get, Unmoved, client, checker
<1>3. CASE build' = [build EXCEPT !.todo = Tail(@)]
  <2>1. build' = [pc |-> build.pc, todo |-> Tail(build.todo), tip |-> build.tip,
                  at |-> build.at, branch |-> build.branch, index |-> build.index,
                  hits |-> build.hits, keeps |-> build.keeps]
    BY <1>1, <1>3 DEF IsBuild
  <2>2. build.pc # "header" /\ AreAnchors(build.hits)
    BY <1>1 DEF Get, IsBuild
  <2> QED BY <1>2, <2>1, <2>2, NextTxid
<1>4. CASE \E k : build' = [build EXCEPT !.pc = "merkle", !.at = k]
  <2>1. PICK k : build' = [build EXCEPT !.pc = "merkle", !.at = k]
    BY <1>4
  <2>2. build' = [pc |-> "merkle", todo |-> build.todo, tip |-> build.tip,
                  at |-> k, branch |-> build.branch, index |-> build.index,
                  hits |-> build.hits, keeps |-> build.keeps]
    BY <1>1, <2>1 DEF IsBuild
  <2>3. "merkle" # "header" /\ AreAnchors(build.hits)
    BY <1>1 DEF IsBuild
  <2> QED BY <1>2, <2>2, <2>3, NextTxid
<1> QED BY <1>3, <1>4 DEF Get

\* transaction.get_merkle: the branch and index are of a block of that height.
LEMMA GetMerkleKeeps ==
  ASSUME IInv, GetMerkle
  PROVE  IInv'
<1>1. IsBuild(build) /\ IsChain(chain, forks)
  BY DEF IInv, ProverSound, ChainSound
<1>2. UNCHANGED <<cache, disk, pack>> /\ Unmoved
  BY DEF GetMerkle, Unmoved, client, checker
<1>3. CASE build' = [build EXCEPT !.pc = "get", !.todo = Tail(@)]
  <2>1. build' = [pc |-> "get", todo |-> Tail(build.todo), tip |-> build.tip,
                  at |-> build.at, branch |-> build.branch, index |-> build.index,
                  hits |-> build.hits, keeps |-> build.keeps]
    BY <1>1, <1>3 DEF IsBuild
  <2>2. "get" # "header" /\ AreAnchors(build.hits)
    BY <1>1 DEF IsBuild
  <2> QED BY <1>2, <2>1, <2>2, NextTxid
<1> DEFINE t == Head(build.todo)
           txs == At(chain, build.at).txs
           pos == (CHOOSE i \in DOMAIN txs : txs[i] = t) - 1
<1>4. CASE /\ build.at \in 0..Tip(chain) /\ t \in Range(txs)
           /\ build' = [build EXCEPT !.pc = "header", !.index = pos,
                                     !.branch = Path(txs, pos).branch]
  <2>1. Len(chain) \in Nat /\ DOMAIN chain = 1..Len(chain) /\ Len(chain) >= 1
    BY <1>1, SeqLen DEF IsChain
  <2>2. IsListing(txs)
    <3>1. build.at + 1 \in DOMAIN chain /\ txs = chain[build.at + 1].txs
      BY <1>4, <2>1 DEF Tip, At
    <3> QED BY <1>1, <3>1 DEF IsChain, IsBlock
  <2> HIDE DEF txs, t
  <2>3. pos \in 0..(Len(txs) - 1) /\ Len(txs) \in Nat
    <3>1. \E i \in DOMAIN txs : txs[i] = t
      BY <1>4 DEF Range
    <3>2. pos + 1 \in DOMAIN txs
      <4>1. (CHOOSE i \in DOMAIN txs : txs[i] = t) \in DOMAIN txs
        BY <3>1
      <4>2. DOMAIN txs = 1..Len(txs) /\ Len(txs) \in Nat
        BY <2>2, SeqLen DEF IsListing
      <4> QED BY <4>1, <4>2
    <3>3. DOMAIN txs = 1..Len(txs) /\ Len(txs) \in Nat
      BY <2>2, SeqLen DEF IsListing
    <3>4. (CHOOSE i \in DOMAIN txs : txs[i] = t) \in 1..Len(txs)
      BY <3>1, <3>3
    <3> QED BY <3>3, <3>4
  <2> HIDE DEF pos
  <2>4. IsSeq(Path(txs, pos).branch) /\ pos \in Nat
    <3>1. IsSeq(txs) /\ txs # <<>> /\ Len(txs) \in 0..Len(txs)
      BY <2>2, <2>3 DEF IsListing
    <3>2. Climbing(Climbs(txs, pos)[Len(txs)])
      BY <2>3, <3>1, PathClimbs
    <3> QED BY <2>3, <3>2 DEF Climbing, Path
  <2>5. build' = [pc |-> "header", todo |-> build.todo, tip |-> build.tip,
                  at |-> build.at, branch |-> Path(txs, pos).branch, index |-> pos,
                  hits |-> build.hits, keeps |-> build.keeps]
    BY <1>1, <1>4 DEF IsBuild
  <2>6. /\ build'.at \in 0..Tip(chain) /\ build'.index \in Nat /\ IsSeq(build'.branch)
        /\ build'.hits = build.hits
        /\ build' = [pc |-> build'.pc, todo |-> build'.todo, tip |-> build'.tip,
                     at |-> build'.at, branch |-> build'.branch, index |-> build'.index,
                     hits |-> build'.hits, keeps |-> build'.keeps]
    BY <1>4, <2>4, <2>5
  <2>7. IsBuild(build)'
    <3>1. chain' = chain /\ AreAnchors(build.hits)
      BY <1>1, <1>2 DEF Unmoved, IsBuild
    <3> QED BY <2>6, <3>1 DEF IsBuild
  <2>8. ProverSound'
    BY <1>2, <2>7 DEF IInv, ProverSound, AreAnchors
  <2> QED BY <1>2, <2>8, ProverMoves
<1> QED BY <1>3, <1>4 DEF GetMerkle

\* block.header: the anchor names the block now at that height, and the height.
LEMMA GetHeaderKeeps ==
  ASSUME IInv, GetHeader
  PROVE  IInv'
<1>1. IsBuild(build) /\ IsChain(chain, forks) /\ build.pc = "header"
  BY DEF IInv, ProverSound, ChainSound, GetHeader
<1>2. UNCHANGED <<cache, disk, pack>> /\ Unmoved
  BY DEF GetHeader, Unmoved, client, checker
<1>3. CASE build' = [build EXCEPT !.pc = "get", !.todo = Tail(@)]
  <2>1. build' = [pc |-> "get", todo |-> Tail(build.todo), tip |-> build.tip,
                  at |-> build.at, branch |-> build.branch, index |-> build.index,
                  hits |-> build.hits, keeps |-> build.keeps]
    BY <1>1, <1>3 DEF IsBuild
  <2>2. "get" # "header" /\ AreAnchors(build.hits)
    BY <1>1 DEF IsBuild
  <2> QED BY <1>2, <2>1, <2>2, NextTxid
<1> DEFINE a == [block |-> At(chain, build.at).id, height |-> build.at,
                 index |-> build.index, branch |-> build.branch]
           hits == Merge(build.hits, [t \in {Head(build.todo)} |-> a])
<1>4. CASE build' = [build EXCEPT !.pc = "get", !.todo = Tail(@), !.hits = hits]
  <2>1. IsAnchor(a)
    <3>1. Len(chain) \in Nat /\ DOMAIN chain = 1..Len(chain) /\ Len(chain) >= 1
      BY <1>1, SeqLen DEF IsChain
    <3>2. build.at \in 0..Tip(chain) /\ build.index \in Nat /\ IsSeq(build.branch)
      BY <1>1 DEF IsBuild
    <3>3. build.at + 1 \in DOMAIN chain /\ (build.at + 1) - 1 = build.at
      BY <3>1, <3>2 DEF Tip
    <3>4. chain[build.at + 1].id = <<chain[build.at + 1].id[1], build.at>>
      <4>1. IsBlock(chain, forks, build.at + 1)
        BY <1>1, <3>3 DEF IsChain
      <4> QED BY <3>3, <4>1 DEF IsBlock
    <3>5. chain[build.at + 1].id[2] = build.at
      BY <3>4
    <3> QED BY <3>2, <3>5 DEF IsAnchor, At
  <2> HIDE DEF a
  <2>2. AreAnchors([t \in {Head(build.todo)} |-> a])
    BY <2>1 DEF AreAnchors
  <2>3. AreAnchors(hits)
    BY <1>1, <2>2, AnchorsMerge DEF IsBuild
  <2> HIDE DEF hits
  <2>4. build' = [pc |-> "get", todo |-> Tail(build.todo), tip |-> build.tip,
                  at |-> build.at, branch |-> build.branch, index |-> build.index,
                  hits |-> hits, keeps |-> build.keeps]
    BY <1>1, <1>4 DEF IsBuild
  <2> QED BY <1>2, <2>3, <2>4, NextTxid
<1> QED BY <1>3, <1>4 DEF GetHeader

\* The answer, and what the tiers keep of it.
LEMMA ServeKeeps ==
  ASSUME IInv, Serve
  PROVE  IInv'
<1>1. AreAnchors(cache) /\ AreAnchors(disk) /\ AreAnchors(pack) /\ AreAnchors(build.hits)
  BY DEF IInv, ProverSound, IsBuild
<1>2. PICK new, kept :
        /\ kept = <<>> \/ kept = cache
        /\ cache' = Merge(kept, Part(build.hits, new))
        /\ disk' = IF DiskTier THEN Merge(disk, Part(build.hits, new)) ELSE disk
  BY DEF Serve
<1>3. pack' = Merge(pack, build.hits) /\ build' = Resting /\ Unmoved
  BY DEF Serve, Unmoved, checker
<1>4. AreAnchors(kept) /\ AreAnchors(Part(build.hits, new))
  BY <1>1, <1>2, NoAnchors, AnchorsPart
<1>5. AreAnchors(cache') /\ AreAnchors(disk') /\ AreAnchors(pack')
  <2>1. AreAnchors(Merge(kept, Part(build.hits, new)))
        /\ AreAnchors(Merge(disk, Part(build.hits, new))) /\ AreAnchors(Merge(pack, build.hits))
    BY <1>1, <1>4, AnchorsMerge
  <2> QED BY <1>1, <1>2, <1>3, <2>1
<1>6. IsBuild(build)'
  BY <1>3, NoAnchors DEF IsBuild, Resting
<1>7. ProverSound'
  BY <1>5, <1>6 DEF ProverSound
<1> QED BY <1>3, <1>7, ProverMoves

\* A restart forgets the memory tier and the request.
LEMMA RestartKeeps ==
  ASSUME IInv, Restart
  PROVE  IInv'
<1>1. cache' = <<>> /\ build' = Resting /\ UNCHANGED <<disk, pack>> /\ Unmoved
  BY DEF Restart, Unmoved, client, checker
<1>2. IsBuild(build)'
  BY <1>1, NoAnchors DEF IsBuild, Resting
<1>3. ProverSound'
  BY <1>1, <1>2, NoAnchors DEF IInv, ProverSound
<1> QED BY <1>1, <1>3, ProverMoves

-----------------------------------------------------------------------------
(***************************************************************************)
(* The thin client and the gates                                           *)
(***************************************************************************)

\* A function on the first numbers is a sequence.
LEMMA FunctionIsSeq ==
  ASSUME NEW n \in Nat, NEW f, f = [i \in 1..n |-> f[i]]
  PROVE  IsSeq(f) /\ Len(f) = n
<1>1. f \in [1..n -> Range(f)]
  BY DEF Range
<1>2. f \in Seq(Range(f)) /\ Len(f) = n
  BY <1>1
<1> QED BY <1>2 DEF IsSeq

\* The headers of the chain.
LEMMA HeadersAre ==
  ASSUME ChainSound
  PROVE  /\ IsSeq(Headers(chain)) /\ Len(Headers(chain)) = Len(chain)
         /\ DOMAIN Headers(chain) = 1..Len(chain)
         /\ \A i \in 1..Len(chain) : Headers(chain)[i] = Header(chain[i])
         /\ Len(chain) \in Nat /\ Len(chain) >= 1
<1>1. Len(chain) \in Nat /\ Len(chain) >= 1 /\ DOMAIN chain = 1..Len(chain)
  BY SeqLen DEF ChainSound, IsChain
<1>2. Headers(chain) = [i \in 1..Len(chain) |-> Header(chain[i])]
  BY <1>1 DEF Headers
<1>3. IsSeq(Headers(chain)) /\ Len(Headers(chain)) = Len(chain)
  BY <1>1, <1>2, FunctionIsSeq
<1> QED BY <1>1, <1>2, <1>3

\* The fields of a header.
LEMMA HeaderIs ==
  ASSUME NEW b
  PROVE  /\ Header(b).id = b.id /\ Header(b).prev = b.prev /\ Header(b).bits = b.bits
         /\ Header(b).time = b.time /\ Header(b).work = 0 /\ Header(b).root = MerkleRoot(b.txs)
BY DEF Header

\* If what the host then has links up, it has the chain's headers.
LEMMA FetchIs ==
  ASSUME IInv, FetchHeaders
  PROVE  /\ IsSeq(run') /\ Len(run') = Len(chain)
         /\ \A i \in DOMAIN run' : run'[i].id[1] \in 0..forks
         /\ Linked(run') => run' = Headers(chain)
<1> DEFINE h == Headers(chain)
           tail == SubSeq(h, Len(run) + 1, Len(chain))
<1>1. /\ IsSeq(h) /\ Len(h) = Len(chain) /\ DOMAIN h = 1..Len(chain)
      /\ \A i \in 1..Len(chain) : h[i] = Header(chain[i])
      /\ Len(chain) \in Nat /\ Len(chain) >= 1
  BY HeadersAre DEF IInv
<1>2. /\ IsSeq(run) /\ Len(run) \in Nat /\ DOMAIN run = 1..Len(run) /\ Len(run) <= Len(chain)
      /\ \A i \in DOMAIN run : run[i].id[1] \in 0..forks
  BY SeqLen DEF IInv, RunSound
<1>3. DOMAIN chain = 1..Len(chain) /\ IsChain(chain, forks)
  BY SeqLen DEF IInv, ChainSound, IsChain
<1>4. \A i \in 1..Len(chain) : h[i].id[1] \in 0..forks
  <2> TAKE i \in 1..Len(chain)
  <2>1. IsBlock(chain, forks, i)
    BY <1>3 DEF IsChain
  <2>2. h[i].id = chain[i].id
    BY <1>1, HeaderIs
  <2> QED BY <2>1, <2>2 DEF IsBlock
<1> HIDE DEF h
<1>5. CASE run' = h
  BY <1>1, <1>4, <1>5 DEF h
<1>6. CASE Len(run) < Len(chain) /\ run' = run \o tail
  <2>1. /\ tail = [i \in 1..(Len(chain) - Len(run)) |-> h[Len(run) + i]]
    <3>1. h \in Seq(Range(h))
      BY <1>1 DEF IsSeq
    <3>2. tail = [i \in 1..(Len(chain) - (Len(run) + 1) + 1) |-> h[Len(run) + 1 + i - 1]]
      BY <1>1, <1>2, <1>6, <3>1
    <3>3. Len(chain) - (Len(run) + 1) + 1 = Len(chain) - Len(run)
          /\ \A i \in 1..(Len(chain) - Len(run)) : Len(run) + 1 + i - 1 = Len(run) + i
      BY <1>1, <1>2
    <3> QED BY <3>2, <3>3
  <2> HIDE DEF tail
  <2>2. IsSeq(tail) /\ Len(tail) = Len(chain) - Len(run)
    <3>1. Len(chain) - Len(run) \in Nat
      BY <1>1, <1>2
    <3>2. tail = [i \in 1..(Len(chain) - Len(run)) |-> tail[i]]
      BY <2>1
    <3> QED BY <3>1, <3>2, FunctionIsSeq
  <2>3. IsSeq(run') /\ Len(run') = Len(chain) /\ DOMAIN run' = 1..Len(chain)
    <3>1. IsSeq(run') /\ Len(run') = Len(run) + Len(tail)
      BY <1>2, <1>6, <2>2, ConcatIs
    <3>2. Len(run') = Len(chain)
      BY <1>1, <1>2, <2>2, <3>1
    <3> QED BY <1>1, <3>1, <3>2, SeqLen
  <2>4. \A i \in 1..Len(chain) : run'[i] = IF i <= Len(run) THEN run[i] ELSE h[i]
    <3> TAKE i \in 1..Len(chain)
    <3> DEFINE V == Range(run) \cup Range(tail)
    <3>1. run \in Seq(V) /\ tail \in Seq(V)
      BY <1>2, <2>2 DEF IsSeq
    <3> HIDE DEF V
    <3>2. (run \o tail)[i] = IF i <= Len(run) THEN run[i] ELSE tail[i - Len(run)]
      BY <1>1, <1>2, <2>2, <3>1, ConcatProperties
    <3>3. ~(i <= Len(run)) => i - Len(run) \in 1..(Len(chain) - Len(run))
                              /\ Len(run) + (i - Len(run)) = i
      BY <1>1, <1>2
    <3>4. ~(i <= Len(run)) => tail[i - Len(run)] = h[i]
      BY <2>1, <3>3
    <3> QED BY <1>6, <3>2, <3>4
  <2>5. \A i \in DOMAIN run' : run'[i].id[1] \in 0..forks
    BY <1>2, <1>4, <2>3, <2>4
  <2>6. ASSUME Linked(run') PROVE run' = h
    <3>1. ASSUME Len(run) >= 1 PROVE \A i \in 1..Len(run) : run[i] = Header(chain[i])
      <4> DEFINE m == Len(run)
      <4>1. m \in Nat /\ m >= 1 /\ m + 1 \in 1..Len(chain) /\ m \in 1..Len(chain) /\ m + 1 > 1
            /\ (m + 1) - 1 = m /\ ~(m + 1 <= m) /\ m \in DOMAIN run /\ m + 1 \in 2..Len(chain)
            /\ m <= m
        BY <1>1, <1>2, <1>6, <3>1
      <4>2. run'[m + 1].prev = run'[m].id
        <5>1. \A i \in DOMAIN run' : i > 1 => run'[i].prev = run'[i - 1].id
          BY <2>6 DEF Linked
        <5> HIDE DEF m
        <5>2. m + 1 \in DOMAIN run'
          BY <2>3, <4>1
        <5> QED BY <4>1, <5>1, <5>2
      <4>3. run'[m + 1] = h[m + 1] /\ run'[m] = run[m] /\ h[m + 1] = Header(chain[m + 1])
        BY <1>1, <2>4, <4>1
      <4>4. chain[m + 1].prev = chain[m].id
        BY <1>3, <4>1 DEF IsChain, Follows
      <4>5. run[m].id = chain[m].id
        BY <4>2, <4>3, <4>4, HeaderIs
      <4>6. Linked(run)
        <5> SUFFICES ASSUME NEW i \in DOMAIN run, i > 1
                     PROVE  run[i].prev = run[i - 1].id
          BY DEF Linked
        <5>1. i \in 1..Len(chain) /\ i - 1 \in 1..Len(chain) /\ i <= Len(run) /\ i - 1 <= Len(run)
          BY <1>1, <1>2
        <5>2. run'[i].prev = run'[i - 1].id
          BY <2>3, <2>6, <5>1 DEF Linked
        <5> QED BY <2>4, <5>1, <5>2
      <4> QED BY <4>1, <4>5, <4>6 DEF IInv, RunSound
    <3>2. \A i \in 1..Len(chain) : run'[i] = h[i]
      BY <1>1, <1>2, <2>4, <3>1
    <3>3. run' = [i \in 1..Len(chain) |-> run'[i]] /\ h = [i \in 1..Len(chain) |-> h[i]]
      <4>1. run' \in Seq(Range(run')) /\ h \in Seq(Range(h))
        BY <1>1, <2>3 DEF IsSeq
      <4> QED BY <1>1, <2>3, <4>1
    <3> QED BY <3>2, <3>3
  <2> QED BY <2>3, <2>5, <2>6 DEF h
<1> QED BY <1>5, <1>6 DEF FetchHeaders, h

\* Fetching headers.
LEMMA FetchKeeps ==
  ASSUME IInv, FetchHeaders
  PROVE  IInv'
<1>1. UNCHANGED <<chain, forks, deep, cache, disk, build, pack, gate, bookmark>>
  BY DEF FetchHeaders, prover, checker
<1>2. /\ IsSeq(run') /\ Len(run') = Len(chain)
      /\ \A i \in DOMAIN run' : run'[i].id[1] \in 0..forks
      /\ Linked(run') => run' = Headers(chain)
  BY FetchIs
<1>3. /\ DOMAIN Headers(chain) = 1..Len(chain) /\ Len(chain) \in Nat
      /\ \A i \in 1..Len(chain) : Headers(chain)[i] = Header(chain[i])
      /\ DOMAIN chain = 1..Len(chain) /\ Len(Headers(chain)) = Len(chain)
  BY HeadersAre, SeqLen DEF IInv, ChainSound, IsChain
<1>4. RunSound'
  <2>1. ASSUME Linked(run'), NEW n \in DOMAIN run' PROVE \A i \in 1..n : run'[i] = Header(chain[i])
    BY <1>2, <1>3, <2>1
  <2>2. Len(run') <= Len(chain)
    BY <1>2, <1>3
  <2> QED BY <1>1, <1>2, <2>1, <2>2 DEF RunSound
<1>5. RunDeep'
  <2> SUFFICES ASSUME run' = Headers(chain), NEW i \in 1..Len(chain)
               PROVE  \E txs : /\ IsListing(txs) /\ run'[i].root = MerkleRoot(txs)
                               /\ Len(run') + 1 - i >= MinConfs =>
                                    Range(txs) \cap Txs \subseteq deep
    BY <1>1, <1>2, <1>3 DEF RunDeep
  <2>1. IsListing(chain[i].txs)
    BY <1>3 DEF IInv, ChainSound, IsChain, IsBlock
  <2>2. run'[i].root = MerkleRoot(chain[i].txs)
    BY <1>3, HeaderIs
  <2>3. ASSUME Len(run') + 1 - i >= MinConfs, NEW t \in Range(chain[i].txs) \cap Txs
        PROVE  t \in deep
    <3>1. Deeper(chain, t, MinConfs)
      BY <1>2, <1>3, <2>3 DEF Deeper
    <3> QED BY <3>1 DEF IInv, ChainSound
  <2> QED BY <2>1, <2>2, <2>3
<1>6. ChainSound' /\ ProverSound' /\ GateSound'
  <2>1. ProverSound'
    BY <1>1 DEF IInv, ProverSound, IsBuild, AreAnchors
  <2>2. GateSound'
    BY <1>1 DEF IInv, GateSound, IsGate
  <2> QED BY <1>1, <2>1, <2>2 DEF IInv, ChainSound
<1> QED BY <1>4, <1>5, <1>6 DEF IInv

\* verify_consignment reads only.
LEMMA VerifyKeeps ==
  ASSUME IInv, NEW ts \in Consignments, VerifyConsignment(ts)
  PROVE  IInv'
<1>1. UNCHANGED <<chain, forks, deep, cache, disk, build, pack, run, gate, bookmark>>
  BY DEF VerifyConsignment, prover, client, checker
<1>2. ChainSound' /\ RunSound' /\ RunDeep'
  BY <1>1 DEF IInv, ChainSound, RunSound, RunDeep
<1>3. ProverSound'
  BY <1>1 DEF IInv, ProverSound, IsBuild, AreAnchors
<1>4. GateSound'
  BY <1>1 DEF IInv, GateSound, IsGate
<1> QED BY <1>2, <1>3, <1>4 DEF IInv

\* What a gate does leaves the rest of the invariant alone.
LEMMA GateMoves ==
  ASSUME IInv, UNCHANGED <<chain, forks, deep, prover, client>>, GateSound'
  PROVE  IInv'
<1>1. UNCHANGED <<chain, forks, deep, cache, disk, build, pack, run>>
  BY DEF prover, client
<1>2. ChainSound' /\ RunSound' /\ RunDeep'
  BY <1>1 DEF IInv, ChainSound, RunSound, RunDeep
<1>3. ProverSound'
  BY <1>1 DEF IInv, ProverSound, IsBuild, AreAnchors
<1> QED BY <1>2, <1>3 DEF IInv

\* A check begins: what it skips is in the bookmark.
LEMMA CheckKeeps ==
  ASSUME IInv, NEW asked \in SUBSET Txs, NEW todo \in SUBSET Txs, NEW keeps,
         asked \subseteq bookmark \cup todo, Check(asked, todo, keeps)
  PROVE  IInv'
<1>1. /\ gate' = [Idle EXCEPT !.pc = "check", !.asked = asked, !.todo = todo, !.keeps = keeps]
      /\ UNCHANGED <<chain, forks, deep, prover, client>> /\ bookmark' = bookmark
  BY DEF Check
<1>2. gate' = [pc |-> "check", asked |-> asked, todo |-> todo, unmined |-> {}, buried |-> {},
               keeps |-> keeps]
  BY <1>1 DEF Idle
<1>3. IsGate(gate)'
  <2>1. /\ gate'.asked = asked /\ gate'.todo = todo /\ gate'.buried = {} /\ gate'.unmined = {}
        /\ gate' = [pc |-> gate'.pc, asked |-> gate'.asked, todo |-> gate'.todo,
                    unmined |-> gate'.unmined, buried |-> gate'.buried, keeps |-> gate'.keeps]
    BY <1>2
  <2>2. bookmark' = bookmark
    BY <1>1
  <2> QED BY <2>1, <2>2 DEF IsGate
<1>4. GateSound'
  BY <1>1, <1>3 DEF IInv, GateSound
<1> QED BY <1>1, <1>4, GateMoves

\* The node's answer for one witness.
LEMMA CheckWindowKeeps ==
  ASSUME IInv, NEW t \in Txs, CheckWindow(t)
  PROVE  IInv'
<1>1. UNCHANGED <<chain, forks, deep, prover, client>> /\ bookmark' = bookmark
  BY DEF CheckWindow
<1>2. IsGate(gate) /\ forks \in Nat /\ IsChain(chain, forks)
  BY DEF IInv, GateSound, ChainSound
<1>3. CASE gate' = [gate EXCEPT !.todo = @ \ {t}, !.unmined = @ \cup {t}]
  <2>1. gate' = [pc |-> gate.pc, asked |-> gate.asked, todo |-> gate.todo \ {t},
                 unmined |-> gate.unmined \cup {t}, buried |-> gate.buried,
                 keeps |-> gate.keeps]
    BY <1>2, <1>3 DEF IsGate
  <2>2. IsGate(gate)'
    BY <1>1, <1>2, <2>1 DEF IsGate
  <2>3. GateSound'
    BY <1>1, <2>2 DEF IInv, GateSound
  <2> QED BY <1>1, <2>3, GateMoves
<1>4. ASSUME Confirmations(chain, t) >= MinConfs,
             NEW deepest \in {{}, {u \in {t} : gate.keeps /\ Buried(Confirmations(chain, t))}},
             gate' = [gate EXCEPT !.todo = @ \ {t}, !.buried = @ \cup deepest]
      PROVE  IInv'
  <2>1. gate' = [pc |-> gate.pc, asked |-> gate.asked, todo |-> gate.todo \ {t},
                 unmined |-> gate.unmined, buried |-> gate.buried \cup deepest,
                 keeps |-> gate.keeps]
    BY <1>2, <1>4 DEF IsGate
  <2>2. t \in deep
    <3>1. Deeper(chain, t, MinConfs)
      BY <1>2, <1>4, ConfirmationsAre, SpvAssumption
    <3> QED BY <3>1 DEF IInv, ChainSound
  <2>3. ASSUME NEW u \in deepest PROVE u = t /\ Deeper(chain, t, BuryDepth)
    <3>1. u = t /\ Confirmations(chain, t) >= BuryDepth
      BY <2>3, <1>4 DEF Buried
    <3> QED BY <1>2, <3>1, ConfirmationsAre, SpvAssumption
  <2>4. IsGate(gate)'
    BY <1>1, <1>2, <2>1, <2>2, <2>3 DEF IsGate
  <2>5. GateSound'
    BY <1>1, <2>4 DEF IInv, GateSound
  <2> QED BY <1>1, <2>5, GateMoves
<1> QED BY <1>3, <1>4 DEF CheckWindow

\* The verdict.
LEMMA GateClosesKeeps ==
  ASSUME IInv, GateCloses
  PROVE  IInv'
<1>1. gate' = Idle /\ UNCHANGED <<chain, forks, deep, prover, client>>
  BY DEF GateCloses
<1>2. IsGate(gate)'
  BY <1>1 DEF IsGate, Idle
<1>3. \A t \in bookmark \cup gate.buried : t \in Txs /\ Deeper(chain, t, BuryDepth)
  BY DEF IInv, GateSound, IsGate
<1>4. bookmark' \subseteq bookmark \cup gate.buried
  BY DEF GateCloses
<1>5. GateSound'
  BY <1>1, <1>2, <1>3, <1>4 DEF GateSound
<1> QED BY <1>1, <1>5, GateMoves

-----------------------------------------------------------------------------
(***************************************************************************)
(* The invariant holds                                                     *)
(***************************************************************************)

\* The chain of one block.
LEMMA GenesisIs ==
  ASSUME Init
  PROVE  IInv
<1> DEFINE b == [id |-> <<0, 0>>, prev |-> <<0, -1>>, bits |-> PowLimit, time |-> Times[0],
                 txs |-> Others]
<1>1. chain = <<b>> /\ forks = 0 /\ deep = {} /\ bookmark = {}
      /\ cache = <<>> /\ disk = <<>> /\ pack = <<>> /\ run = <<>>
      /\ build = Resting /\ gate = Idle
  BY DEF Init
<1>2. /\ b.id = <<0, 0>> /\ b.bits = PowLimit /\ b.time = Times[0] /\ b.txs = Others
  OBVIOUS
<1> HIDE DEF b
<1>3. Len(chain) = 1 /\ DOMAIN chain = 1..1 /\ chain[1] = b /\ IsSeq(chain)
  <2>1. Len(chain) = 1 /\ DOMAIN chain = 1..1 /\ chain[1] = b
    BY <1>1
  <2>2. chain = [i \in 1..1 |-> chain[i]]
    BY <1>1
  <2> QED BY <2>1, <2>2, FunctionIsSeq
<1>4. IsListing(Others)
  <2>1. Cardinality(Txs) \in Nat
    BY SpvAssumption, FS_CardinalityType
  <2>2. Power(2, MaxMerkleDepth) \in Nat
    BY HeaderAssumption, PowerPositive
  <2>3. IsSeq(Others) /\ Others # <<>>
    BY SpvAssumption DEF IsSeq
  <2>4. Len(Others) <= Power(2, MaxMerkleDepth)
    BY <2>1, <2>2, <2>3, SeqLen, SpvAssumption
  <2> QED BY <2>3, <2>4 DEF IsListing, Leaves
<1>5. IsBlock(chain, forks, 1)
  <2>1. PowLimit \in Compact
    BY HeaderAssumption DEF Compact
  <2>2. Times[0] \in Nat
    BY SpvAssumption
  <2>3. chain[1].id = <<chain[1].id[1], 1 - 1>> /\ chain[1].id[1] \in 0..forks
    BY <1>1, <1>2, <1>3
  <2> QED BY <1>2, <1>3, <1>4, <2>1, <2>2, <2>3 DEF IsBlock
<1>6. IsChain(chain, forks)
  <2>1. MinedOnce(chain)
    BY <1>3 DEF MinedOnce
  <2>2. chain # <<>> /\ Len(chain) <= MaxHeight + 1 /\ \A i \in 2..Len(chain) : FALSE
    BY <1>3, SeqLen, SpvAssumption
  <2>3. \A i \in DOMAIN chain : IsBlock(chain, forks, i)
    BY <1>3, <1>5
  <2> QED BY <1>2, <1>3, <2>1, <2>2, <2>3 DEF IsChain
<1>7. ASSUME NEW t \in Txs, Deeper(chain, t, MinConfs) PROVE FALSE
  BY <1>2, <1>3, <1>7, SpvAssumption DEF Deeper
<1>8. ChainSound
  BY <1>1, <1>6, <1>7 DEF ChainSound
<1>9. ProverSound
  BY <1>1, NoAnchors DEF ProverSound, IsBuild, Resting
<1>10. RunSound /\ RunDeep
  <2>1. IsSeq(run) /\ Len(run) = 0 /\ DOMAIN run = {}
    BY <1>1 DEF IsSeq
  <2> QED BY <1>3, <2>1 DEF RunSound, RunDeep
<1>11. GateSound
  BY <1>1 DEF GateSound, IsGate, Idle
<1> QED BY <1>8, <1>9, <1>10, <1>11 DEF IInv

\* Every step keeps the invariant.
LEMMA StepKeeps ==
  ASSUME IInv, [Next]_vars
  PROVE  IInv'
<1>1. CASE Mine
  <2>1. Len(chain) \in 1..Len(chain)
    BY <1>1, MineIs DEF IInv, Rewritten
  <2>2. Rewritten(Len(chain)) /\ UNCHANGED <<prover, client, checker>>
    BY <1>1, MineIs DEF IInv, Mine
  <2> QED BY <2>1, <2>2, NodeMoves
<1>2. CASE Reorg
  <2>1. PICK n \in 1..Len(chain) : Rewritten(n)
    BY <1>2, ReorgIs DEF IInv
  <2>2. UNCHANGED <<prover, client, checker>>
    BY <1>2 DEF Reorg
  <2> QED BY <2>1, <2>2, NodeMoves
<1>3. CASE \E ts \in Consignments : Ask(ts) \/ AskBroker(ts)
  BY <1>3, AskKeeps, AskBrokerKeeps
<1>4. CASE Get \/ GetMerkle \/ GetHeader \/ Serve \/ Restart
  BY <1>4, GetKeeps, GetMerkleKeeps, GetHeaderKeeps, ServeKeeps, RestartKeeps
<1>5. CASE FetchHeaders
  BY <1>5, FetchKeeps
<1>6. CASE \E ts \in Consignments : VerifyConsignment(ts)
  BY <1>6, VerifyKeeps
<1>7. ASSUME NEW ts \in Consignments, ValidateIncoming(ts) PROVE IInv'
  <2>1. ts \in SUBSET Txs /\ ts \ bookmark \in SUBSET Txs
        /\ ts \subseteq bookmark \cup (ts \ bookmark)
    BY DEF Consignments
  <2>2. Check(ts, ts \ bookmark, TRUE)
    BY <1>7 DEF ValidateIncoming
  <2> QED BY <2>1, <2>2, CheckKeeps
<1>8. ASSUME NEW ts \in Consignments, Precheck(ts) PROVE IInv'
  <2>1. ts \in SUBSET Txs /\ ts \subseteq bookmark \cup ts
    BY DEF Consignments
  <2>2. Check(ts, ts, FALSE)
    BY <1>8 DEF Precheck
  <2> QED BY <2>1, <2>2, CheckKeeps
<1>9. ASSUME NEW ts \in Consignments, NEW swap \in ts, ValidateBuy(ts, swap) PROVE IInv'
  <2>1. /\ ts \ {swap} \in SUBSET Txs /\ ts \ (bookmark \cup {swap}) \in SUBSET Txs
        /\ ts \ {swap} \subseteq bookmark \cup (ts \ (bookmark \cup {swap}))
    BY DEF Consignments
  <2>2. Check(ts \ {swap}, ts \ (bookmark \cup {swap}), TRUE)
    BY <1>9 DEF ValidateBuy
  <2> QED BY <2>1, <2>2, CheckKeeps
<1>10. CASE \E t \in Txs : CheckWindow(t)
  BY <1>10, CheckWindowKeeps
<1>11. CASE GateCloses
  BY <1>11, GateClosesKeeps
<1>12. CASE UNCHANGED vars
  <2>1. UNCHANGED <<chain, forks, deep, prover, client, gate, bookmark>>
    BY <1>12 DEF vars, checker
  <2>2. GateSound'
    BY <2>1 DEF IInv, GateSound, IsGate
  <2> QED BY <2>1, <2>2, GateMoves
<1> QED
  BY <1>1, <1>2, <1>3, <1>4, <1>5, <1>6, <1>7, <1>8, <1>9, <1>10, <1>11, <1>12 DEF Next

\* The invariant holds of every run.
THEOREM Invariance == Spec => []IInv
<1>1. Init => IInv
  BY GenesisIs
<1>2. IInv /\ [Next]_vars => IInv'
  BY StepKeeps
<1> QED BY <1>1, <1>2, PTL DEF Spec

\* A reorganisation never unmines what a gate has bookmarked: the bookmark of the RGB
\* backend, which is never asked about again, holds only mined witnesses.
THEOREM BookmarkIsSafe == Spec => []BookmarkedStaysMined
<1>1. IInv => BookmarkedStaysMined
  <2> SUFFICES ASSUME IInv, NEW t \in bookmark PROVE t \in Mined(chain)
    BY DEF BookmarkedStaysMined
  <2>1. t \in Txs /\ Deeper(chain, t, BuryDepth)
    BY DEF IInv, GateSound
  <2> QED BY <2>1, MinedIs DEF Deeper
<1>2. Spec => []IInv
  BY Invariance
<1> QED BY <1>1, <1>2, PTL

\* A client that has all of the chain's headers finds them valid.
LEMMA ChainIsValid ==
  ASSUME IInv, run = Headers(chain)
  PROVE  ValidRun(Checkpoint, run)
<1>1. /\ IsSeq(run) /\ Len(run) = Len(chain) /\ DOMAIN run = 1..Len(chain)
      /\ \A i \in 1..Len(chain) : run[i] = Header(chain[i])
      /\ Len(chain) \in Nat /\ Len(chain) >= 1
  BY HeadersAre DEF IInv
<1>2. DOMAIN chain = 1..Len(chain) /\ IsChain(chain, forks) /\ forks \in Nat
  BY SeqLen DEF IInv, ChainSound, IsChain
<1>3. \A i \in 1..Len(chain) : /\ run[i].id = chain[i].id /\ run[i].prev = chain[i].prev
                               /\ run[i].bits = chain[i].bits /\ run[i].time = chain[i].time
                               /\ run[i].work = 0
  BY <1>1, HeaderIs
<1>4. Checkpoint.height = 0 /\ Checkpoint.id = <<0, 0>>
  BY DEF Checkpoint
<1>5. run # <<>> /\ run[1].id = Checkpoint.id
  BY <1>1, <1>2, <1>3, <1>4, SeqLen DEF IsChain
<1>6. ASSUME NEW i \in DOMAIN run, i > 1
      PROVE  /\ run[i].prev = run[i - 1].id
             /\ run[i].bits = RequiredBits(Checkpoint, run, i)
  <2>1. i \in 2..Len(chain) /\ i \in 2..(Len(chain) + 1) /\ i \in 1..Len(chain)
        /\ i - 1 \in 1..Len(chain)
    BY <1>1, <1>6
  <2>2. chain[i].prev = chain[i - 1].id /\ chain[i].bits = OwedBits(chain, i)
    BY <1>2, <2>1 DEF IsChain, Follows
  <2>3. HeightOf(Checkpoint, i) = i - 1
    BY <1>4, <2>1 DEF HeightOf
  <2>4. (i - 1) % Interval = 0 => i - Interval \in 1..Len(chain)
    BY <1>2, <2>1, OwedIs
  <2>5. RequiredBits(Checkpoint, run, i) = OwedBits(chain, i)
    <3>1. CASE (i - 1) % Interval = 0
      BY <1>3, <2>1, <2>3, <2>4, <3>1 DEF RequiredBits, OwedBits
    <3>2. CASE (i - 1) % Interval # 0
      BY <1>3, <2>1, <2>3, <3>2 DEF RequiredBits, OwedBits
    <3> QED BY <3>1, <3>2
  <2> QED BY <1>3, <2>1, <2>2, <2>5
<1>7. ASSUME NEW i \in DOMAIN run PROVE MeetsPow(run[i])
  <2>1. chain[i].bits \in Compact
    BY <1>1, <1>2 DEF IsChain, IsBlock
  <2>2. TargetFromCompact(run[i].bits) \in Nat /\ run[i].work = 0
    BY <1>1, <1>3, <2>1, TargetIsNat
  <2> QED BY <2>2 DEF MeetsPow
<1>8. Checkpoint.height % Interval = 0
  BY <1>4, HeaderAssumption
<1>9. Linked(run)
  BY <1>6 DEF Linked
<1> QED BY <1>5, <1>6, <1>7, <1>8, <1>9 DEF ValidRun

\* A proof read from the chain leads to the header the client has.
LEMMA ProofIsMined ==
  ASSUME IInv, run = Headers(chain),
         NEW t \in DOMAIN pack, t \in Mined(chain), Confirmations(chain, t) >= MinConfs,
         NEW b, b = At(chain, HeightIn(chain, t)),
         NEW pos, pos = pack[t].index, pack[t].block = b.id,
         pos < Len(b.txs), b.txs[pos + 1] = t, pack[t].branch = Path(b.txs, pos).branch
  PROVE  Verdict(t, pack, Checkpoint, run, MinConfs) = "mined"
<1> DEFINE a == pack[t]
           h == HeightIn(chain, t)
           at == {i \in DOMAIN run : run[i].id = a.block}
           info == HeaderAt(Checkpoint, run, a.block, a.height)
<1>1. /\ DOMAIN run = 1..Len(chain) /\ Len(run) = Len(chain)
      /\ \A i \in 1..Len(chain) : run[i] = Header(chain[i])
      /\ Len(chain) \in Nat /\ Len(chain) >= 1
  BY HeadersAre DEF IInv
<1>2. DOMAIN chain = 1..Len(chain) /\ IsChain(chain, forks) /\ forks \in Nat
  BY SeqLen DEF IInv, ChainSound, IsChain
<1>3. t \in Txs /\ h \in 0..Tip(chain) /\ Confirmations(chain, t) = Len(chain) - h
  <2>1. t \in Txs
    BY MinedIs
  <2> QED BY <1>2, <2>1, ConfirmationsAre
<1> HIDE DEF h
<1>4. h \in Nat /\ h + 1 \in 1..Len(chain) /\ b = chain[h + 1]
  BY <1>1, <1>3 DEF Tip, At, h
<1>5. \A i \in 1..Len(chain) : run[i].id = <<run[i].id[1], i - 1>>
  <2> TAKE i \in 1..Len(chain)
  <2>1. IsBlock(chain, forks, i) /\ run[i].id = chain[i].id
    BY <1>1, <1>2, HeaderIs DEF IsChain
  <2> QED BY <2>1 DEF IsBlock
<1>6. run[h + 1].id = b.id /\ run[h + 1].root = MerkleRoot(b.txs)
  BY <1>1, <1>4, HeaderIs
<1>7. at = {h + 1}
  <2>1. h + 1 \in at
    BY <1>1, <1>4, <1>6
  <2>2. ASSUME NEW i \in at PROVE i = h + 1
    <3>1. i \in 1..Len(chain) /\ run[i].id = run[h + 1].id
      BY <1>1, <1>6
    <3>2. run[i].id[2] = i - 1 /\ run[h + 1].id[2] = (h + 1) - 1
      BY <1>4, <1>5, <3>1
    <3> QED BY <1>1, <1>4, <3>1, <3>2
  <2> QED BY <2>1, <2>2
<1>8. Max(at) = h + 1
  <2>1. at \subseteq Nat /\ at # {} /\ \A i \in at : i <= h + 1
    <3> HIDE DEF at
    <3> QED BY <1>4, <1>7
  <2>2. h + 1 \in Nat
    BY <1>4
  <2> DEFINE top == h + 1
  <2>3. Max(at) \in at
    <3> HIDE DEF at, top
    <3> QED BY <2>1, <2>2, MaxIsIn DEF top
  <2> QED BY <1>7, <2>3
<1>9. a.height = h /\ IsAnchor(a)
  <2>1. IsAnchor(a)
    BY DEF IInv, ProverSound, AreAnchors
  <2>2. a.block = run[h + 1].id
    BY <1>6
  <2>3. a.block[2] = (h + 1) - 1
    BY <1>4, <1>5, <2>2
  <2> QED BY <1>4, <2>1, <2>3 DEF IsAnchor
<1>10. info = [known |-> TRUE, root |-> run[h + 1].root, confirmations |-> Len(run) + 1 - (h + 1)]
  <2>1. HeightOf(Checkpoint, h + 1) = h
    BY <1>4 DEF HeightOf, Checkpoint
  <2> QED BY <1>7, <1>8, <1>9, <2>1 DEF HeaderAt
<1>11. info.known /\ info.root = MerkleRoot(b.txs) /\ info.confirmations = Len(chain) - h
  BY <1>1, <1>4, <1>6, <1>10
<1>12. IsListing(b.txs) /\ pos \in 0..(Len(b.txs) - 1)
  <2>1. IsListing(b.txs)
    BY <1>2, <1>4 DEF IsChain, IsBlock
  <2>2. pos \in Nat /\ Len(b.txs) \in Nat
    BY <1>9, <2>1, SeqLen DEF IsAnchor, IsListing
  <2> QED BY <2>1, <2>2
<1>13. ~Malformed(a.branch)
  <2>1. Len(Path(b.txs, pos).branch) <= MaxMerkleDepth
    BY <1>12, PathIsShort, HeaderAssumption DEF IsListing
  <2>2. Len(a.branch) \in Nat /\ MaxMerkleDepth \in Nat
    BY <1>9, SeqLen, HeaderAssumption DEF IsAnchor
  <2> QED BY <2>1, <2>2 DEF Malformed
<1>14. ComputeMerkleRoot(t, a.branch, a.index) = info.root
  <2>1. ComputeMerkleRoot(b.txs[pos + 1], Path(b.txs, pos).branch, pos) = MerkleRoot(b.txs)
    BY <1>12, BranchLeadsToRoot DEF IsListing
  <2> QED BY <1>11, <2>1
<1>15. ~(info.confirmations < Max({MinConfs, 1}))
  <2>1. MinConfs \in Nat \ {0}
    BY SpvAssumption
  <2>2. Max({MinConfs, 1}) = MinConfs
    BY <2>1, MaxOfTwo
  <2>3. Len(chain) - h >= MinConfs
    BY <1>3
  <2> QED BY <1>1, <1>4, <1>11, <2>1, <2>2, <2>3
<1> HIDE DEF info
<1> QED BY <1>11, <1>13, <1>14, <1>15 DEF Verdict, info

\* A client with all the headers of the chain accepts the proof of a deep transaction that
\* the prover read from that chain: verify_consignment refuses nothing sound.
THEOREM FreshProofsVerify == Spec => []FreshProofVerifies
<1>1. IInv => FreshProofVerifies
  <2> SUFFICES ASSUME IInv, run = Headers(chain),
                      NEW t \in DOMAIN pack, t \in Mined(chain),
                      Confirmations(chain, t) >= MinConfs,
                      LET b == At(chain, HeightIn(chain, t))
                          pos == pack[t].index
                      IN pack[t].block = b.id /\ pos < Len(b.txs) /\ b.txs[pos + 1] = t
                         /\ pack[t].branch = Path(b.txs, pos).branch
               PROVE  /\ ValidRun(Checkpoint, run)
                      /\ VerifyPack({t}, {}, pack, Checkpoint, run, MinConfs)
    BY Zenon DEF FreshProofVerifies
  <2>1. ValidRun(Checkpoint, run)
    BY ChainIsValid
  <2>2. Verdict(t, pack, Checkpoint, run, MinConfs) = "mined"
    BY ProofIsMined
  <2>3. {t} \ {} = {t} /\ Cardinality({t}) <= MaxWitnesses
    <3>1. Cardinality({t}) = 1
      BY FS_Singleton
    <3>2. \A n \in Nat \ {0} : 1 <= n
      OBVIOUS
    <3>3. MaxWitnesses \in Nat \ {0}
      BY HeaderAssumption
    <3> QED BY <3>1, <3>2, <3>3
  <2> QED BY <2>1, <2>2, <2>3 DEF VerifyPack
<1>2. Spec => []IInv
  BY Invariance
<1> QED BY <1>1, <1>2, PTL

\* What is buried has been deep enough.
LEMMA BuriedIsDeep ==
  ASSUME IInv, NEW t \in Txs, Deeper(chain, t, BuryDepth)
  PROVE  t \in deep
<1>1. PICK i \in DOMAIN chain : t \in Range(chain[i].txs) /\ Len(chain) + 1 - i >= BuryDepth
  BY DEF Deeper
<1>2. Len(chain) \in Nat /\ DOMAIN chain = 1..Len(chain)
  BY SeqLen DEF IInv, ChainSound, IsChain
<1>3. Len(chain) + 1 - i >= MinConfs
  BY <1>1, <1>2, SpvAssumption
<1>4. Deeper(chain, t, MinConfs)
  BY <1>1, <1>3 DEF Deeper
<1> QED BY <1>4 DEF IInv, ChainSound

\* A proof that a thin client accepts is of a transaction that was deep enough.
LEMMA VerdictIs ==
  ASSUME NoNodeIsALeaf, IInv, Linked(run), NEW t \in Txs,
         Verdict(t, pack, Checkpoint, run, MinConfs) = "mined"
  PROVE  t \in deep
<1> DEFINE a == pack[t]
           at == {i \in DOMAIN run : run[i].id = a.block}
           m == Max(at)
           info == HeaderAt(Checkpoint, run, a.block, a.height)
<1>1. /\ t \in DOMAIN pack /\ info.known
      /\ ComputeMerkleRoot(t, a.branch, a.index) = info.root
      /\ ~(info.confirmations < Max({MinConfs, 1}))
  BY DEF Verdict
<1>2. IsSeq(run) /\ Len(run) \in Nat /\ DOMAIN run = 1..Len(run)
  BY SeqLen DEF IInv, RunSound
<1>3. at # {} /\ info = [known |-> TRUE, root |-> run[m].root,
                         confirmations |-> Len(run) + 1 - m]
  BY <1>1 DEF HeaderAt, NoInfo
<1>4. m \in 1..Len(run)
  <2>1. at \subseteq Nat /\ \A i \in at : i <= Len(run)
    BY <1>2
  <2> HIDE DEF at
  <2>2. m \in at
    BY <1>2, <1>3, <2>1, MaxIsIn
  <2> QED BY <1>2, <2>2 DEF at
<1>5. info.root = run[m].root /\ info.confirmations = Len(run) + 1 - m
  BY <1>3
<1> HIDE DEF m, info
<1>6. Len(run) + 1 - m >= MinConfs
  <2>1. MinConfs \in Nat \ {0}
    BY SpvAssumption
  <2>2. Max({MinConfs, 1}) = MinConfs
    BY <2>1, MaxOfTwo
  <2> QED BY <1>1, <1>2, <1>4, <1>5, <2>1, <2>2
<1>7. PICK txs : /\ IsListing(txs) /\ run[m].root = MerkleRoot(txs)
                 /\ Range(txs) \cap Txs \subseteq deep
  BY <1>2, <1>4, <1>6 DEF IInv, RunDeep
<1>8. Len(a.branch) \in Nat
  <2>1. IsSeq(a.branch)
    BY <1>1 DEF IInv, ProverSound, AreAnchors, IsAnchor
  <2> QED BY <2>1, SeqLen
<1>9. t \in Range(txs)
  <2>1. ComputeMerkleRoot(t, a.branch, a.index) = MerkleRoot(txs) /\ t \in Leaves
    BY <1>1, <1>5, <1>7 DEF Leaves
  <2> HIDE DEF a
  <2> QED BY <1>7, <1>8, <2>1, RootHasLeaf DEF IsListing
<1> QED BY <1>7, <1>9

\* What joins the accepted has been deep enough.
LEMMA AcceptKeeps ==
  ASSUME NoNodeIsALeaf, IInv, AcceptedWasDeep, [Next]_vars
  PROVE  AcceptedWasDeep'
<1>1. CASE Mine \/ Reorg
  BY <1>1 DEF AcceptedWasDeep, Mine, Reorg
<1>2. CASE UNCHANGED <<deep, accepted>>
  BY <1>2 DEF AcceptedWasDeep
<1>3. ASSUME NEW ts \in Consignments, VerifyConsignment(ts) PROVE AcceptedWasDeep'
  <2>1. accepted' = accepted \cup ts /\ deep' = deep
    BY <1>3 DEF VerifyConsignment
  <2>2. ASSUME NEW t \in ts PROVE t \in deep
    <3>1. Linked(run) /\ Verdict(t, pack, Checkpoint, run, MinConfs) = "mined"
      BY <1>3 DEF VerifyConsignment, ValidRun, VerifyPack
    <3>2. t \in Txs
      BY DEF Consignments
    <3> QED BY <3>1, <3>2, VerdictIs
  <2> QED BY <2>1, <2>2 DEF AcceptedWasDeep
<1>4. CASE GateCloses
  <2>1. deep' = deep /\ gate.todo = {}
        /\ (accepted' = accepted \/ (gate.unmined = {} /\ accepted' = accepted \cup gate.asked))
    BY <1>4 DEF GateCloses
  <2>2. \A t \in bookmark : t \in deep
    BY BuriedIsDeep DEF IInv, GateSound
  <2>3. gate.unmined = {} => gate.asked \subseteq deep
    BY <2>1, <2>2 DEF IInv, GateSound, IsGate
  <2> QED BY <2>1, <2>3 DEF AcceptedWasDeep
<1>5. ASSUME NEW ts, Ask(ts) \/ AskBroker(ts) PROVE UNCHANGED <<deep, accepted>>
  BY <1>5 DEF Ask, AskBroker
<1>6. CASE Get \/ GetMerkle \/ GetHeader \/ Serve \/ Restart \/ FetchHeaders
  BY <1>2, <1>6 DEF Get, GetMerkle, GetHeader, Serve, Restart, FetchHeaders
<1>7. ASSUME NEW ts, NEW swap, ValidateIncoming(ts) \/ Precheck(ts) \/ ValidateBuy(ts, swap)
      PROVE  UNCHANGED <<deep, accepted>>
  BY <1>7 DEF ValidateIncoming, Precheck, ValidateBuy, Check
<1>8. ASSUME NEW t \in Txs, CheckWindow(t) PROVE UNCHANGED <<deep, accepted>>
  BY <1>8 DEF CheckWindow
<1>9. CASE UNCHANGED vars
  BY <1>2, <1>9 DEF vars
<1> QED BY <1>1, <1>2, <1>3, <1>4, <1>5, <1>6, <1>7, <1>8, <1>9 DEF Next

\* Whatever a gate or a thin client accepts has been MinConfs deep in the node's best
\* chain, whatever reorganisations came between the reads of its verdict.
THEOREM AcceptedIsDeep == NoNodeIsALeaf => (Spec => []AcceptedWasDeep)
<1> SUFFICES ASSUME NoNodeIsALeaf PROVE Spec => []AcceptedWasDeep
  OBVIOUS
<1>1. Init => AcceptedWasDeep
  BY DEF Init, AcceptedWasDeep
<1>2. IInv /\ AcceptedWasDeep /\ [Next]_vars => AcceptedWasDeep'
  BY AcceptKeeps
<1>3. Spec => []IInv
  BY Invariance
<1> QED BY <1>1, <1>2, <1>3, PTL DEF Spec
=============================================================================
