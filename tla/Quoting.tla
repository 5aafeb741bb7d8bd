------------------------------ MODULE Quoting ------------------------------
(***************************************************************************)
(* What a maker asks and offers, and the coins it picks for it.            *)
(*                                                                         *)
(*   crates/rfq-maker/src/lib.rs, coin_select.rs                           *)
(*   crates/rfq-store/src/btc.rs          selection of the BTC pool        *)
(*   services/maker-node/src/orders.rs    the price of a mirror order      *)
(*                                                                         *)
(* A pool is the sequence of the amounts of its available coins, smallest  *)
(* first, ties in the order of their outpoints; a selection is the set of  *)
(* the positions of the coins chosen.                                      *)
(***************************************************************************)
EXTENDS Integers, SequencesExt

CONSTANTS
  SEAL_ANCHOR_SATS,  \* what the maker's own anchor in a sell takes
  SUBSET_LIMIT_2OFN, \* the pools in which exact pairs are looked for
  SUBSET_LIMIT_3OFN, \* and exact triples
  BPS                \* what a spread of one is a fraction of

ASSUME QuotingAssumption ==
  /\ {SEAL_ANCHOR_SATS, SUBSET_LIMIT_2OFN, SUBSET_LIMIT_3OFN, BPS} \subseteq Nat \ {0}
  /\ SUBSET_LIMIT_3OFN <= SUBSET_LIMIT_2OFN

-----------------------------------------------------------------------------
(***************************************************************************)
(* Prices: sats for a whole token, which is scale smallest units           *)
(***************************************************************************)

DivCeil(n, d) == (n + d - 1) \div d

\* Up when the taker pays, down when the maker does.
QuoteTotalSats(price, amount, scale, roundUp) ==
  IF roundUp THEN DivCeil(price * amount, scale) ELSE (price * amount) \div scale

\* The units that so many sats pay for.
UnitsForSats(price, sats, scale) == IF price = 0 THEN 0 ELSE (sats * scale) \div price

\* order_prices: what the feed says can be had at once, from the sum of a pool.
AvailableSize(side, order, pool) ==
  Min({order.size,
       IF side = "buy" THEN pool
       ELSE UnitsForSats(order.price, Max({0, pool - SEAL_ANCHOR_SATS}), order.scale)})

\* What a quote takes from the pool: the units sold, or the sats that pay for the
\* units bought and anchor them.
Needed(side, order, amount) ==
  IF side = "buy" THEN amount
  ELSE QuoteTotalSats(order.price, amount, order.scale, FALSE) + SEAL_ANCHOR_SATS

\* unit_price: nothing above the size of the order is quoted.
Quotes(order, amount) == amount <= order.size

\* The strategy's price of a whole token in a fill, to the nearest.
RecoveredUnit(gross, amount, scale) == (gross * scale + amount \div 2) \div amount

\* Slip: rounded towards zero on both sides, with no edge forced.
MirrorUnitTruncated(side, unit, spread) ==
  Max({1, (unit * (IF side = "buy" THEN BPS - spread ELSE BPS + spread)) \div BPS})

\* build_mirror_order: cheaper than what was sold, dearer than what was bought, by
\* one at least if there is a spread.
MirrorUnit(side, unit, spread) ==
  LET edge == IF spread = 0 THEN 0 ELSE 1 IN
  IF side = "buy"
  THEN Max({1, Min({(unit * Max({0, BPS - spread})) \div BPS, Max({0, unit - edge})})})
  ELSE Max({1, DivCeil(unit * (BPS + spread), BPS), unit + edge})

-----------------------------------------------------------------------------
(***************************************************************************)
(* Coin selection                                                          *)
(***************************************************************************)

SumOf(pool, chosen) == SumFunctionOnSet(pool, chosen)

NoCoins == {}

\* GreedyLargestFirstSelector: from the largest down until they suffice.
GreedyLargestFirst(pool, amount) ==
  LET From(i) == i..Len(pool)
      enough == {i \in 1..(Len(pool) + 1) : SumOf(pool, From(i)) >= amount}
  IN IF enough = {} THEN NoCoins ELSE From(Max(enough))

\* The first of some tuples of positions, as a set.
Earliest(tuples) ==
  Range(CHOOSE t \in tuples : \A u \in tuples :
          t = u \/ \E k \in DOMAIN t : t[k] < u[k] /\ \A j \in 1..(k - 1) : t[j] = u[j])

\* Slip: a coin that is too large is preferred to several that are just enough.
GreedyExactFitSingle(pool, amount) ==
  LET larger == {i \in DOMAIN pool : pool[i] >= amount} IN
  IF larger # {} THEN {Min(larger)} ELSE GreedyLargestFirst(pool, amount)

\* GreedyExactFitSelector: one coin that is exact, else two, else three; else the
\* smallest that is larger, unless the largest ones together leave less change.
GreedyExactFit(pool, amount) ==
  LET coins == DOMAIN pool
      one == {t \in [1..1 -> coins] : pool[t[1]] = amount}
      two == IF Len(pool) > SUBSET_LIMIT_2OFN THEN {}
             ELSE {t \in [1..2 -> coins] : t[1] < t[2] /\ pool[t[1]] + pool[t[2]] = amount}
      three == IF Len(pool) > SUBSET_LIMIT_3OFN THEN {}
               ELSE {t \in [1..3 -> coins] : /\ t[1] < t[2] /\ t[2] < t[3]
                                             /\ pool[t[1]] + pool[t[2]] + pool[t[3]] = amount}
      larger == {i \in coins : pool[i] > amount}
      greedy == GreedyLargestFirst(pool, amount)
  IN IF amount = 0 \/ SumOf(pool, coins) < amount THEN NoCoins
     ELSE CASE one # {} -> Earliest(one)
            [] one = {} /\ two # {} -> Earliest(two)
            [] one \cup two = {} /\ three # {} -> Earliest(three)
            [] one \cup two \cup three = {} /\ larger = {} -> greedy
            [] OTHER -> IF pool[Min(larger)] <= SumOf(pool, greedy) THEN {Min(larger)} ELSE greedy

\* Which selector a side's pool uses.
Select(side, pool, amount) ==
  IF side = "buy" THEN GreedyExactFit(pool, amount) ELSE GreedyLargestFirst(pool, amount)
=============================================================================
