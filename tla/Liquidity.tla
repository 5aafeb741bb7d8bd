----------------------------- MODULE Liquidity -----------------------------
(***************************************************************************)
(* The liquidity of one side of a maker: the pool its quotes draw on, the  *)
(* order that prices them, and the ladder that rebalancing and the change  *)
(* of settlements keep.  A buy draws on the RGB of a contract, a sell on   *)
(* the BTC pool; the planner does not tell them apart.                     *)
(***************************************************************************)
EXTENDS Ladder, Quoting

CONSTANTS
  Specs,      \* the ladders
  StandingOrders,     \* the standing orders
  MaxPieces,  \* bound: the coins of the pool at first
  MaxPiece    \* bound: the largest of them

ASSUME LiquidityAssumption ==
  /\ Specs \subseteq LadderSpec
  /\ StandingOrders \subseteq [price : Nat \ {0}, scale : Nat \ {0}, size : Nat, spread : Nat]
  /\ {MaxPieces, MaxPiece} \subseteq Nat

VARIABLES
  side,    \* the side of the order
  order,
  spec,
  pieces   \* the available coins, smallest first

liquidity == <<side, order, spec, pieces>>

LiquidityInit ==
  /\ side \in {"buy", "sell"}
  /\ order \in StandingOrders
  /\ spec \in Specs
  /\ \E n \in 0..MaxPieces :
       /\ pieces \in [1..n -> 1..MaxPiece]
       /\ \A i \in 2..n : pieces[i - 1] <= pieces[i]

\* The coins that a selection leaves.
Others(pool, chosen) ==
  FoldLeftDomain(LAMBDA s, i : IF i \in chosen THEN s ELSE Append(s, pool[i]), <<>>, pool)

\* A rebalance pass, once confirmed: the fattest piece is gone, its rungs and the
\* remainder are there.
Split ==
  /\ PlanLadder(spec, pieces).rungs # <<>>
  /\ LET plan == PlanLadder(spec, pieces)
     IN pieces' = Ascending(Front(pieces) \o plan.rungs \o <<plan.left>>)
  /\ UNCHANGED <<side, order, spec>>

\* A quote that settles: the selected coins are spent, and what is over is cut into
\* rungs the other coins leave wanting.  The sats to anchor RGB rungs can be short:
\* the smallest are left out, down to none.  Sats that no output can hold are lost.
Settle(amount) ==
  /\ Quotes(order, amount)
  /\ LET needed == Needed(side, order, amount)
         chosen == Select(side, pieces, needed)
         others == Others(pieces, chosen)
         change == SumOf(pieces, chosen) - needed
         planned == PlanChangeRungs(spec, others, change)
     IN /\ chosen # NoCoins
        /\ \E kept \in 0..Len(planned) :
             LET rungs == SubSeq(planned, 1, kept)
                 rest == change - Total(rungs)
             IN /\ side = "sell" => kept = Len(planned)
                /\ pieces' = Ascending(others \o rungs \o
                     (IF rest = 0 \/ (side = "sell" /\ rest < SEAL_ANCHOR_SATS) THEN <<>>
                      ELSE <<rest>>))
  /\ UNCHANGED <<side, order, spec>>

LiquidityNext == Split \/ \E amount \in 1..order.size : Settle(amount)

LiquiditySpec == LiquidityInit /\ [][LiquidityNext]_liquidity

-----------------------------------------------------------------------------
(***************************************************************************)
(* Properties                                                              *)
(***************************************************************************)

\* Hall's condition for a set of targets (by index) and pieces that cover what is
\* not larger than they are.
Coverable(available, targets, some) ==
  \A i \in some :
    Cardinality({k \in some : targets[k] >= targets[i]})
      <= Cardinality({k \in DOMAIN available : available[k] >= targets[i]})

\* The greedy match of LadderDeficit is optimal: it leaves the fewest targets
\* uncovered that any assignment of pieces to targets leaves.
DeficitIsLeast ==
  LET targets == TargetRungs(spec)
      covered == {Cardinality(s) : s \in {t \in SUBSET DOMAIN targets :
                                            Coverable(pieces, targets, t)}}
  IN Len(LadderDeficit(pieces, targets)) = Len(targets) - Max(covered)

Missing(l, available) == Len(LadderDeficit(available, TargetRungs(l)))

\* Rungs cut from a settlement's change (PlanChangeRungs) are rungs that were missing:
\* each one makes the rest of the pool miss one less.
ChangeRungsAreWanted ==
  \A change \in 0..MaxPiece :
    LET rungs == PlanChangeRungs(spec, pieces, change) IN
    Missing(spec, pieces \o rungs) = Missing(spec, pieces) - Len(rungs)

Exact(amount, most) == {s \in SUBSET DOMAIN pieces : /\ Cardinality(s) <= most
                                                     /\ SumOf(pieces, s) = amount}

\* Whatever the feed advertises can be filled: there is a selection that covers it, of
\* which no coin is superfluous; RGB that a few coins hold exactly leaves no change, and
\* else no more than the smallest coin that covers it.
AdvertisedIsFilled ==
  \A amount \in 1..AvailableSize(side, order, Total(pieces)) :
    LET needed == Needed(side, order, amount)
        chosen == Select(side, pieces, needed)
        change == SumOf(pieces, chosen) - needed
        most == IF Len(pieces) <= SUBSET_LIMIT_3OFN THEN 3
                ELSE IF Len(pieces) <= SUBSET_LIMIT_2OFN THEN 2 ELSE 1
    IN /\ chosen # NoCoins /\ change >= 0
       /\ \A i \in chosen : SumOf(pieces, chosen \ {i}) < needed
       /\ side = "buy" =>
            /\ Exact(needed, most) # {} => change = 0
            /\ \A i \in DOMAIN pieces : pieces[i] >= needed => change <= pieces[i] - needed

\* With a spread, the order that mirrors a fill (build_mirror_order) does not trade at a
\* loss to it, although the total of the fill, the unit price recovered from it and the
\* total of the later trade are all rounded.
MirrorNeverLoses ==
  \A amount \in 1..AvailableSize(side, order, Total(pieces)) :
    LET gross == QuoteTotalSats(order.price, amount, order.scale, side = "buy")
        unit == MirrorUnit(side, RecoveredUnit(gross, amount, order.scale), order.spread)
    IN order.spread > 0 =>
         \A back \in 1..order.size :
           IF side = "buy"
           THEN amount * QuoteTotalSats(unit, back, order.scale, FALSE) <= gross * back
           ELSE amount * QuoteTotalSats(unit, back, order.scale, TRUE) >= gross * back
=============================================================================
