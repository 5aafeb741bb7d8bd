------------------------------- MODULE Ladder -------------------------------
(***************************************************************************)
(* The denomination ladder (crates/rfq-maker/src/rebalance.rs): which      *)
(* pieces of a pool are missing, how a fat piece is cut into them, and how *)
(* the change of a settlement is cut on the way.  One pool, whose pieces   *)
(* are RGB amounts or sats: the planner does not tell them apart.          *)
(*                                                                         *)
(* A ratio is a fraction Num / Den, and tiers are truncated exactly; the   *)
(* code computes them in 64-bit floating point, which is exact for the     *)
(* halving ladder it documents.                                            *)
(***************************************************************************)
EXTENDS Integers, SequencesExt

LadderSpec == [base : Nat, num : Nat, den : Nat \ {0}, tiers : Nat, copies : Nat,
               minPiece : Nat]

REBALANCE_ANCHOR_SATS == 546

Insert(s, x) == InsertAt(s, 1 + Cardinality({i \in DOMAIN s : s[i] <= x}), x)
Ascending(s) == FoldLeft(Insert, <<>>, s)
Descending(s) == Reverse(Ascending(s))
Total(s) == SumFunction(s)

-----------------------------------------------------------------------------
(***************************************************************************)
(* LadderSpec and the planner                                              *)
(***************************************************************************)

\* b to the n, as a recursive function the provers can unfold.
Power(b, n) ==
  LET p[k \in 0..n] == IF k = 0 THEN 1 ELSE b * p[k - 1] IN p[n]

\* The value of a tier: base * ratio ^ i, truncated.
Tier(l, i) == (l.base * Power(l.num, i)) \div Power(l.den, i)

\* Every tier that is not too small, copies times.
TargetRungs(l) ==
  LET Rungs(i) == IF Tier(l, i) >= l.minPiece /\ Tier(l, i) > 0
                  THEN [c \in 1..l.copies |-> Tier(l, i)] ELSE <<>>
  IN FlattenSeq([i \in 1..l.tiers |-> Rungs(i - 1)])

\* The smallest of the pieces left that is large enough covers a target.
Cover(c, t) ==
  LET fits == {i \in DOMAIN c.left : c.left[i] >= t} IN
  IF fits = {} THEN [left |-> <<>>, missing |-> Append(c.missing, t)]
  ELSE [c EXCEPT !.left = SubSeq(@, Min(fits) + 1, Len(@))]

\* Slip: targets are served from the largest down with the pieces in ascending order.
LadderDeficitUnsorted(available, targets) ==
  FoldLeft(Cover, [left |-> Ascending(available), missing |-> <<>>],
           Descending(targets)).missing

\* The targets that no piece covers, smallest first.
LadderDeficit(available, targets) ==
  FoldLeft(Cover, [left |-> Ascending(available), missing |-> <<>>],
           Ascending(targets)).missing

\* What a cut must leave.
Reserve(l) == IF l.minPiece > 1 THEN l.minPiece ELSE 1

\* Cuts the rungs that fit, largest first.
Carve(l, value, deficit) ==
  FoldLeft(LAMBDA c, d : IF c.left >= d + Reserve(l)
                         THEN [left |-> c.left - d, rungs |-> Append(c.rungs, d)]
                         ELSE c,
           [left |-> value, rungs |-> <<>>], Descending(deficit))

\* What the fattest piece is cut into; no rungs if there is nothing to do.
PlanLadder(l, available) ==
  LET deficit == LadderDeficit(available, TargetRungs(l)) IN
  IF deficit = <<>> \/ available = <<>> THEN [left |-> 0, rungs |-> <<>>]
  ELSE Carve(l, Last(Ascending(available)), deficit)

\* Slip: what is missing is counted against an empty pool.
PlanChangeRungsAnew(l, available, change) ==
  Carve(l, change, TargetRungs(l)).rungs

PlanChangeRungs(l, available, change) ==
  Carve(l, change, LadderDeficit(available, TargetRungs(l))).rungs

-----------------------------------------------------------------------------
(***************************************************************************)
(* The budget of a rebalance: a plan is the splits of some assets, records *)
(* of an asset, its source, the sats there and the rungs to cut, largest   *)
(* first, and the rungs of the BTC pool.                                   *)
(***************************************************************************)

RungCount(splits) == Total([i \in DOMAIN splits |-> Len(splits[i].rungs)])

\* The sats a plan needs: an anchor for every rung and every remainder, the BTC
\* rungs and the fee.
RequiredBtc(p, fee) ==
  fee + REBALANCE_ANCHOR_SATS * (RungCount(p.splits) + Len(p.splits)) + Total(p.btc)

Funded(p, funds, fee) ==
  funds + Total([i \in DOMAIN p.splits |-> p.splits[i].sats]) >= RequiredBtc(p, fee)

\* The smallest RGB rung of all goes first, then the smallest BTC rung; an asset
\* with no rungs left goes too, and its source with it.
ScaleDown(p) ==
  IF p.splits # <<>>
  THEN LET least == Min({Last(p.splits[i].rungs) : i \in DOMAIN p.splits})
           i == Min({j \in DOMAIN p.splits : Last(p.splits[j].rungs) = least})
           kept == Front(p.splits[i].rungs)
       IN [p EXCEPT !.splits = IF kept = <<>> THEN RemoveAt(@, i)
                               ELSE [@ EXCEPT ![i].rungs = kept]]
  ELSE [p EXCEPT !.btc = Front(@)]

NothingPlanned(p) == p.splits = <<>> /\ p.btc = <<>>

\* Rungs are dropped until the sats suffice, or there is nothing left to do.
AssembleRebalanceTx(p, funds, fee) ==
  FoldLeft(LAMBDA q, n : IF NothingPlanned(q) \/ Funded(q, funds, fee) THEN q ELSE ScaleDown(q),
           p, [n \in 1..(RungCount(p.splits) + Len(p.btc)) |-> n])

\* The size of a transaction of taproot key spends.
EstimateRebalanceVbytes(inputs, outputs) == 11 + inputs * 58 + outputs * 43
=============================================================================
