------------------------------- MODULE SwapTx -------------------------------
(***************************************************************************)
(* The transactions the maker composes (crates/rfq-rgb/src/swap.rs and     *)
(* swap/rebalance.rs): which outputs they have, what each holds in sats    *)
(* and of which contract, and when the composition is refused.             *)
(*                                                                         *)
(* A coin is a record of its sats and of its allocation per contract; a    *)
(* composition is a sequence of outputs, the tapret host first, where the  *)
(* sort by is_tapret_host puts it.  Scripts, derivation data, signatures   *)
(* and the commitment are left out: every input is one the signer matches. *)
(***************************************************************************)
EXTENDS Integers, SequencesExt

CONSTANT Contracts  \* the contracts a coin may hold an allocation of

DUST_LIMIT_SATS == 546
SEAL_ANCHOR_SATS == 546
REBALANCE_BTC_CHANGE_FLOOR_SATS == 1000

Sats(coins) == FoldLeft(LAMBDA n, c : n + c.sats, 0, coins)
Holding(coins, a) == FoldLeft(LAMBDA n, c : n + c.rgb[a], 0, coins)
AmountOf(rungs) == FoldLeft(+, 0, rungs)

\* Who can spend an output; every one of the maker's has an address of the wallet.
Output(to, sats) == [to |-> to, sats |-> sats, rgb |-> [a \in Contracts |-> 0]]
\* An anchor with an allocation: a rung of the maker's, or the taker's witness seal.
Sealed(to, a, n) == [Output(to, SEAL_ANCHOR_SATS) EXCEPT !.rgb[a] = n]

\* The output that hosts the commitment, at a pinned address of the wallet.
HostOutput(sats) == Output("host", sats)

\* A seal on a coin the taker already has: no output, but where the allocation
\* goes.  Last in the sequence, so that it numbers no real output.
Concealed(a, n) == [Output("taker", 0) EXCEPT !.rgb[a] = n]

\* Change goes to nobody, that is to the fee, when it is not worth an output.
Kept(to, sats, worth) == IF worth THEN <<Output(to, sats)>> ELSE <<>>
AboveDust(to, sats) == Kept(to, sats, sats > DUST_LIMIT_SATS)

BtcRungs(rungs) == [i \in DOMAIN rungs |-> Output("maker", rungs[i])]

SaturatingSub(x, y) == IF x > y THEN x - y ELSE 0

Refused == <<>>

-----------------------------------------------------------------------------
(***************************************************************************)
(* Two-party swaps                                                         *)
(***************************************************************************)

TakerAnchor(seal) == IF seal = "witness" THEN SEAL_ANCHOR_SATS ELSE 0

\* build_buy_transition: what goes to the host, to the rungs and to the taker, in
\* this order.
BuyTransition(maker, a, amount, rungs) ==
  LET change == Holding(maker, a) - amount IN
  IF change < 0 \/ (rungs # <<>> /\ AmountOf(rungs) >= change) THEN Refused
  ELSE <<change - AmountOf(rungs)>> \o rungs \o <<amount>>

\* Slip: the sats of the maker's RGB inputs are left to the fee.
BuyOutputsBurningSats(maker, taker, a, moved, gross, fee, seal) ==
  LET takerChange == Sats(taker) - (gross + fee + TakerAnchor(seal)) IN
  IF takerChange < 0 THEN Refused
  ELSE << [HostOutput(gross) EXCEPT !.rgb[a] = Head(moved)],
          Sealed("taker", a, Last(moved)) >> \o AboveDust("taker", takerChange)

\* assemble_unsigned_psbt: the payout hosts the commitment; the sats under the
\* maker's inputs anchor the rungs, and the rest of them is change.
BuyOutputs(maker, taker, a, moved, gross, fee, seal) ==
  LET rungs == Front(Tail(moved))
      takerChange == Sats(taker) - (gross + fee + TakerAnchor(seal))
      makerChange == Sats(maker) - SEAL_ANCHOR_SATS * Len(rungs)
  IN IF takerChange < 0 \/ makerChange < 0 THEN Refused
     ELSE <<[HostOutput(gross) EXCEPT !.rgb[a] = Head(moved)]>>
            \o AboveDust("maker", makerChange)
            \o [i \in DOMAIN rungs |-> Sealed("maker", a, rungs[i])]
            \o (IF seal = "witness" THEN <<Sealed("taker", a, Last(moved))>> ELSE <<>>)
            \o AboveDust("taker", takerChange)
            \o (IF seal = "blinded" THEN <<Concealed(a, Last(moved))>> ELSE <<>>)

\* create_swap_psbt_buy
BuyTx(maker, taker, a, amount, gross, fee, seal, rungs) ==
  LET moved == BuyTransition(maker, a, amount, rungs) IN
  IF moved = Refused THEN Refused
  ELSE BuyOutputs(maker, taker, a, moved, gross, fee, seal)

\* build_sell_transition: what goes to the maker, and back to the taker.
SellTransition(taker, a, amount, seal) ==
  LET surplus == Holding(taker, a) - amount IN
  IF surplus < 0 \/ (surplus > 0 /\ seal = "none") THEN Refused ELSE <<amount, surplus>>

\* assemble_sell_psbt: the fee is the taker's, out of its payout, and its anchors
\* come back to it; the rungs are BTC, cut from the maker's change.
SellOutputs(taker, maker, a, moved, gross, fee, seal, rungs) ==
  LET change == Sats(maker) - gross - SEAL_ANCHOR_SATS
      payout == SaturatingSub(SaturatingSub(gross, fee) + Sats(taker), TakerAnchor(seal))
  IN IF change < AmountOf(rungs) THEN Refused
     ELSE <<[HostOutput(SEAL_ANCHOR_SATS) EXCEPT !.rgb[a] = moved[1]], Output("taker", payout)>>
            \o AboveDust("maker", change - AmountOf(rungs))
            \o BtcRungs(rungs)
            \o (CASE seal = "witness" -> <<Sealed("taker", a, moved[2])>>
                  [] seal = "blinded" /\ moved[2] > 0 -> <<Concealed(a, moved[2])>>
                  [] OTHER -> <<>>)

\* create_swap_psbt_sell
SellTx(taker, maker, a, amount, gross, fee, seal, rungs) ==
  LET moved == SellTransition(taker, a, amount, seal) IN
  IF moved = Refused THEN Refused
  ELSE SellOutputs(taker, maker, a, moved, gross, fee, seal, rungs)

-----------------------------------------------------------------------------
(***************************************************************************)
(* The maker's own transactions                                            *)
(***************************************************************************)

\* build_recovery_transition: everything the contract holds there moves.
RecoveryTransition(stranded, a) ==
  IF Holding(stranded, a) = 0 THEN Refused ELSE <<Holding(stranded, a)>>

\* build_recovery_sweep: the stranded outpoints to a new host, paid for by a BTC coin.
RecoveryTx(stranded, fund, a, fee) ==
  LET change == Sats(stranded) + fund.sats - SEAL_ANCHOR_SATS - fee
      moved == RecoveryTransition(stranded, a)
  IN IF stranded = <<>> \/ change < 0 \/ moved = Refused THEN Refused
     ELSE <<Sealed("host", a, moved[1])>> \o AboveDust("maker", change)

AboveFloor(to, sats) == Kept(to, sats, sats >= REBALANCE_BTC_CHANGE_FLOOR_SATS)

\* build_split_transition: what stays for the host, then the rungs.
SplitTransition(split) ==
  LET left == split.coin.rgb[split.asset] - AmountOf(split.rungs) IN
  IF left <= 0 THEN Refused ELSE <<left>> \o split.rungs

\* The rungs of every asset, in outputs of their own.
RgbRungs(splits) ==
  FlattenSeq([i \in DOMAIN splits |->
    [j \in DOMAIN splits[i].rungs |->
       Sealed("maker", splits[i].asset, SplitTransition(splits[i])[j + 1])]])

\* Slip: what is left of a source does not go to the host.
RemaindersLost(splits) == HostOutput(SEAL_ANCHOR_SATS)

\* One host for what is left of every source; each transition moves what its own
\* contract holds at its source, nothing else.
Remainders(splits) ==
  [HostOutput(SEAL_ANCHOR_SATS) EXCEPT !.rgb =
     [a \in Contracts |->
        SumSet({SplitTransition(splits[i])[1] : i \in {j \in DOMAIN splits : splits[j].asset = a}})]]

\* build_rebalance_tx: any number of allocations into rungs in one transaction; fund
\* is the BTC source, if there is one.
RebalanceTx(splits, fund, btcRungs, fee) ==
  LET funded == IF fund = <<>> THEN <<>> ELSE btcRungs
      change == Sats([i \in DOMAIN splits |-> splits[i].coin]) + Sats(fund)
                  - SEAL_ANCHOR_SATS * (1 + Len(RgbRungs(splits))) - AmountOf(funded) - fee
  IN IF \/ splits = <<>> \/ \E i \in DOMAIN splits : SplitTransition(splits[i]) = Refused
        \/ change < 0
     THEN Refused
     ELSE <<Remainders(splits)>> \o RgbRungs(splits) \o BtcRungs(funded)
            \o AboveFloor("maker", change)

\* build_btc_split: no host and no transition.
BtcSplitTx(source, rungs, fee) ==
  LET change == source.sats - AmountOf(rungs) - fee IN
  IF rungs = <<>> \/ change < 0 THEN Refused
  ELSE BtcRungs(rungs) \o AboveFloor("maker", change)

\* split_pools: the one or the other.
SplitPoolsTx(splits, fund, btcRungs, fee) ==
  IF splits # <<>> THEN RebalanceTx(splits, fund, btcRungs, fee)
  ELSE IF fund = <<>> THEN Refused
  ELSE BtcSplitTx(fund[1], btcRungs, fee)
=============================================================================
