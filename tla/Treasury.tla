------------------------------ MODULE Treasury ------------------------------
(***************************************************************************)
(* The maker's coins, seen from both sides: the chain and the allocations  *)
(* on it, and what the maker believes of them.  Swaps and the rebalance    *)
(* executor compose transactions (SwapTx) from coins they reserve in two   *)
(* pools, the chain observer brings outputs back into the pools, and two   *)
(* commands of the operator spend coins while the daemon is down.          *)
(*                                                                         *)
(*   crates/rfq-rgb/src/lib_backend.rs     wallet cache, stock, listings   *)
(*   services/maker-node/src/lib.rs        executor, observer, start       *)
(*   services/maker-node/src/commands.rs   recover and rebalance           *)
(*   crates/rfq-maker/src/lib.rs           pools, quotes, reservations     *)
(*                                                                         *)
(* The protocol of a swap and the races of its requests are in Maker; here *)
(* a swap is quoted, built, broadcast and marked, or its reservation goes  *)
(* back on the way.  A transaction the network accepted stays, and the     *)
(* server knows it at once.                                                *)
(***************************************************************************)
EXTENDS Ladder, SwapTx

CONSTANTS
  Genesis,     \* the maker's first coins, a sequence of outputs
  Traded,      \* the contracts of the registry, in the order they are listed
  Offers,      \* bound: the swaps takers ask for
  RgbLadder,   \* the ladder of every asset
  BtcLadder,   \* the ladder of the BTC pool
  Feerate, MaxFee, MinReserve,  \* next_block_feerate, and the executor's settings
  SwapFee,     \* estimate_swap_fee
  Commands,    \* bound: the operator's commands, one of which is used once
  MaxSplits,   \* bound: splits the executor composes
  MaxFaults    \* bound: restarts, lost answers to a broadcast, failed listings

Sides == {"buy", "sell"}
OfferSpec == [side : Sides, asset : Contracts, amount : Nat, gross : Nat,
              taker : Seq([to : {"taker"}, sats : Nat, rgb : [Contracts -> Nat]]),
              seal : {"witness", "blinded"}]

\* A sell is worth more than its fee: below that its payout saturates at the sats
\* the taker brought.
ASSUME TreasuryAssumption ==
  /\ \A i \in DOMAIN Traded : Traded[i] \in Contracts
  /\ \A o \in Offers : o \in OfferSpec /\ (o.side = "sell" => o.gross >= SwapFee)
  /\ {RgbLadder, BtcLadder} \subseteq LadderSpec
  /\ {Feerate, MaxFee, MinReserve, SwapFee, MaxSplits, MaxFaults} \subseteq Nat
  /\ Commands \subseteq {"recover", "rebalance"}

VARIABLES
  txs,       \* the transactions composed, in order; the first holds the genesis
  cache,     \* the outpoints in the wallet's UTXO cache
  rgbPool,   \* the RGB inventory: outpoint -> entry
  btcPool,   \* the BTC inventory
  swaps,     \* the swaps: offer -> record
  exec,      \* the executor's pass
  inflight,  \* the sources of the split it waits for, as a set of at most one set
  observer,  \* the chain observer's next step
  up,        \* the daemon runs
  faults,    \* those so far
  unacked    \* history: transactions the network took and the pools never heard of

pools == <<rgbPool, btcPool>>
vars == <<txs, cache, rgbPool, btcPool, swaps, exec, inflight, observer, up, faults, unacked>>

-----------------------------------------------------------------------------
(***************************************************************************)
(* The chain                                                               *)
(***************************************************************************)

\* A set of outpoints in some order.
Listed(ops) == FoldSet(LAMBDA op, s : Append(s, op), <<>>, ops)

\* An outpoint is a transaction and the number of an output.
Coin(op) == txs[op[1]].outs[op[2]]
CoinsAt(ops) == [i \in DOMAIN ops |-> Coin(ops[i])]
Live == {t \in DOMAIN txs : txs[t].live}
SpentOps == UNION {txs[t].ins : t \in Live}
Unspent == (UNION {{<<t, v>> : v \in DOMAIN txs[t].outs} : t \in Live}) \ SpentOps

\* The maker's own outputs; a stray one the wallet's scan does not find.
Own(op) == Coin(op).to \in {"host", "maker", "stray"}
Scanned(op) == Coin(op).to \in {"host", "maker"}

\* A composed transaction: its allocations are in the stock from here on.
Compose(kind, ins, taker, outs) ==
  Append(txs, [kind |-> kind, ins |-> ins, taker |-> taker, outs |-> outs, live |-> FALSE])

Composed(kind) == Cardinality({t \in DOMAIN txs : txs[t].kind = kind})

Publish(s, t) == [s EXCEPT ![t].live = TRUE]

\* The network takes a transaction whose inputs are unspent.
Broadcastable(t) == txs[t].ins \subseteq Unspent

-----------------------------------------------------------------------------
(***************************************************************************)
(* The wallet                                                              *)
(***************************************************************************)

\* The stock holds the allocations of every transaction composed, sent or not
\* (consume_fascia records them as tentative).
Carries(a, op) == Coin(op).rgb[a] > 0

\* sync_wallet: the cache is what the server lists for the wallet's addresses; what
\* a rescan found stays.
Synced == {op \in Unspent : Scanned(op) \/ op \in cache}

\* sync_from_scratch derives every tweaked address and finds the strays as well.
Rescanned == {op \in Unspent : Own(op)}

\* list_inventory_utxos: what the stock allocates to coins of the wallet.
RgbUtxos(c, a) == {op \in c : Carries(a, op)}

\* resolve_maker_inputs: an input must be a coin the cache knows.
Resolved(c, ops) == ops \subseteq c

\* Slip: only the allocations of contracts the pool has are looked for.
BtcOnlyAsPooled(c, assets) == {op \in c : op \notin DOMAIN rgbPool}

\* list_btc_only_utxos: the coins that carry none of the assets asked about.
BtcOnly(c, assets) == {op \in c : \A a \in assets : ~Carries(a, op)}

-----------------------------------------------------------------------------
(***************************************************************************)
(* The pools                                                               *)
(***************************************************************************)

Entry(a, op) == [asset |-> a, amount |-> Coin(op).rgb[a], status |-> "available", by |-> <<>>]
BtcEntry(op) == [status |-> "available", by |-> <<>>]

AvailableRgb(a) == {op \in DOMAIN rgbPool :
                      rgbPool[op].asset = a /\ rgbPool[op].status = "available"}
AvailableBtc == {op \in DOMAIN btcPool : btcPool[op].status = "available"}

\* Slip: an outpoint the pool has is taken for a new one.
UnknownToNobody(pool, ops) == ops

\* ingest_change_utxo refuses an outpoint the pool has, whatever its asset.
Unknown(pool, ops) == ops \ DOMAIN pool

Ingest(pool, entries) ==
  LET ops == DOMAIN entries IN
  [op \in DOMAIN pool \cup ops |->
     IF op \in Unknown(pool, ops) THEN entries[op] ELSE pool[op]]

\* Asset by asset: a coin comes in for the first one it carries.
IngestAllRgb(pool, c, heard) ==
  LET Held(op) == {i \in DOMAIN Traded : Traded[i] \in heard /\ op \in RgbUtxos(c, Traded[i])}
  IN Ingest(pool, [op \in {o \in c : Held(o) # {}} |-> Entry(Traded[Min(Held(op))], op)])
IngestBtc(pool, c) == Ingest(pool, [op \in BtcOnly(c, Range(Traded)) |-> BtcEntry(op)])

Claim(pool, ops, id) ==
  [op \in DOMAIN pool |-> IF op \in ops THEN [pool[op] EXCEPT !.status = "reserved", !.by = id]
                          ELSE pool[op]]

\* Release and mark work on what the reservation holds.
Move(pool, id, from, to) ==
  [op \in DOMAIN pool |-> IF pool[op].by = id /\ pool[op].status = from
                          THEN [pool[op] EXCEPT !.status = to] ELSE pool[op]]
Release(pool, id) == Move(pool, id, "reserved", "available")
MarkPending(pool, id) == Move(pool, id, "reserved", "pending")

\* sweep_confirmations: the server knows every transaction that was taken.
SweepPool(pool) ==
  [op \in DOMAIN pool |-> IF pool[op].status = "pending" THEN [pool[op] EXCEPT !.status = "spent"]
                          ELSE pool[op]]

-----------------------------------------------------------------------------
(***************************************************************************)
(* Planning a rebalance                                                    *)
(***************************************************************************)

Units(ops, a) == [op \in ops |-> Coin(op).rgb[a]]
SatsOf(ops) == [op \in ops |-> Coin(op).sats]
Amounts(worth) == LET s == Listed(DOMAIN worth) IN [i \in DOMAIN s |-> worth[s[i]]]
Fattest(worth) == CHOOSE op \in DOMAIN worth : \A other \in DOMAIN worth : worth[other] <= worth[op]

FeeOf(splits, rungs, fund) ==
  LET fee == Feerate * EstimateRebalanceVbytes(Len(splits) + Len(fund),
               (IF splits # <<>> THEN 1 ELSE 0) + RungCount(splits) + Len(rungs) + 1)
  IN IF fee < MaxFee THEN fee ELSE MaxFee

\* The split of one asset: a sequence of at most one.
SplitOf(ops, a) ==
  LET source == Fattest(Units(ops, a))
      rungs == PlanLadder(RgbLadder, Amounts(Units(ops, a))).rungs
  IN IF rungs = <<>> THEN <<>>
     ELSE <<[asset |-> a, source |-> source, sats |-> Coin(source).sats, rungs |-> rungs]>>

\* The plan from the pieces available of every asset and of BTC.  The BTC ladder
\* would split the fattest coin, and that coin pays even if there is nothing to
\* split it into.  The budget is made with the fee of the full plan; what is left
\* of it pays its own.
PlanFrom(rgb, btc) ==
  LET splits == FlattenSeq([i \in DOMAIN Traded |-> SplitOf(rgb[Traded[i]], Traded[i])])
      cuts == PlanLadder(BtcLadder, Amounts(SatsOf(btc))).rungs
      fund == IF btc = {} THEN <<>> ELSE <<Fattest(SatsOf(btc))>>
      p == AssembleRebalanceTx([splits |-> splits, btc |-> cuts],
             Sats(CoinsAt(fund)), FeeOf(splits, cuts, fund))
  IN [splits |-> IF fund = <<>> THEN <<>> ELSE p.splits, btc |-> p.btc, fund |-> fund,
      fee |-> FeeOf(p.splits, p.btc, fund)]

Sources(plan) == {plan.splits[i].source : i \in DOMAIN plan.splits}
Inputs(plan) == Sources(plan) \cup Range(plan.fund)

\* split_pools for a plan.
PlanOuts(plan) ==
  SplitPoolsTx([i \in DOMAIN plan.splits |->
                  [asset |-> plan.splits[i].asset, coin |-> Coin(plan.splits[i].source),
                   rungs |-> plan.splits[i].rungs]],
               CoinsAt(plan.fund), plan.btc, plan.fee)

\* RGB outputs drain the BTC pool; what is left must not fall below the reserve.
KeepsReserve(plan) ==
  plan.splits = <<>> \/
  SaturatingSub(Sats(CoinsAt(Listed(AvailableBtc))),
                plan.fee + REBALANCE_ANCHOR_SATS * (1 + RungCount(plan.splits))) >= MinReserve

-----------------------------------------------------------------------------
(***************************************************************************)
(* The rebalance executor                                                  *)
(***************************************************************************)

NoPlan == [splits |-> <<>>, btc |-> <<>>, fund |-> <<>>, fee |-> 0]
Idle == [pc |-> "idle", id |-> <<>>, plan |-> NoPlan, todo |-> {}, tx |-> 0]

\* The rebalance's reservations, one per source; no two passes that leave any behind
\* share an id.
SplitId == <<"split", faults>>

Settled(op) == op \in DOMAIN rgbPool => rgbPool[op].status = "spent"

\* rebalance_once up to the first reservation, unless a split is still settling.
Plan ==
  /\ up /\ exec.pc = "idle" /\ Composed("split") < MaxSplits
  /\ \A s \in inflight : \A op \in s : Settled(op)
  /\ inflight' = {}
  /\ LET plan == PlanFrom([a \in Contracts |-> AvailableRgb(a)], AvailableBtc) IN
     /\ ~NothingPlanned(plan) /\ KeepsReserve(plan)
     /\ exec' = [Idle EXCEPT !.pc = "reserve", !.id = SplitId, !.plan = plan, !.todo = Inputs(plan)]
  /\ UNCHANGED <<txs, cache, rgbPool, btcPool, swaps, observer, up, faults, unacked>>

GiveUp ==
  /\ rgbPool' = Release(rgbPool, exec.id)
  /\ btcPool' = Release(btcPool, exec.id)
  /\ exec' = Idle

\* The RGB sources come first, asset by asset (in which order is left open: a pass
\* that fails gives all of them back), then the coin that pays.
NextSource ==
  IF exec.todo \cap Sources(exec.plan) # {} THEN exec.todo \cap Sources(exec.plan) ELSE exec.todo

\* One source is claimed in its pool; if a quote was faster, all that was claimed
\* goes back.
Reserve1 ==
  /\ exec.pc = "reserve"
  /\ \E op \in NextSource :
       LET rgb == op \in Sources(exec.plan)
           free == IF rgb THEN UNION {AvailableRgb(a) : a \in Contracts} ELSE AvailableBtc
       IN \/ /\ op \in free
             /\ rgbPool' = (IF rgb THEN Claim(rgbPool, {op}, exec.id) ELSE rgbPool)
             /\ btcPool' = (IF rgb THEN btcPool ELSE Claim(btcPool, {op}, exec.id))
             /\ exec' = [exec EXCEPT !.todo = @ \ {op}]
          \/ op \notin free /\ GiveUp
  /\ UNCHANGED <<txs, cache, swaps, inflight, observer, up, faults, unacked>>

\* split_pools builds from coins the cache knows; what it cannot build is released.
BuildSplit ==
  /\ exec.pc = "reserve" /\ exec.todo = {}
  /\ LET outs == PlanOuts(exec.plan) IN
     \/ /\ Resolved(cache, Inputs(exec.plan)) /\ outs # Refused
        /\ txs' = Compose("split", Inputs(exec.plan), <<>>, outs)
        /\ exec' = [exec EXCEPT !.pc = "built", !.tx = Len(txs')]
        /\ UNCHANGED pools
     \/ /\ ~(Resolved(cache, Inputs(exec.plan)) /\ outs # Refused)
        /\ GiveUp
        /\ UNCHANGED txs
  /\ UNCHANGED <<cache, swaps, inflight, observer, up, faults, unacked>>

BroadcastSplit ==
  /\ exec.pc = "built"
  /\ \/ /\ Broadcastable(exec.tx)
        /\ txs' = Publish(txs, exec.tx)
        /\ exec' = [exec EXCEPT !.pc = "mark"]
        /\ UNCHANGED <<pools, faults, unacked>>
     \/ /\ ~Broadcastable(exec.tx)
        /\ GiveUp
        /\ UNCHANGED <<txs, faults, unacked>>
     \/ \* The network took it and the answer is lost: the sources are released.
        /\ Broadcastable(exec.tx) /\ faults < MaxFaults
        /\ txs' = Publish(txs, exec.tx)
        /\ faults' = faults + 1
        /\ unacked' = unacked \cup {exec.tx}
        /\ GiveUp
  /\ UNCHANGED <<cache, swaps, inflight, observer, up>>

\* Every reservation is marked pending, and the loop waits for the RGB sources.
MarkSplit ==
  /\ exec.pc = "mark"
  /\ rgbPool' = MarkPending(rgbPool, exec.id)
  /\ btcPool' = MarkPending(btcPool, exec.id)
  /\ inflight' = {Sources(exec.plan)}
  /\ exec' = Idle
  /\ UNCHANGED <<txs, cache, swaps, observer, up, faults, unacked>>

Executor == Plan \/ Reserve1 \/ BuildSplit \/ BroadcastSplit \/ MarkSplit

-----------------------------------------------------------------------------
(***************************************************************************)
(* Swaps                                                                   *)
(***************************************************************************)

SwapId(o) == <<"swap", o>>
Pending(o) == swaps[o].pc \in {"quoted", "built", "sent"}
ReservedBy(id) == {op \in DOMAIN rgbPool : rgbPool[op].by = id /\ rgbPool[op].status = "reserved"}
                  \cup {op \in DOMAIN btcPool : btcPool[op].by = id /\ btcPool[op].status = "reserved"}

\* A selection that covers what is needed with no coin too many; which one the
\* selector takes is left open.
Covers(worth, needed) ==
  LET total == FoldFunction(+, 0, worth) IN
  total >= needed /\ \A op \in DOMAIN worth : total - worth[op] < needed

Quoted(o) == swaps' = [swaps EXCEPT ![o].pc = "quoted"]

\* request_quote: RGB coins are selected and reserved.
QuoteBuy(o) ==
  /\ up /\ o.side = "buy" /\ swaps[o].pc = "none"
  /\ \E ops \in SUBSET AvailableRgb(o.asset) :
       /\ Covers(Units(ops, o.asset), o.amount)
       /\ rgbPool' = Claim(rgbPool, ops, SwapId(o))
  /\ Quoted(o)
  /\ UNCHANGED <<txs, cache, btcPool, exec, inflight, observer, up, faults, unacked>>

\* request_quote_sell: BTC coins, for the price and the maker's own anchor.
QuoteSell(o) ==
  /\ up /\ o.side = "sell" /\ swaps[o].pc = "none"
  /\ \E ops \in SUBSET AvailableBtc :
       /\ Covers(SatsOf(ops), o.gross + SEAL_ANCHOR_SATS)
       /\ btcPool' = Claim(btcPool, ops, SwapId(o))
  /\ Quoted(o)
  /\ UNCHANGED <<txs, cache, rgbPool, exec, inflight, observer, up, faults, unacked>>

\* compute_buy_change_rungs: as many rungs as the sats under the inputs can anchor.
BuyChangeRungs(o, coins) ==
  LET rungs == PlanChangeRungs(RgbLadder, Amounts(Units(AvailableRgb(o.asset), o.asset)),
                               Holding(coins, o.asset) - o.amount)
      most == Sats(coins) \div REBALANCE_ANCHOR_SATS
  IN SubSeq(rungs, 1, IF Len(rungs) < most THEN Len(rungs) ELSE most)

\* compute_sell_btc_change_rungs
SellChangeRungs(o, coins) ==
  PlanChangeRungs(BtcLadder, Amounts(SatsOf(AvailableBtc)),
                  Sats(coins) - o.gross - REBALANCE_ANCHOR_SATS)

\* What accept_quote asks the backend for, and what deliver_consignment_sell does.
BuyOuts(o, coins) ==
  BuyTx(coins, o.taker, o.asset, o.amount, o.gross, SwapFee, o.seal, BuyChangeRungs(o, coins))
SellOuts(o, coins) ==
  SellTx(o.taker, coins, o.asset, o.amount, o.gross, SwapFee, o.seal, SellChangeRungs(o, coins))

DropSwap(o) ==
  /\ rgbPool' = Release(rgbPool, SwapId(o))
  /\ btcPool' = Release(btcPool, SwapId(o))
  /\ swaps' = [swaps EXCEPT ![o].pc = "dropped"]

Built(o, ins, outs) ==
  /\ txs' = Compose(o.side, ins, o.taker, outs)
  /\ swaps' = [swaps EXCEPT ![o] = [pc |-> "built", tx |-> Len(txs')]]
  /\ UNCHANGED pools

\* A buy is built from coins the cache knows, or its reservation is released.
BuildBuy(o) ==
  /\ up /\ o.side = "buy" /\ swaps[o].pc = "quoted"
  /\ LET ins == ReservedBy(SwapId(o))
         outs == BuyOuts(o, CoinsAt(Listed(ins)))
         possible == Resolved(cache, ins) /\ outs # Refused
     IN \/ possible /\ Built(o, ins, outs)
        \/ ~possible /\ DropSwap(o) /\ UNCHANGED txs
  /\ UNCHANGED <<cache, exec, inflight, observer, up, faults, unacked>>

\* A sell that misses an input first rescans, if the server answers; what the scan
\* finds is in the cache of everybody.
BuildSell(o) ==
  /\ up /\ o.side = "sell" /\ swaps[o].pc = "quoted"
  /\ LET ins == ReservedBy(SwapId(o))
         outs == SellOuts(o, CoinsAt(Listed(ins)))
         possible == Resolved(cache', ins) /\ outs # Refused
     IN /\ cache' \in (IF Resolved(cache, ins) THEN {cache} ELSE {cache, Rescanned})
        /\ \/ possible /\ Built(o, ins, outs)
           \/ ~possible /\ DropSwap(o) /\ UNCHANGED txs
  /\ UNCHANGED <<exec, inflight, observer, up, faults, unacked>>

\* The taker has signed.  What the network does not take is released, and so is what
\* it took if the answer is lost.
BroadcastSwap(o) ==
  /\ up /\ swaps[o].pc = "built"
  /\ \/ /\ Broadcastable(swaps[o].tx)
        /\ txs' = Publish(txs, swaps[o].tx)
        /\ swaps' = [swaps EXCEPT ![o].pc = "sent"]
        /\ UNCHANGED <<pools, faults, unacked>>
     \/ /\ ~Broadcastable(swaps[o].tx)
        /\ DropSwap(o)
        /\ UNCHANGED <<txs, faults, unacked>>
     \/ /\ Broadcastable(swaps[o].tx) /\ faults < MaxFaults
        /\ txs' = Publish(txs, swaps[o].tx)
        /\ faults' = faults + 1
        /\ unacked' = unacked \cup {swaps[o].tx}
        /\ DropSwap(o)
  /\ UNCHANGED <<cache, exec, inflight, observer, up>>

\* mark_pending_bitcoin_confirm, if the reservation is still there by then.
MarkSwap(o) ==
  /\ up /\ swaps[o].pc = "sent"
  /\ rgbPool' = MarkPending(rgbPool, SwapId(o))
  /\ btcPool' = MarkPending(btcPool, SwapId(o))
  /\ swaps' = [swaps EXCEPT ![o].pc = "settled"]
  /\ UNCHANGED <<txs, cache, exec, inflight, observer, up, faults, unacked>>

\* The transaction of a swap between its broadcast and its mark.
Unmarked(o) == IF swaps[o].pc = "sent" THEN {swaps[o].tx} ELSE {}

\* The reservation runs out, whatever was done under it; or a second /sign, whose
\* broadcast of the same transaction the network refuses, releases it.
LapseSwap(o) ==
  /\ up /\ Pending(o)
  /\ DropSwap(o)
  /\ unacked' = unacked \cup Unmarked(o)
  /\ UNCHANGED <<txs, cache, exec, inflight, observer, up, faults>>

\* The reservations of an earlier run of the daemon run out too.
Owners == {SwapId(o) : o \in {p \in Offers : Pending(p)}}
          \cup {exec.id}
Expire(pool) ==
  [op \in DOMAIN pool |-> IF pool[op].status = "reserved" /\ pool[op].by \notin Owners
                          THEN [pool[op] EXCEPT !.status = "available"] ELSE pool[op]]

ReleaseExpired ==
  /\ up
  /\ <<Expire(rgbPool), Expire(btcPool)>> # pools
  /\ rgbPool' = Expire(rgbPool)
  /\ btcPool' = Expire(btcPool)
  /\ UNCHANGED <<txs, cache, swaps, exec, inflight, observer, up, faults, unacked>>

-----------------------------------------------------------------------------
(***************************************************************************)
(* The chain observer, and the daemon's runs                               *)
(***************************************************************************)

\* One tick, in four steps: the cache, the BTC pool, the RGB pool asset by asset, the
\* sweep.  A listing that fails is skipped; a sync that fails ends the tick.
Observe ==
  /\ up
  /\ \/ /\ observer = "sync"
        /\ cache' = Synced
        /\ observer' = "btc"
        /\ UNCHANGED pools
     \/ /\ observer = "btc"
        /\ btcPool' = IngestBtc(btcPool, cache)
        /\ observer' = "rgb"
        /\ UNCHANGED <<cache, rgbPool>>
     \/ /\ observer = "rgb"
        /\ rgbPool' = IngestAllRgb(rgbPool, cache, Range(Traded))
        /\ observer' = "sweep"
        /\ UNCHANGED <<cache, btcPool>>
     \/ /\ observer = "sweep"
        /\ rgbPool' = SweepPool(rgbPool)
        /\ btcPool' = SweepPool(btcPool)
        /\ observer' = "sync"
        /\ UNCHANGED cache
  /\ UNCHANGED <<txs, swaps, exec, inflight, up, faults, unacked>>

ListingFails ==
  /\ up /\ faults < MaxFaults
  /\ \/ /\ observer = "btc"
        /\ observer' = "rgb"
        /\ UNCHANGED rgbPool
     \/ /\ observer = "rgb"
        /\ \E heard \in SUBSET Range(Traded) \ {Range(Traded)} :
             rgbPool' = IngestAllRgb(rgbPool, cache, heard)
        /\ observer' = "sweep"
  /\ faults' = faults + 1
  /\ UNCHANGED <<txs, cache, btcPool, swaps, exec, inflight, up, unacked>>

\* The daemon stops, at any step; quotes and the executor's pass are in memory.
Stop ==
  /\ up /\ faults < MaxFaults
  /\ up' = FALSE
  /\ faults' = faults + 1
  /\ exec' = Idle /\ inflight' = {} /\ observer' = "sync"
  /\ swaps' = [o \in Offers |-> IF Pending(o) THEN [swaps[o] EXCEPT !.pc = "dropped"]
                                ELSE swaps[o]]
  /\ unacked' = unacked \cup (IF exec.pc = "mark" THEN {exec.tx} ELSE {})
                        \cup UNION {Unmarked(o) : o \in Offers}
  /\ UNCHANGED <<txs, cache, pools>>

\* reconcile_rgb_inventory and reconcile_btc_inventory, from the cache as it is.
Start ==
  /\ ~up
  /\ up' = TRUE
  /\ rgbPool' = IngestAllRgb(rgbPool, cache, Range(Traded))
  /\ btcPool' = IngestBtc(btcPool, cache)
  /\ UNCHANGED <<txs, cache, swaps, exec, inflight, observer, faults, unacked>>

-----------------------------------------------------------------------------
(***************************************************************************)
(* The operator's commands                                                 *)
(***************************************************************************)

\* A command runs while the daemon is down.
Run(kind) == ~up /\ kind \in Commands /\ \A k \in Commands : Composed(k) = 0

\* It sends what it builds, and the pools are not told.
Send(kind, ins, outs) ==
  /\ outs # Refused
  /\ cache' = Synced
  /\ txs' = Publish(Compose(kind, ins, <<>>, outs), Len(txs) + 1)
  /\ unacked' = unacked \cup {Len(txs) + 1}
  /\ UNCHANGED <<pools, swaps, exec, inflight, observer, up, faults>>

\* maker_recover: what the stock allocates to unspent coins that the cache does not
\* have goes to a new host, but for those whose probe failed; the fattest coin
\* without this asset pays.
Recover(a) ==
  LET plain == BtcOnly(Synced, {a}) IN
  /\ Run("recover") /\ plain # {}
  /\ \E probed \in SUBSET {op \in Unspent \ Synced : Own(op) /\ Carries(a, op)} :
       LET fund == Fattest(SatsOf(plain)) IN
       Send("recover", probed \cup {fund},
            RecoveryTx(CoinsAt(Listed(probed)), Coin(fund), a, MaxFee))

\* maker_rebalance: the executor's pass with the wallet's coins for the pools, no
\* reserve to keep and no reservations.
Rebalance ==
  LET plan == PlanFrom([a \in Contracts |-> RgbUtxos(Synced, a)],
                       BtcOnly(Synced, Range(Traded)))
  IN /\ Run("rebalance") /\ ~NothingPlanned(plan)
     /\ Send("rebalance", Inputs(plan), PlanOuts(plan))

-----------------------------------------------------------------------------
Init ==
  /\ txs = <<[kind |-> "genesis", ins |-> {}, taker |-> <<>>, outs |-> Genesis, live |-> TRUE]>>
  /\ cache = {op \in Unspent : Scanned(op)}
  /\ rgbPool = IngestAllRgb(<<>>, cache, Range(Traded))
  /\ btcPool = IngestBtc(<<>>, cache)
  /\ swaps = [o \in Offers |-> [pc |-> "none", tx |-> 0]]
  /\ exec = Idle
  /\ inflight = {}
  /\ observer = "sync"
  /\ up = TRUE
  /\ faults = 0
  /\ unacked = {}

Next ==
  \/ Executor
  \/ \E o \in Offers : QuoteBuy(o) \/ QuoteSell(o) \/ BuildBuy(o) \/ BuildSell(o)
                         \/ BroadcastSwap(o) \/ MarkSwap(o) \/ LapseSwap(o)
  \/ ReleaseExpired
  \/ Observe \/ ListingFails
  \/ Stop \/ Start
  \/ \E a \in Range(Traded) : Recover(a)
  \/ Rebalance

Spec == Init /\ [][Next]_vars

-----------------------------------------------------------------------------
(***************************************************************************)
(* Properties                                                              *)
(***************************************************************************)

InsOf(t) == CoinsAt(Listed(txs[t].ins))
OutsTo(t, to) == SelectSeq(txs[t].outs, LAMBDA c : c.to \in to)

\* No transaction the network took destroys an allocation: what its inputs carried,
\* of every contract, its outputs carry.
NothingBurned ==
  \A t \in Live \ {1} : \A a \in Contracts :
    Holding(InsOf(t), a) + Holding(txs[t].taker, a) = Holding(txs[t].outs, a)

\* A coin offered as plain BTC carries no allocation, although the pool learns of
\* it before the RGB inventory does.
BtcPoolHoldsNoRgb ==
  \A op \in AvailableBtc : \A a \in Contracts : ~Carries(a, op)

\* A coin offered is one the chain still has, but for the spends the pools never hear
\* of: those of a command, of a broadcast whose answer is lost, and of a broadcast that
\* a stop or the end of its reservation came between and its mark.  Nothing else brings
\* a spent coin back: no pass that gives up, no reservation that runs out, no stale
\* cache, no start.
OfferedIsUnspent ==
  \A op \in AvailableBtc \cup (UNION {AvailableRgb(a) : a \in Contracts}) :
    \A t \in Live : op \in txs[t].ins => t \in unacked

\* Nobody pays more than was agreed, but for change too small to keep: in a buy the
\* maker gets the price and the taker pays it and the fee, in a sell the maker pays
\* the price and the taker gets it without the fee; the amount agreed changes hands.
NobodyOverpays ==
  \A t \in Live : \A o \in Offers :
    swaps[o].tx = t =>
      LET makerGain == Sats(OutsTo(t, {"host", "maker"})) - Sats(InsOf(t))
          takerGain == Sats(OutsTo(t, {"taker"})) - Sats(txs[t].taker)
          price == IF o.side = "buy" THEN o.gross ELSE -o.gross
          bought == IF o.side = "buy" THEN o.amount ELSE -o.amount
      IN /\ makerGain \in (price - DUST_LIMIT_SATS)..price
         /\ takerGain \in (-price - SwapFee - DUST_LIMIT_SATS)..(-price - SwapFee)
         /\ Holding(OutsTo(t, {"host", "maker"}), o.asset) = Holding(InsOf(t), o.asset) - bought
=============================================================================
