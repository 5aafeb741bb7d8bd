# rfq: TLA+ models, TLC runs and TLAPS proofs

rfq is a request-for-quote market for RGB assets on Bitcoin. A taker asks a broker
for quotes; the broker fans the request out to the makers connected to it; the
maker whose quote is accepted builds a swap PSBT over inventory it reserved, the
taker signs it, and the maker broadcasts it. This directory models the parts of
that where order, failure, concurrency or rounding decide whether anybody loses
inventory, money or an answer.

Commands, from this directory:

    tlasany Maker.tla                             parse a module
    tlc -config MakerSwaps.cfg MCMaker            one run (see "Runs")
    tlapm Maker_proofs.tla                        the proofs of one module

`PROJECT.json` lists the runs, maps every definition to the lines of `src/` it
models, and lists the hazards the properties are for. In the text below MK is
`crates/rfq-maker/src/lib.rs`, MN is `services/maker-node/src/lib.rs`, BR is
`services/broker/src/lib.rs` and LB is `crates/rfq-rgb/src/lib_backend.rs`.

## 1. The system

### Components

For each: the state it keeps, its operations, whom it meets, what is hard about it,
and what makes it correct.

**Inventory statuses** (`rfq-types`, `rfq-store/src/lib.rs`, `btc.rs`). A map from
outpoint to `InventoryStatus`: Available, Reserved until a deadline, committed to a
witness transaction (PendingBitcoinConfirm, PendingRgbAcceptance), Spent, Invalid.
Operations: reserve (all or nothing, in two passes), release, expire, extend, the
marks, reorg, ingest change, replace for an asset. Everything the maker does goes
through it, two twin stores hold it (RGB and BTC). Correct when a reservation is
whole, when no operation takes a row from another reservation, and when committed
rows never become spendable except by a reorg of their own transaction.

**SQLite write-through store** (`rfq-store/src/sqlite.rs`). A working copy of the
inventory, mutated first; then the table is rewritten from it in one transaction;
both under `write_lock`. Users: quote and settlement handlers, cleanup loop, sweep,
seed, rebalancer. Hard: a persist that fails after the memory moved, which most
operations report and two only log, a caller dropped at an await, a crash between the
two. Correct when what was stored and answered Ok stays in the table, when an answer
given over a failed persist is work the next start does again, and when nobody ever
sees half a reservation.

**Maker settlement engine** (MK). State: the two inventories, the `pending` map of
accepted quotes (memory only), the consignment and fill stores. Operations:
`request_quote`, `accept_quote`, `deliver_consignment`, `submit_signed_psbt`, each
for a buy and a sell; `release_expired`, `prune_stale_pending` and
`sweep_pending_confirmations` for the daemon's loops. Handlers of one quote run
concurrently (a retried request, HTTP and the broker's socket), each with ten or so
awaits; a caller that hangs up drops its handler at an await. Correct when no
inventory is written off for a transaction that does not spend it, no two swaps
count the same inventory, each quote's reservation ends in exactly one way, and
nothing stays reserved, pending or committed for ever.

**Maker daemon** (MN). Seeds the inventory, runs the cleanup loop, the chain
observer, the strategy and order-reload loops and the rebalance executor, and serves
the HTTP API. Hard: the loops run beside the handlers and act on listings.

**Auto-mirror strategy and standing orders** (MN, `orders.rs`, `commands.rs`).
State: the orders and fills tables, the price policy in memory. The strategy loop
turns each settled fill into an order on the opposite side, a second loop reloads
the policy, and the `order` CLI is another process writing the same table. Correct
when every fill is dealt with, once, and the policy follows the table.

**Rebalance planner and executor** (`rebalance.rs` of `rfq-maker`, MN 1073-1355).
The planner is pure: a geometric ladder of pieces, which rungs the pool lacks, how to
cut the fattest piece or a settlement's change into them, which rungs to drop when the
sats do not pay for all. The executor reserves its sources one by one, builds,
broadcasts, marks, and waits for the split to settle before the next. Hard: it shares
the pools with quotes, and stops anywhere. Correct when the deficit is exact, when what
is cut was missing, and when it spends nothing that is another's.

**Coin selection** (`coin_select.rs`, `btc.rs`) and **pricing** (MK 73-121, 568-618,
`orders.rs`): which available outpoints cover an amount; totals, spreads, the size
advertised, the price of a mirror order. Pure. Correct when what is advertised can be
filled without a coin too many, and when rounding never turns the spread around.

**RGB backend and PSBT construction** (`rfq-rgb`). State: the wallet's UTXO cache, the
stock of allocations, a bookmark of buried witnesses. Operations: compose a buy, a
sell, a rebalance, a recovery; list what carries an asset and what carries none;
validate a consignment. Hard: cache, stock and pools are read at different moments, and
an allocation that no output inherits is destroyed. Correct when every transaction
keeps all its inputs carried, and nobody pays more than was agreed.

**SPV verification** (`rfq-consignment`) and the **prover service** (`spv-prover`).
Headers, difficulty, merkle branches, proof packs, and a gate that asks a node whether
the witnesses of a consignment are mined. State: the prover's two tiers of anchors, the
gate's bookmark. Hard: each answer of the node is of its best chain at that moment, and
the chain reorganises between them. Correct when what is accepted has been deep, and
nothing sound is refused.

**Broker API and settlement record** (BR). State: quotes and RFQ statistics in
memory, the settlements table. `/rfq` fans out and stores quotes; `/accept` and
`/sign` call the maker and upsert the row; the confirmation loop promotes rows deep
enough in the chain. Hard: the row is written after the answer of the maker, from
what was read before it, by handlers in any order. Correct when what is shown as
settled is deep, when the record keeps its first time and statistics, and when what
is mined is settled in the end.

**Broker maker registry** (`registry.rs`, `ws.rs`). State: the connector and prices
per maker, the price cache. Tasks of several connections of one maker insert and
remove in any order; `GET /prices` refreshes the cache from all of them. Correct
when requests are not routed to a connection whose task has gone, and the price
feed follows who is registered.

**WebSocket connector** (`ws_connector.rs`, and `broker_client.rs` on the maker's
side). State: a request counter, a map of waiting callers, a bounded queue to a
writer task, a reader task, the socket. Hard: timeouts, dropped callers, late
responses and the drain on disconnect meet at the map. Correct when an answer goes
to its own caller, nobody is forgotten, and the errors mean what they say.

**Quote fan-out** (`rfq-router/src/lib.rs`): asks all makers under a timeout that drops
what is late. **Bitcoin client** (`rfq-bitcoin`): broadcast and queries. **Other
stores**: consignments, fills, orders, contracts, settlements. **Taker CLI, client and
wallet**: sequential drivers of the broker's API. **Deployment**: no program logic.

### How they interact

    taker --HTTP--> broker API --> fan-out --> WsConnector ==socket==> maker daemon
                       |             |                                   |
                 settlements     registry, prices               settlement engine
                       |                                           |         |
                 confirmation loop --> chain <-- broadcast --------+     inventory
                                         ^------ sweep ----- loops ----------+

The maker and the broker share nothing but the socket and the chain. Inside the
maker the inventory is what its handlers, its loops and the rebalance executor share,
and the wallet's cache feeds it; inside the broker it is the registry and the
settlements table. Takers, broker and prover read the same chain, at their own moments.

### What is hard to test here

`PROJECT.json` "hazards" lists each at its line with the properties that would catch
it. They fall into seven groups: races of repeated requests for one quote
(accept/accept, deliver/sign, sign/sign); state read before an await and used after it
(a reservation found live and lapsed by the time it is committed, a price pull folded
into another connection's entry, a cache older than the stock, headers of two forks); a
crash, a failed write or a dropped future between two effects (broadcast and mark,
upsert and mark, memory and table); answers lost or late (broadcast, sign, a response
as its call times out); things that must end (reservations, pending entries,
commitments, fills, confirmations); values that must balance (allocations, sats, change
below dust, rounded prices); and small algorithms whose greedy choices or boundaries
could be wrong (the ladder, coin selection, the retarget).

## 2. Modules

| module | models | used by |
| --- | --- | --- |
| `Inventory` | statuses and the operations of both inventory stores, as functions | `InventoryStore`, `Maker` |
| `InventoryStore` | the SQLite store: lock, working copy, table, crash | `MCInventoryStore` |
| `SwapLifecycle` | abstract: what a maker promises of a swap | `Maker` (refinement) |
| `Maker` | the settlement engine, cleanup loop, sweep, chain | `MCMaker` |
| `WsConnector` | the connector and the maker's end of the socket | itself a run's module |
| `MakerRegistry` | registry, connection tasks, price cache | `MCMakerRegistry` |
| `BrokerSettlements` | `/rfq`, `/accept`, `/sign` and the confirmation loop | `MCBrokerSettlements` |
| `AutoMirror` | strategy loop, reload loop, order CLI | `MCAutoMirror` |
| `Ladder` | the rebalance planner and its budget | `Liquidity`, `Treasury` |
| `Quoting` | totals, mirror prices, coin selection | `Liquidity` |
| `Liquidity` | a pool under quotes, settlements and splits | `MCLiquidity` |
| `SwapTx` | the outputs of the four transactions a maker composes | `Treasury` |
| `Treasury` | chain, wallet, pools, executor, swaps, observer, commands | `TreasuryClaims` |
| `TreasuryClaims` | what a comment says and a command does not do | `MCTreasury` |
| `HeaderChain` | header runs, difficulty, merkle branches, proof packs | `Spv` |
| `Spv` | a chain that reorganises, prover, thin client, gates | `MCSpv` |
| `Orders_proofs` | the theorems of `AutoMirror` and of `Liquidity` | |
| other `*_proofs` | the theorems of the module they are named after | |

The `MC*` modules only give values to constants. An operator whose comment begins
with `Slip:` stands beside the definition it distorts: it is the code with one
plausible mistake (a dropped guard, a missing reset, a swapped order), and it is
there to show that a property notices; no next-state relation uses it.

One rule for all of them: an action is the code between two awaits that touch shared
state, so that anything else may happen at the await. A handler's locals are a
record with a `pc` naming the await it is about to pass.

### Inventory and InventoryStore

State: `mem` (the `HashMap` behind the lock), `db` (the rows), `lock`, and per caller
its position and the rows its persist has read. `Reserve(c)`, `Release(c)` ...
`Invalidate(c)` are the trait methods up to their first await: they take the lock and
change `mem`. `ListRows`, `Commit` and `AnswerOk` are the three steps of the persist.
`Abandon` is a failed persist that is reported, or a dropped caller: `mem` keeps the
mutation, `db` does not get it. Two operations only print a failed persist and answer as
if it had worked, `release_expired_reservations` of both stores and `replace_all` of the
BTC store (`sqlite.rs` 209-218, 403-409, 463-472): their callers are in `swallows`, and
`AnswerUnstored` is that answer. `CrashAndReopen` is `open()`. `Tick` is the passing of
time. `applied`, `read`, `stored`, `mine`, `answered` and `lost` are history: they number
the mutations, to say that one is in the table or is not, and which was the last to be
answered Err or by nobody.

The rows of several contracts share the store: `AssetOf` says which an outpoint carries
(the code's row names one asset). `Seed` puts in the rows of one asset that has none,
beside whatever the rows of the others hold, as `reconcile_rgb_inventory` and
`replace_for_asset` do. The RGB store reports a failed persist there and the BTC store,
all of whose rows are one asset, does not; `Seed` may do either.

Data abstractions: a reservation id is identified with the quote it was drawn for
(a fresh UUID each, and no caller reserves twice for a quote); a deadline is kept as
the time left until it, so that `expires_at_ms <= now_ms` reads `left = 0`; amounts
are left out, a selection that covers the amount being all the engine needs.

### Maker and SwapLifecycle

| state | code |
| --- | --- |
| `utxos` | the RGB and BTC inventory stores (disjoint pools) |
| `quoted` | which quote ids exist and were answered |
| `pending` | the `pending` map; an entry is named by its transaction |
| `built`, `offered` | PSBTs made, and those a taker was given |
| `chain` | the network: unseen, mempool, mined or evicted |
| `consignments`, `fills` | the stores of those names |
| `calls` | handler invocations in flight |
| `stale`, `cleaning` | `prune_stale_pending` between its two locks |

`RequestQuote` ... `ReserveContended` are `request_quote*` with the retry loop of a
buy; `AcceptQuote` ... `ParkPending` are `accept_quote` and `accept_quote_sell`;
`DeliverConsignment` ... `RecordPsbt` are `deliver_consignment_sell`;
`SubmitSignedPsbt` ... `RecordFill` are both `submit_signed_psbt*`; `GiveBack` and
`DropEntry` are their error returns; `Cleanup*` and `Sweep` are the loops. `Mine`,
`Evict` and `Relayable` are the network. A taker is honest in what it sends (a PSBT
it was given, signed) but not in when or how often: the handler of a buy finalizes and
broadcasts what it is sent without comparing it with the offer (MK:1851-1877), and
`SubmitSignedPsbt` has the PSBTs offered for the quote only.

`SwapLifecycle` is the abstract specification: a quote is held by outpoints that
back no other quote, then is released and frees all of them, or is committed and
later settled and keeps them. `Maker` implements it under the mapping `Stage` and
`Backing`, which read the stage of a quote off the inventory; the runs check
`Swap!SwapSpec` as a property, initial state and every step.

### WsConnector

A call's request id stands for it (`fetch_add`). `Insert`, `Send`, `Unregister`,
`Receive`, `TimeOut` and `Expire` are `call()`; `Abandon` is its future being
dropped (by `fanout_quote`'s timeout or a client that hung up); `Write*` and
`Deliver`, `Drain` are the two tasks; `TakeRequest`, `Dispatch`, `Respond` and
`HangUp` are the maker's loop, one request at a time; `Disconnect` loses any suffix
of what is in flight either way; `Deregister` is `ws.rs` after the reader ended.

### MakerRegistry

Connections are numbered as dialled. `ReadRegister`, `InsertMaker`,
`InvalidatePrices`, `Closed` and `RemoveIf` are `handle_socket` between its awaits;
`StartRefresh`, `FoldPulled`, `AggregatePrices`, `StorePrices` are `refresh_prices`
under `refresh_lock`. Prices are abstracted to the connection they came from.

### BrokerSettlements

`CreateRfq`, then per request `Request`, `MakerAnswers` or `MakerRefuses`,
`TakeStats`, `SaveSettlement` or `SaveFails`. A call lost between broker and maker
becomes a `stray`: the maker may still act on it. `ListPending`, `ReadTip`,
`Promote`, `LeavePending`, `Sleep` are one round of the confirmation loop, working
from its listing. The maker is abstracted to how far it has gone with a quote. The
chain only grows. A row's timestamps are the handler that created it.

### AutoMirror

`ListUnmirrored` ... `EndPass` is a pass of the strategy loop, one step per store
call; `ListForPolicy`, `StorePolicy` its reload at the end; `ReloadList`,
`ReloadPolicy` the other loop; `OrderCreate`, `OrderCancel` and `OrderClear` the CLI. One asset;
an order is its size and whether it mirrors, a fill its side and an amount, zero or one
(a zero fill is left alone).

### Ladder, Quoting and Liquidity

`TargetRungs`, `LadderDeficit`, `PlanLadder`, `PlanChangeRungs` and
`AssembleRebalanceTx` are the functions of those names as folds over sorted sequences;
the ladder's ratio is an exact fraction where the code has an `f64`. `QuoteTotalSats`,
`AvailableSize`, `MirrorUnit`, `GreedyLargestFirst` and `GreedyExactFit` are in
`Quoting`; a pool is the ascending sequence of its amounts, a selection a set of
positions. `Liquidity` composes them: `Split` is a confirmed rebalance pass, `Settle`
a quote that was selected, settled, and whose change was cut into the planned rungs,
or as many of them as the sats can anchor. Its specification is called `LiquiditySpec`,
so that one module can extend it and `AutoMirror`.

### SwapTx and Treasury

`SwapTx` gives the outputs of `BuyTx`, `SellTx`, `RecoveryTx` and `SplitPoolsTx`: who
can spend each, its sats, and its allocation of each contract, or `Refused`. A coin is
sats and allocations; scripts, signatures and commitments are left out.

| state of `Treasury` | code |
| --- | --- |
| `txs` | every transaction composed; `live` once the network has it |
| `cache` | the wallet's UTXO cache (`sync_wallet`) |
| `rgbPool`, `btcPool` | the two inventories |
| `swaps`, `exec`, `inflight` | quotes in memory, the executor's pass, what it waits for |
| `observer`, `up` | the step of the chain observer's tick; the daemon runs |

The stock is not a variable: it holds the allocations of every transaction composed
(`Carries`), as `consume_fascia` records them before the broadcast. `Plan` ...
`MarkSplit` are `rebalance_once`; `QuoteBuy` ... `LapseSwap` the swaps, of which
`Maker` has the protocol: `BroadcastSwap` is the broadcast, its refusal and a lost answer
to it (MK:1877), `MarkSwap` the mark that follows (MK:1892), and between the two the
reservation can lapse or be released by a second `/sign` (`LapseSwap`) and the daemon can
stop (`Stop`). A transaction that the network took and the pools never hear of is then in
`unacked`. `Observe` the tick in four steps, `ListingFails` one of its
listings failing; `Stop` and `Start` the daemon with its reconciliation; `Recover` and
`Rebalance` the operator's commands. Which covering set the selector picks is left
open here (`Covers`), since `Liquidity` checks the selectors; so is the order in which a
pass claims its RGB sources, all of which go back if one is taken (`NextSource`). A pass
has one reservation id where the code has one per source: they are made, released and
marked together. Its reservations live for two hours (`BROADCAST_CONFIRM_TTL_MS`) and do
not lapse within a pass; a mark that fails in the store is left to `InventoryStore`.

### HeaderChain and Spv

Hashes are abstract: a header names its own hash, the hash of two nodes is their pair.
Targets have a few digits of a small radix, with the code's compact form and its sign
bit, and its retarget formula. `ValidRun` is `validate_run`, `VerifyPack`
`verify_pack`. In `Spv` a block is mined with any of the witnesses (`Mine`), or the
last blocks are replaced and the witnesses placed anew (`Reorg`). `Ask` ... `Serve`
are the prover, one call to the node each; `AskBroker` the broker's own pack, which is
not kept; `FetchHeaders` and `VerifyConsignment` the thin client; `ValidateIncoming`,
`ValidateBuy` and `Precheck` open a gate, `CheckWindow` and `GateCloses` are
`MinedChecker`, every call of which may also fail.

Where `Spv` allows more than the code: a client's pack accumulates over responses,
windows hold one witness, and any call may fail at any time. Where it allows less: the
prover serves one request at a time and takes turns with a gate; they share nothing
but the node.

## 3. Runs

Deadlock is checked except where the system may really stop: a store, a connector, a
broker, a pool, a treasury or a chain with nothing left to do under the bounds.

| run | instance | shows |
| --- | --- | --- |
| `inventory_store` | 2 callers, 2 contracts with 2 and 1 outpoints, 2 quotes, 5 mutations, 1 fault | `NoTornReservation`, `AnsweredIsDurable`, `NoResurrection`, `NoTheft` |
| `maker_swaps` | one swap, a buy or a sell, 2 calls at a time, 6 requests, 1 fault of any kind | `WrittenOffBySpender`, `OfferedSpendsReservation`, `SellConsignmentAnchored`, `RecordedOnce`, `ImplementsSwapLifecycle` |
| `maker_contention` | 2 buys that compete for an outpoint, 6 requests, no fault | `FillOwnsInputs`, `OfferFindsEntry` |
| `maker_liveness` | one buy, 4 requests, a crash, a dropped call or a lost reply | `ReservationResolves`, `EntriesArePruned`, `CommitmentsSettle` |
| `ws` | 3 calls, room for 1 frame in the queue and 1 on the wire | `AnswerIsOwn`, `ClosedNeverExecuted`, `WaiterIsServed`, `OrphansAreAccounted`, `SentCallReturns` |
| `registry` | 2 makers, 3 connections, 1 dropped request | `RegisteredIsServed`, `FeedFollowsRegistry` |
| `broker` | 2 RFQs, room for the statistics of 1, one of their quotes asked for repeatedly, 2 requests at a time, 1 fault | `SettledIsDeep`, `StatsReachOneRow`, `FirstRecordStands`, `MinedSwapSettles` |
| `mirror` | 2 fills, 2 writes of the operator, 1 fault | `MarkedMeansHandled`, `AddedOncePerFault`, `FillsAreHandled`, `PolicyFollowsOrders` |
| `liquidity` | every pool of up to 3 coins of up to 9, both sides, 4 ladders, 3 orders | `DeficitIsLeast`, `ChangeRungsAreWanted`, `AdvertisedIsFilled`, `MirrorNeverLoses` |
| `treasury` | one contract, a buy and a sell, 1 pass of the executor, 1 command, 1 fault | `NothingBurned`, `BtcPoolHoldsNoRgb`, `OfferedIsUnspent`, `NobodyOverpays` |
| `spv` | 1 witness, heights up to 4, epochs of 2 blocks, 1 fork of up to 2 blocks, 1 restart | `AcceptedWasDeep`, `BookmarkedStaysMined`, `FreshProofVerifies` |
| `claim_fee_coin` | two contracts, a stranded allocation, the recover command | refutes `FeeSpendsDestroyNothing` |

### What the properties say

*Inventory.* All rows that name a quote agree, in memory and in the table
(`NoTornReservation`). What was stored and answered Ok is in the table, and when that is
the last mutation memory and table are equal, whatever persist failed before; and as long
as nobody was told Err or went away since the table was written, what memory has and the
table has not are expiries and first seeds that were answered over a failed persist, which
the next start does again (`AnsweredIsDurable`, whose three parts these are). Committed rows become spendable only by a crash, which loads
the table, or by a reorg of their transaction (`NoResurrection`). A row never passes
from quote to quote (`NoTheft`).

*Maker.* Inventory written off has a spender the network saw
(`WrittenOffBySpender`). While its reservation lives, a PSBT in a taker's hands
spends exactly what is reserved, although the rows are listed after the reservation
was found and extended after the PSBT was built (`OfferedSpendsReservation`), and
its pending entry is there as long as the daemon does not restart
(`OfferFindsEntry`). A recorded fill owns every input of its transaction
(`FillOwnsInputs`); of any number of racing signs one records (`RecordedOnce`); a
sell's consignment is filed under the transaction it is anchored to
(`SellConsignmentAnchored`). Every quote follows `SwapLifecycle`. Reservations,
entries and commitments all come to an end.

`FillOwnsInputs` and `OfferFindsEntry` are checked without faults, which is what two
quotes on one outpoint leave room for. The proofs go further: the first holds with every
fault, the second with every fault but a crash, which loses the pending map (it is in
memory by design).

*Connector.* An Ok is the answer to one's own request, which was carried out
(`AnswerIsOwn`). "maker connection closed" is the one error that guarantees the
request is never carried out (`ClosedNeverExecuted`); "disconnected" and a timeout do
not. A waiter is in the map or already served (`WaiterIsServed`). An entry without a
caller is someone's to remove (`OrphansAreAccounted`), with the one exception of a
caller dropped while queueing. A call whose frame is out returns, even if the maker
stops reading for ever (`SentCallReturns`).

*Registry.* An entry's connection has a task that is yet to deregister it
(`RegisteredIsServed`). The price feed lists who stays and drops who leaves, although
a refresh can store an aggregate older than the change (`FeedFollowsRegistry`).

*Broker.* Settled means deep, at the height shown (`SettledIsDeep`). A row keeps its
creation time and statistics (`FirstRecordStands`), though not its witness and status
(section 6). An RFQ's statistics are in the map, with a handler or in a row, never in two
of these; they are lost only by a failure, or while they wait in a full map that
`create_rfq` clears, never once a handler has taken them (`StatsReachOneRow`). A recorded
broadcast that is mined is settled (`MinedSwapSettles`).

*Mirror.* A marked fill was added or left on purpose (`MarkedMeansHandled`), at most
once more than there were failures (`AddedOncePerFault`), and every fill is marked
in the end (`FillsAreHandled`). The policy converges to the table
(`PolicyFollowsOrders`).

*Liquidity.* The one-pass greedy match leaves as few rungs uncovered as any assignment,
by Hall's condition (`DeficitIsLeast`). Rungs cut from change were all missing
(`ChangeRungsAreWanted`). What the feed advertises the selector finds, with no coin too
many and the change it documents (`AdvertisedIsFilled`). Trading back a mirrored fill
loses nothing, through three roundings, when there is a spread (`MirrorNeverLoses`).

*Treasury.* Each transaction the network took has in its outputs what its inputs
carried, of every contract (`NothingBurned`): no coin with an allocation pays a fee or a
price, no remainder is forgotten, no coin is spent at once by a swap and a split. What
is offered as plain BTC carries nothing, although the observer fills that pool first
(`BtcPoolHoldsNoRgb`). What is offered is unspent, or was spent by a transaction the pools
never heard of: a command's, or one whose broadcast answer was lost or whose reservation
went, or the daemon, before the mark. No pass that gives up, stale cache, start or later
quote brings back another (`OfferedIsUnspent`). Each side of a swap ends with
what was agreed, to within a change below dust (`NobodyOverpays`).

*Spv.* Whatever a gate or a thin client accepts has been deep in the best chain, however
the chain moved between the reads (`AcceptedWasDeep`). A bookmarked witness stays mined,
for reorganisations shallower than `BURY_DEPTH` (`BookmarkedStaysMined`). A proof of the
present chain passes once its client has the headers: no boundary of an epoch, of a
tree or of the depth refuses it (`FreshProofVerifies`).

Every module with state has a type invariant `TypeOK` where a proof uses it; it is
proved rather than listed among a run's properties.

### The bounds

Two concurrent callers or calls are enough for every race described above, each of
which is between two tasks of one quote and a third that is not a call (a loop, the
network); three calls on the connector give one that times out, one that is dropped
and one that is answered between them. Six requests let a quote be asked for,
accepted twice, delivered to and signed twice. Two transactions per run are the two
a repeated accept or delivery builds. One fault separates failures from their
combinations; the effects of a failure persist, so that a later step meets them. The
times to live are one tick: long enough to be live at one step and expired at another
with any other step between. Queue and wire of one frame fill at the second call.
Three connections of two makers let one flap beside another that does not.
`MaxHeight` 2 with `MinConfs` 2 gives the broker a block too few and enough. Two RFQs and
room for the statistics of one: either is cleared out while it waits, while a handler has
them, or after they are in a row. Two requests for one quote race for them as two for the
quotes of two makers would, which differ in the row they write; the theorem has any makers.
Three outpoints of two contracts give the store a reservation of two rows, one across
contracts, and a contract that is seeded beside rows of another.

The pools of `liquidity` reach exact pairs and triples, the limits above which they are
not looked for, ladders with a dropped tier and with tiers that are not whole, a unit
worth more than a sat and less. In `treasury` the buy and the sell can meet on the
change of one another and on the outputs of a split; the fat piece has change above
dust, the sell a payout above its fee; the BTC ladder has one tier, the RGB ladder two; the stray host is what `recover` is for, and a
command runs while the daemon is down, as `commands.rs:408-410` and `:638` ask. A
transaction the network accepted stays: reorganisations are `Spv`'s and evictions
`Maker`'s. In `spv` a third transaction makes an odd level of the tree, an epoch of two
blocks puts two retargets below the bound, once faster and once slower than the clamp,
`MinConfs` 2 below `BuryDepth` 3 separates accepted from bookmarked, and a fork of two
replaces what was accepted but not what was bookmarked; larger radixes and epochs
change the numbers, not the cases.

The bounds `Max*` are constants named as such in each module and guard only actions of
the environment, never one of the program, except `MaxOps` of the store, which ends
the run, and `MaxSplits`, which ends the executor's.

## 4. Fairness

Fairness is stated only for what the program's runtime owes. In `Maker` every call
proceeds (tokio polls a task that can run), both loops go round and time passes;
nothing obliges a taker to ask or a miner to mine, so the liveness properties hold of
swaps abandoned at any point. In `WsConnector` a call's own steps, its timer and the
two tasks are fair; the maker owes nothing, neither to read nor to answer nor to close.
In `MakerRegistry` the connection tasks and the refresh are fair, the cache expires
and clients go on asking for prices (the feed is refreshed by nothing else). In
`BrokerSettlements` the confirmation loop is polled and blocks are found. In
`AutoMirror` both loops are polled and their intervals tick. Weak fairness is enough
everywhere: no step above is disabled again and again by another that runs for ever,
the environment's steps being bounded.

`ReservationResolves` needs the requests to be finitely many: each repeated accept
or delivery extends a live reservation, and the code puts no limit on how often.

`Liquidity`, `Treasury` and `Spv` state no fairness: their properties are safety.

## 5. Proofs

TLAPS proves the following for every value of the constants, from the named
assumptions on them only.

**`InventoryStore_proofs`**, from `StoreAssumption`: `TypeCorrect`, `NeverTorn`
(`NoTornReservation`), `AnsweredDurable` (`AnsweredIsDurable`). The inductive
invariant `IInv` has four parts beside the types. `LockHeld`: a caller inside a mutation holds
`write_lock`; from it, that the other callers are idle. `CopiesWhole`: memory, table
and every listing are whole and name only issued quotes; the second half is needed
because a reservation made under an old id could meet rows that still carry it.
`PersistInOrder`: the caller's mutation is the last applied, what it listed is what is
in memory, and when the table is up to date it equals memory. `SwallowsHarmless`: while
only callers that swallow failures have moved memory on from the table, it differs by what
they would do again; it is a chain of such steps, each from where the last left memory,
which the table has not seen. The lemmas say of each
operator of `Inventory` that it keeps an inventory well-formed and whole
(the engine's proofs open with the same ones); the step lemma has one case per action. `NoTheftEver` (`NoTheft`) and `NoResurrectionEver`
(`NoResurrection`) follow per operation: `OperationsKeepRows` says what a mutation may
do to a row that is reserved or committed, `ReorgFreesItsOwn` what a reorg frees, and
the two steps that are not mutations, time and a crash, are the cases apart.

**`Maker_proofs`**, from `MakerAssumption`: `EngineSound` (the inductive invariant) and
from it `MakerTypes`, `WrittenOff` (`WrittenOffBySpender`), `OffersSpend`
(`OfferedSpendsReservation`), `FillsOwn` (`FillOwnsInputs`), `SellsAnchored`
(`SellConsignmentAnchored`) and `RecordsOnce` (`RecordedOnce`), for any quotes, outpoints,
calls in flight and faults. None of them is inductive. `IInv` has three parts beside the
types. `StoresSound` says of inventory, transactions and network that they agree: a
reservation lies in the pool of its quote, a transaction in a taker's hands spends it, a
row that is committed leads back to its quote, what is recorded has left its reservation.
`CallsSound` says what a call knows between two awaits: what it read is what the
inventory says, *as long as the reservation lives*, so that expiry and release may come in
between; a call about to record has left the reservation and owns its inputs. `Exclusive`
says that no two calls quote or record the same quote. All steps but four only let a
reservation lapse (`Calm`, from the `...Lapses` lemmas on each operator of `Inventory`),
and one lemma shows that such a step keeps the stores and the calls that do not move; the
lemma of a handler's step is then about that handler. The steps that reserve, commit,
settle and record have lemmas of their own, which is where the argument is: a commit by
one call leaves the calls beside it sound because what they know is conditional.

`ImplementsLifecycle` is the refinement: `Spec => ImplementsSwapLifecycle`, every step of
the engine a step of `SwapLifecycle` or a stutter under `Stage` and `Backing`. A calm step
releases some quotes or none; reserving holds, marking commits, the sweep settles.
`StagesApart` is the lemma that no two quotes are backed by the same outpoint.

`OffersFindEntries` (`OfferFindsEntry`) assumes that a crash is not among the faults.
`EntryInv` adds to `IInv` who may drop an entry: the cleanup loop only what it saw lapsed,
which cannot come alive again (`NothingRevives`).

**`WsConnector_proofs`**, from `WsAssumption`: `TypeCorrect`, `OwnAnswers`
(`AnswerIsOwn`), `ClosedMeansNo` (`ClosedNeverExecuted`), `WaitersServed`
(`WaiterIsServed`), `OrphansAccounted` (`OrphansAreAccounted`). None of the four is
inductive alone. `ResponsesAreOwn` says what is in a channel or among the replies
answers the request it names and was executed; `UnsentIsNowhere` says a call that has
not passed `send` is in no queue; `CallersAreServed` ties each position of a call to
the map and its channel, and to the reader having ended; `EntriesAreAccounted` says
where the frame of an entry without a caller is. Three small lemmas say what Append,
Tail and a prefix do to the elements of a sequence; one lemma per action follows.

**`MakerRegistry_proofs`**, from `RegistryAssumption`: `TypeCorrect` and
`NeverRoutedToTheGone` (`RegisteredIsServed`). A task that moves could disturb the
entry of another maker only through a connection they shared, so `DialledFirst` adds
that a task past its Register frame has a dialled connection and that a dialled
connection keeps its owner.

**`BrokerSettlements_proofs`**, from `BrokerAssumption`: `TypeCorrect`, `SettledDeep`
(`SettledIsDeep`), `RecordStands` (`FirstRecordStands`). The loop decides on a tip and a
listing that are old by then; `LoopLagsBehind` says they are old in one direction only.
`ServedWereAsked` ties a request in hand to one that was sent. The statistics map is
bounded: two lemmas on cardinality say that adding to it and taking from it keep the
bound. `StatsInOneRow` (`StatsReachOneRow`) counts: `StatsInv` says where the statistics
of an RFQ are, in the map, with one handler or in one row, or in none of these, whatever
fails and however small the map; that what waits is quoted, so that a new RFQ finds nothing
of its own; and that a handler has none before it took them. `StatsStep` is the action
property said without counting, and the theorem's last step counts.

**`Orders_proofs`**, of `AutoMirror` from `MirrorAssumption`: `TypeCorrect`, `NoFillLost`
(`MarkedMeansHandled`), `NoFillAddedFreely` (`AddedOncePerFault`). `ListedAreOpen` says
that what the loop has listed is settled and unmarked; `MarkedNext` that the fill about
to be marked was dealt with; `UnmarkedWereAddedBefore` charges every earlier addition of
an unmarked fill to a fault. The operator's commands and the reload loop reach none of
these, which is one lemma.

Of `Liquidity`, from `QuotingAssumption` and `LiquidityAssumption`, for any ladders, orders
and pools: `LiquidityInvariance`, `MirrorIsNeverALoss` (`MirrorNeverLoses`) and
`AdvertisedIsAlwaysFilled` (`AdvertisedIsFilled`). The invariant is that the pool stays one,
amounts in ascending order. That takes what each function computes: a split and a change
add up to what is cut (`CarveIs`), a selection covers what it is for (`SelectIsEnough`), an
insertion keeps the order (`InsertIs`). `QuotingAssumption` has that pairs are looked for
wherever triples are, as `coin_select.rs` has it (2,000 and 16 coins).

- A mirror order: `MirrorOfSale` and `MirrorOfPurchase` say that the edge of one outweighs
  the rounding of the recovered unit price, for every spread that is not zero, and
  `TradeBack` that rounding the later total is in the maker's favour. `build_mirror_order`
  asks for one sat per token at least, also to buy back; that is no more than was earned
  because the order sold had a price of one at least and its total was rounded up.
- The feed: `AdvertisedIsHeld` is the rounding of `units_for_sats`, `GreedyIsEnough` and
  `ExactFitIsEnough` are the selectors. That an exact choice is found if there is one goes
  through `FewAreTuples` (a set of at most three coins is a tuple in order) and `FirstTuple`
  (some tuples have a first one); that no coin is too many, through the sums of the rest.

Beneath are the recursions of the community modules: `SumFunctionOnSet` (`SumTake`, `SumPut`,
`SumConcat`), `FoldLeft` (`FoldIn`), `FlattenSeq`. Each is a CHOOSE of a function that
satisfies an equation; `SetRecursion` shows that there is one, for any step and any choice
of the element taken, by induction over the subsets of a finite set.

**`Treasury_proofs`**, from no assumption on the ladders, fees, offers or commands:
`IInvAlways`, `OffersAreUnspent` (`OfferedIsUnspent`) and `BtcPoolIsPlain`
(`BtcPoolHoldsNoRgb`, where the registry lists every contract). The planner, the ladder and
the composers are used by name only: whatever they compute, the argument is who holds a
coin. `SwapsHoldInputs` and `PassHoldsInputs` say that what a swap or the executor composed
is reserved for it until its mark or its release, so that neither another's expiry, nor
another quote, nor the observer can offer it; `SpentIsGone` that what a live transaction
spent is pending or spent in its pool, but for those the pools never heard of and those
still between broadcast and mark, of a swap or of the executor;
`PoolsAreApart` that no outpoint is in both pools, which needs `CoinsAreKnown` (an output
once composed stays what it is). `Keeps` is what each operator on a pool leaves alone, one
lemma each; `Prolongs` the same for the history.

**`Spv_proofs`**, from `HeaderAssumption` and `SpvAssumption`: `Invariance`, `BookmarkIsSafe`
(`BookmarkedStaysMined`), `FreshProofsVerify` (`FreshProofVerifies`), and under one more
hypothesis `AcceptedIsDeep` (`AcceptedWasDeep`). What was read is of the chain's past, and
`IInv` says how. `ChainSound`: the chain is one (`IsChain`: ids name heights, links and
difficulty follow, nothing is mined twice), and what is deep is in the history. `RunSound`:
fetched headers that link up are the chain's up to the last one that is, which is why an
extension that links to the old run makes the chain's own headers of it (`FetchIs`), and one
that does not is refused. `RunDeep`: the root of such a header is of a block as deep as the
run says. `ProverSound`: an anchor states the height of the block it names, although height,
branch and header come from three calls. `GateSound`: what a gate kept is buried. A
reorganisation replaces fewer blocks than `BURY_DEPTH` (`ReorgIs`), so `DeeperGrows` carries
the last through. Beneath are the algorithms. A climb through any tree ends at its root and
passes the siblings that `compute_merkle_root` hashes back to it (`BranchLeadsToRoot`), within
`MAX_MERKLE_DEPTH` levels (`PathIsShort`); a retarget is a compact form whatever the times and
the radix (`RetargetIs`), and looks back no further than the chain goes (`OwedIs`).

Those of `Spv` are inductions over a branch, a tree, the blocks of a reorganisation and the digits of
a target. The library's induction rules take an operator and cannot be used; `Induction` takes
the *set* of the numbers a formula holds of, and rests on `Least`: a set of numbers that is not
empty has a least one, from the well-foundedness of the order on finite sets. The recursions
are functions on `0..n` (`Power`, `HashUp`, `Climbs`, `Regrown`), whose existence and
equations are proved first.

`NoNodeIsALeaf`, the hypothesis of `AcceptedIsDeep`, says that a transaction is not the pair
of two nodes: `compute_merkle_root` hashes a leaf and a node alike and takes the depth of the
branch from the proof, so that only the hash tells them apart. It holds of the instance that
is checked, where transactions are model values.

Only model-checked, and why:

- Liveness under fairness: TLAPS has no rule here for ENABLED.
- `NothingBurned` and `NobodyOverpays`: sums over the outputs of a composition, which are
  folds of the community modules over sorted coins and rungs; and the first holds for one
  contract only (section 6).
- `DeficitIsLeast`, `ChangeRungsAreWanted`: that the greedy match is optimal against every
  other assignment, and what more pieces do to it. `Orders_proofs` has what the fold returns
  (`DeficitIs`), and no exchange argument for matchings.

## 6. Divergences seen while modelling

One is reproduced by a run:

- `claim_fee_coin`. LB:1102-1105 says of `list_btc_only_utxos` that "every registered
  contract's allocations are excluded", so that a fee spend cannot destroy them.
  `maker_recover` (`commands.rs:334`) asks it about the one asset it recovers; the
  fattest coin without that asset can carry another, which the sweep does not move.

Others, read off the code and built into the models as the code has them.

Inventory store:

- `sqlite.rs:5-7` has the inventory written through "to SQLite (one JSON-blob row per UTXO)
  after every mutation". An expiry whose persist fails is printed and counted as released
  (`sqlite.rs:209-218`, `:463-472`), and the first seed of the BTC pool likewise
  (`:403-409`); a restart before the next write brings the reservation back, expired.
  `AnsweredIsDurable` says that nothing worse comes of it.

Settlement engine:

- MK:1875 says a failed broadcast means "the swap tx never hit the network", and the
  handler releases the reservation. Of two `/sign` calls for one quote the second's
  broadcast can fail (already known) when the first's has succeeded and not yet marked
  the inputs: what is released is being spent. A lost answer, a lapse or a restart
  between broadcast and mark do the same. `Maker` and `Treasury` have all four, and
  `OfferedIsUnspent` excepts the transactions so lost to the pools, and no others.
- The sweep's `tx_confirmed` (MK:1942-1962) counts a transaction in the mempool, where
  `docs/swap-flows.md:46` has "N confirms"; `Sweep` therefore marks inputs spent for
  transactions that may be evicted.
- Nothing times out PendingBitcoinConfirm (MK:794 releases only reservations), where
  `docs/swap-flows.md:199-201` describes a broadcast-confirm TTL.
- A buy accepted twice can file the consignment of one build under the transaction of
  the other (MK:1788), where `rfq-store/src/lib.rs:240` says "The swap's witness txid
  the consignment anchors to."; `SellConsignmentAnchored` is therefore about sells.

Broker:

- `registry.rs:135-137` says a stale connection cannot evict a maker that reconnected.
  If the stale connection's task inserts after the newer one's, its removal takes the
  entry with it; the maker is connected and not registered. `RegisteredIsServed` has the
  other direction only.
- `REQUEST_TIMEOUT`, "Hard ceiling on a single settlement call" (`ws_connector.rs:27`),
  does not cover the wait for room in the queue (`ws_connector.rs:113`); hence
  `SentCallReturns` and not that every call returns.
- `refresh_prices` marks the cache fresh after an invalidation it did not see
  (`registry.rs:275`), where `registry.rs:130` says the next `GET /prices` re-pulls;
  `FeedFollowsRegistry` holds because the TTL runs out.
- A slow `/accept` saved after the `/sign` takes the row's witness and status back
  (BR:786-794), and the confirmation loop no longer follows the transaction; neither
  `FirstRecordStands` nor `MinedSwapSettles` speaks of it.
- A broadcast whose answer to `/sign` is lost leaves a row nothing settles (BR:620);
  `MinedSwapSettles` is about recorded broadcasts.

Strategy and rebalancing:

- A retry of a mirrored fill is not idempotent (MN:1042 against MN:963-964), which
  `AddedOncePerFault` measures (it tolerates one addition per failure); an order pinned, cancelled or resized between the read
  (MN:1005) and the upsert is overwritten.
- A mirror order that accumulates fills is priced by the last of them, so
  `MirrorNeverLoses` is about an order and its own fill; with a spread of zero, or at a
  price of one, rounding can lose, and the property asks for a spread.
- `plan_ladder`, "Pure & idempotent - feeding the post-split distribution back returns
  `None`" (`rebalance.rs:127-133`), is not: pieces of 6 and 6 under a halving ladder of
  base 4 with two copies and a minimum of 2 leave a further plan after a split.
- Change below `REBALANCE_BTC_CHANGE_FLOOR_SATS` goes to the fee, beyond the fee that was
  estimated and the reserve that was checked.
- A BTC-only split has no RGB sources, so the in-flight guard is satisfied at once
  (MN:1145); the next pass may build on its unconfirmed change, which is harmless.
- A buy whose inputs are a single anchor of 546 sats pays for one rung or has change at
  the dust limit, which goes to the fee.
- With two contracts, a pass of the executor leaves both remainders on one host output
  (`swap/rebalance.rs:680`); the pool keys that outpoint by one asset, and a swap of
  either moves its own contract's allocation only. `NothingBurned` is checked with one
  contract for this reason.

SPV:

- The prover caches the anchor of a transaction however shallow (`spv-prover/src/lib.rs:14`);
  after a reorganisation it serves that anchor for good, and every verifier refuses it.
  `AcceptedWasDeep` shows the refusal; `FreshProofVerifies` is about anchors of the
  present chain.

## 7. Not modelled, and why

- Keys, scripts, signatures, tapret commitments, invoices, issuance and the RGB library's
  own validation: calls into libraries. `SwapTx` has what the compositions do with values.
- Configuration, read-only commands and endpoints, the planner loop (it only logs), the
  price feed's formatting, the sorting of quotes: no state changes.
- Segmented header sources and pinned checkpoints of `headers.rs`: the same checks over
  headers fetched in pieces.
- The protocol with the Electrum server and the WebSocket framing: I/O.
- Takers, their wallet and client: sequential, nothing shared; deployment: no logic.
- In `Maker`, a chain that reorganises below a confirmed block: no code path of the
  daemon reacts to one (`mark_reorged` has no caller there); the store's operation is
  modelled and `Spv` has the chain's side.

## 8. Plan

1. Done: all components above with status modelled; the proofs listed in section 5.
2. Done: the engine's invariant, its five safety properties, its refinement of
   `SwapLifecycle`; where the broker's statistics go; who holds a coin of the treasury;
   what gates and thin clients may believe of a chain that reorganises; the rounding of
   mirror orders, both coin selectors and the pool under splits and settlements.
3. The sums of `SwapTx`, composition by composition, for `NothingBurned` with one contract:
   `Orders_proofs` has the lemmas on sums they need.
4. An exchange argument for the greedy match of `Ladder`, for `DeficitIsLeast`.
