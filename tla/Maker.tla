--------------------------------- MODULE Maker ---------------------------------
(***************************************************************************)
(* The maker's settlement engine (crates/rfq-maker/src/lib.rs): quotes     *)
(* reserve inventory, accept and /consignment build a swap PSBT over the   *)
(* reserved outpoints, /sign broadcasts it and commits the inputs to it.   *)
(*                                                                         *)
(* Every handler is an async function, so other tasks run at each await:   *)
(* one action stands for the code between two awaits that touch shared     *)
(* state.  Handlers of the same quote run at the same time (a retried      *)
(* request, HTTP and the broker socket), beside the cleanup loop and the   *)
(* chain observer (services/maker-node/src/lib.rs).  The pending map is in *)
(* memory only; inventory, consignments and fills survive a crash.         *)
(***************************************************************************)
EXTENDS Inventory, FiniteSets

CONSTANTS
  RgbOutpoints,    \* the RGB pool; the other outpoints are the BTC pool
  BuyQuotes,       \* quotes the taker buys RGB with; the others are sells
  Covering,        \* Covering[q]: the selections that cover q's amount
  Calls,           \* slots for handler invocations in flight
  NoQuote, NoTx,   \* absent values
  NoPending,       \* no entry in the pending map
  AwaitingPsbt,    \* a sell entry whose psbt_built is None
  QuoteTtl, ConsignmentTtl, SignatureTtl,
  RetryAttempts,   \* RESERVE_RETRY_ATTEMPTS
  FaultKinds,      \* which of "crash", "drop", "lostReply", "evict" can occur
  MaxQuotes,       \* bound: quotes ever requested
  MaxCalls,        \* bound: requests that ever arrive
  MaxFaults        \* bound: faults that ever occur

Pool(q) ==
  IF q \in BuyQuotes THEN RgbOutpoints ELSE Outpoints \ RgbOutpoints

ASSUME MakerAssumption ==
  /\ RgbOutpoints \subseteq Outpoints
  /\ BuyQuotes \subseteq Quotes
  /\ \A q \in Quotes : Covering[q] \subseteq (SUBSET Pool(q)) \ {{}}
  /\ {NoTx, NoPending, AwaitingPsbt} \cap Txids = {}
  /\ NoPending # AwaitingPsbt /\ NoTx # NoPending /\ NoTx # AwaitingPsbt
  /\ NoQuote \notin Quotes
  /\ {QuoteTtl, ConsignmentTtl, SignatureTtl} \subseteq Nat \ {0}
  /\ FaultKinds \subseteq {"crash", "drop", "lostReply", "evict"}
  /\ {RetryAttempts, MaxQuotes, MaxCalls, MaxFaults} \subseteq Nat

VARIABLES
  utxos,         \* the inventory stores, both pools
  quoted,        \* per quote: "fresh", "asked" or "reserved"
  pending,       \* the pending map, see PendingType
  built,         \* the swap transactions ever built
  offered,       \* those whose PSBT reached the taker
  chain,         \* what the network knows of each transaction
  consignments,  \* ConsignmentStore: quote -> anchor and witness recorded
  fills,         \* FillStore: quote -> witness of the recorded fill
  calls,         \* handler invocations in flight
  stale,         \* quotes the cleanup loop is about to prune
  cleaning,      \* the cleanup loop's position
  arrived,       \* requests so far, up to MaxCalls
  faults         \* faults so far, up to MaxFaults

vars == <<utxos, quoted, pending, built, offered, chain, consignments, fills,
          calls, stale, cleaning, arrived, faults>>

-----------------------------------------------------------------------------
(***************************************************************************)
(* Types                                                                   *)
(***************************************************************************)

\* A buy entry holds the maker's consignment, which is anchored to the witness
\* transaction built with it; a sell entry holds expected_witness_txid.  Both
\* are named by that transaction.
PendingType == Txids \cup {NoPending, AwaitingPsbt}

\* A built swap transaction: the quote it settles, the maker's inputs it spends.
Unbuilt == [quote |-> NoQuote, ins |-> {}]

BuiltType == [quote : Quotes \cup {NoQuote}, ins : SUBSET Outpoints]

ChainType == {"unseen", "mempool", "mined", "evicted"}

NoConsignment == [anchor |-> NoTx, witness |-> NoTx]

ConsignmentType == [anchor : Txids \cup {NoTx}, witness : Txids \cup {NoTx}]

\* Where a handler stands: the await it is about to pass.
PcType ==
  {"idle",
   "select", "reserve",                                        \* request_quote
   "accept", "acceptRows", "buildBuy", "extendAccept", "park", \* accept_quote
   "deliver", "deliverFind", "deliverRows", "planRungs", "buildSell",
   "extendDeliver", "recordPsbt",                   \* deliver_consignment_sell
   "sign", "signFind", "finalize", "broadcast", "markPending",
   "saveConsignment", "recordFill", "finish",             \* submit_signed_psbt
   "release", "releaseAndDrop", "drop"}                   \* error returns

\* The locals of a handler: the transaction in hand, the pending entry it
\* cloned, the rows it read or chose, the outpoints its retries exclude, the
\* time left of the deadline computed on entry and the attempts made.
CallType ==
  [pc : PcType, quote : Quotes \cup {NoQuote}, tx : Txids \cup {NoTx},
   entry : PendingType, rows : SUBSET Outpoints, excluded : SUBSET Outpoints,
   left : Nat, attempts : Nat]

Idle ==
  [pc |-> "idle", quote |-> NoQuote, tx |-> NoTx, entry |-> NoPending,
   rows |-> {}, excluded |-> {}, left |-> 0, attempts |-> 0]

TypeOK ==
  /\ utxos \in Inventories
  /\ quoted \in [Quotes -> {"fresh", "asked", "reserved"}]
  /\ pending \in [Quotes -> PendingType]
  /\ built \in [Txids -> BuiltType]
  /\ offered \subseteq Txids
  /\ chain \in [Txids -> ChainType]
  /\ consignments \in [Quotes -> ConsignmentType]
  /\ fills \in [Quotes -> Txids \cup {NoTx}]
  /\ calls \in [Calls -> CallType]
  /\ stale \subseteq Quotes
  /\ cleaning \in {"idle", "scan", "prune"}
  /\ arrived \in Nat
  /\ faults \in Nat

\* A running daemon whose wallet was seeded: every tracked outpoint Available.
Init ==
  /\ utxos = [o \in Outpoints |-> Available]
  /\ quoted = [q \in Quotes |-> "fresh"]
  /\ pending = [q \in Quotes |-> NoPending]
  /\ built = [t \in Txids |-> Unbuilt]
  /\ offered = {}
  /\ chain = [t \in Txids |-> "unseen"]
  /\ consignments = [q \in Quotes |-> NoConsignment]
  /\ fills = [q \in Quotes |-> NoTx]
  /\ calls = [c \in Calls |-> Idle]
  /\ stale = {}
  /\ cleaning = "idle"
  /\ arrived = 0
  /\ faults = 0

-----------------------------------------------------------------------------
(***************************************************************************)
(* Helpers                                                                 *)
(***************************************************************************)

At(c, pc) == calls[c].pc = pc

Arrive(c, q, pc) ==
  /\ At(c, "idle")
  /\ arrived < MaxCalls
  /\ arrived' = arrived + 1
  /\ calls' = [calls EXCEPT ![c] = [Idle EXCEPT !.pc = pc, !.quote = q]]

Goto(c, pc) == calls' = [calls EXCEPT ![c].pc = pc]

Return(c) == calls' = [calls EXCEPT ![c] = Idle]

Quote(c) == calls[c].quote

Live(q) == HeldFor(utxos, q) # {}

IsBuy(q) == q \in BuyQuotes

HandlerVars == <<stale, cleaning, faults>>

\* A handler step that writes nothing shared.
OnlyCallsChange ==
  UNCHANGED <<utxos, quoted, pending, built, offered, chain, consignments,
              fills, arrived, HandlerVars>>

-----------------------------------------------------------------------------
(***************************************************************************)
(* request_quote and request_quote_sell                                    *)
(***************************************************************************)

\* A request arrives: both pools release what has expired, a fresh quote id is
\* drawn and its deadline computed.
RequestQuote(c, q) ==
  /\ quoted[q] = "fresh"
  /\ Cardinality({r \in Quotes : quoted[r] # "fresh"}) < MaxQuotes
  /\ At(c, "idle")
  /\ arrived < MaxCalls
  /\ arrived' = arrived + 1
  /\ quoted' = [quoted EXCEPT ![q] = "asked"]
  /\ utxos' = ReleaseExpired(utxos, Outpoints)
  /\ calls' = [calls EXCEPT ![c] =
                 [Idle EXCEPT !.pc = "select", !.quote = q, !.left = QuoteTtl]]
  /\ UNCHANGED <<pending, built, offered, chain, consignments, fills, HandlerVars>>

\* list_available and the coin selector: any selection among the Available,
\* not excluded outpoints of the pool that covers the amount.
Candidates(c) ==
  {S \in Covering[Quote(c)] :
     S \subseteq ListAvailable(utxos) \ calls[c].excluded}

SelectCoins(c) ==
  /\ At(c, "select")
  /\ \E S \in Candidates(c) :
       calls' = [calls EXCEPT ![c].pc = "reserve", ![c].rows = S,
                              ![c].attempts = @ + 1]
  /\ OnlyCallsChange

\* Insufficient: no quote.
DeclineQuote(c) ==
  /\ At(c, "select")
  /\ Candidates(c) = {}
  /\ Return(c)
  /\ OnlyCallsChange

ReserveCoins(c) ==
  /\ At(c, "reserve")
  /\ CanReserve(utxos, calls[c].rows)
  /\ utxos' = ReserveUtxos(utxos, calls[c].rows, Quote(c), calls[c].left)
  /\ quoted' = [quoted EXCEPT ![Quote(c)] = "reserved"]
  /\ Return(c)
  /\ UNCHANGED <<pending, built, offered, chain, consignments, fills, arrived,
                 HandlerVars>>

\* Another quote took one of the chosen outpoints since they were listed.  A buy
\* excludes the selection and selects again while attempts remain; a sell has
\* one attempt.
ReserveContended(c) ==
  /\ At(c, "reserve")
  /\ ~CanReserve(utxos, calls[c].rows)
  /\ IF IsBuy(Quote(c)) /\ calls[c].attempts < RetryAttempts
     THEN calls' = [calls EXCEPT ![c].pc = "select", ![c].rows = {},
                                 ![c].excluded = @ \cup calls[c].rows]
     ELSE Return(c)
  /\ OnlyCallsChange

-----------------------------------------------------------------------------
(***************************************************************************)
(* accept_quote and accept_quote_sell                                      *)
(***************************************************************************)

\* The taker accepts a quote it was given: the quote's pool releases what has
\* expired.
AcceptQuote(c, q) ==
  /\ quoted[q] = "reserved"
  /\ Arrive(c, q, "accept")
  /\ utxos' = ReleaseExpired(utxos, Pool(q))
  /\ UNCHANGED <<quoted, pending, built, offered, chain, consignments, fills,
                 HandlerVars>>

\* find_reservation_for_quote; an expired or released quote is refused.
FindForAccept(c) ==
  /\ At(c, "accept")
  /\ IF ~Live(Quote(c)) THEN Return(c)
     ELSE Goto(c, IF IsBuy(Quote(c)) THEN "acceptRows" ELSE "extendAccept")
  /\ OnlyCallsChange

\* The rows under the reservation are listed after it was found, so they can be
\* none: the outpoints the PSBT will spend.
ListReserved(c, from, to) ==
  /\ At(c, from)
  /\ calls' = [calls EXCEPT ![c].pc = to,
                            ![c].rows = HeldFor(utxos, Quote(c))]
  /\ OnlyCallsChange

ListForAccept(c) == ListReserved(c, "acceptRows", "buildBuy")

\* Fee estimate, taker funding, change rungs and create_swap_psbt_*: a new
\* transaction over the rows listed.
BuildPsbt(c, from, to) ==
  /\ At(c, from)
  /\ \E t \in Txids :
       /\ built[t] = Unbuilt
       /\ built' = [built EXCEPT ![t] =
                      [quote |-> Quote(c), ins |-> calls[c].rows]]
       /\ calls' = [calls EXCEPT ![c].pc = to, ![c].tx = t]
  /\ UNCHANGED <<utxos, quoted, pending, offered, chain, consignments, fills,
                 arrived, HandlerVars>>

BuildBuyPsbt(c) == BuildPsbt(c, "buildBuy", "extendAccept")

\* Fee slippage, underfunded taker, unreachable indexer or a failed build: the
\* reservation is released and the error returned.
AcceptFails(c) ==
  /\ At(c, "buildBuy")
  /\ Goto(c, "release")
  /\ OnlyCallsChange

\* Slip: the extension's error is ignored.
ExtendUnchecked(c, from, to, ttl) ==
  /\ At(c, from)
  /\ utxos' = ExtendReservation(utxos, Quote(c), ttl)
  /\ Goto(c, to)
  /\ UNCHANGED <<quoted, pending, built, offered, chain, consignments, fills,
                 arrived, HandlerVars>>

\* extend_reservation; if the reservation is gone the error returns at once.
Extend(c, from, to, ttl) ==
  /\ At(c, from)
  /\ utxos' = ExtendReservation(utxos, Quote(c), ttl)
  /\ IF Live(Quote(c)) THEN Goto(c, to) ELSE Return(c)
  /\ UNCHANGED <<quoted, pending, built, offered, chain, consignments, fills,
                 arrived, HandlerVars>>

ExtendForAccept(c) ==
  Extend(c, "extendAccept", "park",
         IF IsBuy(Quote(c)) THEN SignatureTtl ELSE ConsignmentTtl)

\* The pending entry is written, over any earlier one, and the intent answered;
\* a buy intent carries the PSBT.
ParkPending(c) ==
  /\ At(c, "park")
  /\ pending' = [pending EXCEPT ![Quote(c)] =
                   IF IsBuy(Quote(c)) THEN calls[c].tx ELSE AwaitingPsbt]
  /\ offered' = IF IsBuy(Quote(c)) THEN offered \cup {calls[c].tx} ELSE offered
  /\ Return(c)
  /\ UNCHANGED <<utxos, quoted, built, chain, consignments, fills, arrived,
                 HandlerVars>>

-----------------------------------------------------------------------------
(***************************************************************************)
(* deliver_consignment_sell                                                *)
(***************************************************************************)

DeliverConsignment(c, q) ==
  /\ quoted[q] = "reserved"
  /\ Arrive(c, q, "deliver")
  /\ utxos' = ReleaseExpired(utxos, Outpoints \ RgbOutpoints)
  /\ UNCHANGED <<quoted, pending, built, offered, chain, consignments, fills,
                 HandlerVars>>

\* No accepted sell under the quote: an error, and nothing changes.
ReadForDeliver(c) ==
  /\ At(c, "deliver")
  /\ IF IsBuy(Quote(c)) \/ pending[Quote(c)] = NoPending
     THEN Return(c)
     ELSE Goto(c, "deliverFind")
  /\ OnlyCallsChange

\* find_reservation_for_quote again; a lapsed window drops the pending entry.
FindLive(c, from, to) ==
  /\ At(c, from)
  /\ Goto(c, IF Live(Quote(c)) THEN to ELSE "drop")
  /\ OnlyCallsChange

FindForDeliver(c) == FindLive(c, "deliverFind", "deliverRows")

\* Consignment rejected or prevout unusable (before the rows are listed); fee
\* slippage or a failed build (after): the BTC goes back, the entry is dropped.
DeliverFails(c) ==
  /\ calls[c].pc \in {"deliverRows", "planRungs", "buildSell"}
  /\ Goto(c, "releaseAndDrop")
  /\ OnlyCallsChange

ListForDeliver(c) == ListReserved(c, "deliverRows", "planRungs")

\* With a BTC ladder configured and change to split, available_btc is asked for
\* the pool and releases what has expired, this very reservation perhaps.
PlanChangeRungs(c) ==
  /\ At(c, "planRungs")
  /\ utxos' \in {utxos, ReleaseExpired(utxos, Outpoints \ RgbOutpoints)}
  /\ Goto(c, "buildSell")
  /\ UNCHANGED <<quoted, pending, built, offered, chain, consignments, fills,
                 arrived, HandlerVars>>

BuildSellPsbt(c) == BuildPsbt(c, "buildSell", "extendDeliver")

ExtendForDeliver(c) == Extend(c, "extendDeliver", "recordPsbt", SignatureTtl)

\* psbt_built is recorded if the entry is still there; the PSBT is answered
\* either way.
RecordPsbt(c) ==
  /\ At(c, "recordPsbt")
  /\ pending' = IF pending[Quote(c)] = NoPending THEN pending
                ELSE [pending EXCEPT ![Quote(c)] = calls[c].tx]
  /\ offered' = offered \cup {calls[c].tx}
  /\ Return(c)
  /\ UNCHANGED <<utxos, quoted, built, chain, consignments, fills, arrived,
                 HandlerVars>>

-----------------------------------------------------------------------------
(***************************************************************************)
(* submit_signed_psbt and submit_signed_psbt_sell                          *)
(***************************************************************************)

\* The taker signs one of the PSBTs it was given for the quote.
SubmitSignedPsbt(c, q) ==
  /\ At(c, "idle")
  /\ arrived < MaxCalls
  /\ arrived' = arrived + 1
  /\ \E t \in offered :
       /\ built[t].quote = q
       /\ calls' = [calls EXCEPT ![c] =
                      [Idle EXCEPT !.pc = "sign", !.quote = q, !.tx = t]]
  /\ utxos' = ReleaseExpired(utxos, Outpoints)
  /\ UNCHANGED <<quoted, pending, built, offered, chain, consignments, fills,
                 HandlerVars>>

\* The pending entry is cloned; the handler works from the clone to its end.  A
\* missing entry, or a sell entry without psbt_built, is an error.
ReadForSign(c) ==
  /\ At(c, "sign")
  /\ LET entry == pending[Quote(c)] IN
       IF entry \in {NoPending, AwaitingPsbt} THEN Return(c)
       ELSE calls' = [calls EXCEPT ![c].pc = "signFind", ![c].entry = entry]
  /\ OnlyCallsChange

FindForSign(c) == FindLive(c, "signFind", "finalize")

\* Slip: the signed PSBT is finalized as it comes on both sides.
FinalizeUnverified(c) ==
  /\ At(c, "finalize")
  /\ Goto(c, "broadcast")
  /\ OnlyCallsChange

\* verify_signed_swap_psbt: the txid fixes the inputs and the outputs.
VerifySigned(c) == calls[c].entry = calls[c].tx

\* A sell verifies that the signed PSBT still has expected_witness_txid.  A buy
\* finalizes whatever PSBT it was sent.
Finalize(c) ==
  /\ At(c, "finalize")
  /\ IsBuy(Quote(c)) \/ VerifySigned(c)
  /\ Goto(c, "broadcast")
  /\ OnlyCallsChange

\* A wrong txid, an unusable signature, a failed finalization.
FinalizeFails(c) ==
  /\ At(c, "finalize")
  /\ Goto(c, "releaseAndDrop")
  /\ OnlyCallsChange

\* The network takes a transaction unless another it knows spends its inputs.
Relayable(t) ==
  /\ chain[t] # "mined"
  /\ \A u \in Txids \ {t} :
       chain[u] \in {"mempool", "mined"} => built[u].ins \cap built[t].ins = {}

BroadcastAccepted(c) ==
  /\ At(c, "broadcast")
  /\ Relayable(calls[c].tx)
  /\ chain' = [chain EXCEPT ![calls[c].tx] = "mempool"]
  /\ Goto(c, "markPending")
  /\ UNCHANGED <<utxos, quoted, pending, built, offered, consignments, fills,
                 arrived, HandlerVars>>

\* Slip: the broadcast is taken to have worked whatever the server answered.
RefusalIgnored(c) ==
  /\ At(c, "broadcast")
  /\ Goto(c, "markPending")
  /\ OnlyCallsChange

\* The server refuses the transaction or cannot be reached.
BroadcastRefused(c) ==
  /\ At(c, "broadcast")
  /\ Goto(c, "releaseAndDrop")
  /\ OnlyCallsChange

Fault(kind) ==
  /\ kind \in FaultKinds
  /\ faults < MaxFaults
  /\ faults' = faults + 1

\* The server took the transaction but its answer was lost: an error all the same.
BroadcastReplyLost(c) ==
  /\ Fault("lostReply")
  /\ At(c, "broadcast")
  /\ Relayable(calls[c].tx)
  /\ chain' = [chain EXCEPT ![calls[c].tx] = "mempool"]
  /\ Goto(c, "releaseAndDrop")
  /\ UNCHANGED <<utxos, quoted, pending, built, offered, consignments, fills,
                 arrived, stale, cleaning>>

\* Slip: the error of the mark is logged and the handler goes on.
MarkPendingUnchecked(c) ==
  /\ At(c, "markPending")
  /\ utxos' = MarkPendingConfirm(utxos, Quote(c), calls[c].tx)
  /\ Goto(c, "saveConsignment")
  /\ UNCHANGED <<quoted, pending, built, offered, chain, consignments, fills,
                 arrived, HandlerVars>>

\* mark_pending_bitcoin_confirm; if the reservation is gone the error returns
\* and the pending entry stays.
MarkPending(c) ==
  /\ At(c, "markPending")
  /\ utxos' = MarkPendingConfirm(utxos, Quote(c), calls[c].tx)
  /\ IF Live(Quote(c)) THEN Goto(c, "saveConsignment") ELSE Return(c)
  /\ UNCHANGED <<quoted, pending, built, offered, chain, consignments, fills,
                 arrived, HandlerVars>>

\* The consignment of the cloned entry, filed under the transaction broadcast.
SaveConsignment(c) ==
  /\ At(c, "saveConsignment")
  /\ consignments' = [consignments EXCEPT ![Quote(c)] =
                        [anchor |-> calls[c].entry, witness |-> calls[c].tx]]
  /\ Goto(c, "recordFill")
  /\ UNCHANGED <<utxos, quoted, pending, built, offered, chain, fills, arrived,
                 HandlerVars>>

RecordFill(c) ==
  /\ At(c, "recordFill")
  /\ fills' = [fills EXCEPT ![Quote(c)] = calls[c].tx]
  /\ Goto(c, "finish")
  /\ UNCHANGED <<utxos, quoted, pending, built, offered, chain, consignments,
                 arrived, HandlerVars>>

\* The pending entry is removed and the call returns: the end of a settlement,
\* and of an error path that drops the entry.
DropEntry(c) ==
  /\ At(c, "finish") \/ At(c, "drop")
  /\ pending' = [pending EXCEPT ![Quote(c)] = NoPending]
  /\ Return(c)
  /\ UNCHANGED <<utxos, quoted, built, offered, chain, consignments, fills,
                 arrived, HandlerVars>>

\* release_reservation, or mark_broadcast_failed, which is the same; their
\* errors are ignored.
GiveBack(c) ==
  /\ utxos' = ReleaseReservation(utxos, Quote(c))
  /\ \/ At(c, "release") /\ Return(c)
     \/ At(c, "releaseAndDrop") /\ Goto(c, "drop")
  /\ UNCHANGED <<quoted, pending, built, offered, chain, consignments, fills,
                 arrived, HandlerVars>>

-----------------------------------------------------------------------------
(***************************************************************************)
(* The cleanup loop (release_expired_reservations of the Maker) and the    *)
(* confirmation sweep of the chain observer                                *)
(***************************************************************************)

\* Slip: only prunes the pending map.
CleanupWithoutRelease ==
  /\ cleaning = "idle"
  /\ cleaning' = "scan"
  /\ UNCHANGED <<utxos, quoted, pending, built, offered, chain, consignments,
                 fills, calls, stale, arrived, faults>>

CleanupRelease ==
  /\ cleaning = "idle"
  /\ cleaning' = "scan"
  /\ utxos' = ReleaseExpired(utxos, Outpoints)
  /\ UNCHANGED <<quoted, pending, built, offered, chain, consignments, fills,
                 calls, stale, arrived, faults>>

\* Slip: each reservation is looked up in the other side's store, where it never is.
ScanWrongStore ==
  /\ cleaning = "scan"
  /\ cleaning' = "prune"
  /\ stale' = {q \in Quotes : pending[q] # NoPending}
  /\ UNCHANGED <<utxos, quoted, pending, built, offered, chain, consignments,
                 fills, calls, arrived, faults>>

\* Slip: only collects the quotes whose inventory went back to the pool.
ScanReleasedOnly ==
  /\ cleaning = "scan"
  /\ cleaning' = "prune"
  /\ stale' = {q \in Quotes : pending[q] # NoPending /\ NamedBy(utxos, q) = {}
                              /\ \A o \in Outpoints : utxos[o] = Available}
  /\ UNCHANGED <<utxos, quoted, pending, built, offered, chain, consignments,
                 fills, calls, arrived, faults>>

\* The entries whose reservation is not live are collected ...
CleanupScan ==
  /\ cleaning = "scan"
  /\ cleaning' = "prune"
  /\ stale' = {q \in Quotes : pending[q] # NoPending /\ ~Live(q)}
  /\ UNCHANGED <<utxos, quoted, pending, built, offered, chain, consignments,
                 fills, calls, arrived, faults>>

\* ... and removed under a later lock, whatever they are by then.
CleanupPrune ==
  /\ cleaning = "prune"
  /\ cleaning' = "idle"
  /\ stale' = {}
  /\ pending' = [q \in Quotes |-> IF q \in stale THEN NoPending ELSE pending[q]]
  /\ UNCHANGED <<utxos, quoted, built, offered, chain, consignments, fills,
                 calls, arrived, faults>>

\* tx_confirmed: the server knows the transaction, mined or not.
TxConfirmed(t) == chain[t] \in {"mempool", "mined"}

\* Slip: asks find_reservation_for_quote, which only matches Reserved.
SweepLive(q) ==
  /\ Live(q)
  /\ \E o \in ConfirmingFor(utxos, q) :
       /\ TxConfirmed(utxos[o].tx)
       /\ utxos' = MarkSpent(utxos, q, utxos[o].tx)
  /\ UNCHANGED <<quoted, pending, built, offered, chain, consignments, fills,
                 calls, stale, cleaning, arrived, faults>>

\* sweep_confirmations for one reservation waiting for its witness.
Sweep(q) ==
  /\ \E o \in ConfirmingFor(utxos, q) :
       /\ TxConfirmed(utxos[o].tx)
       /\ utxos' = MarkSpent(utxos, q, utxos[o].tx)
  /\ UNCHANGED <<quoted, pending, built, offered, chain, consignments, fills,
                 calls, stale, cleaning, arrived, faults>>

-----------------------------------------------------------------------------
(***************************************************************************)
(* Time, the network and failures                                          *)
(***************************************************************************)

\* Time passes for every deadline, those not yet in the store included.
Tick ==
  /\ utxos' = Elapse(utxos)
  /\ calls' = [c \in Calls |->
                 [calls[c] EXCEPT !.left = IF @ > 0 THEN @ - 1 ELSE 0]]
  /\ UNCHANGED <<quoted, pending, built, offered, chain, consignments, fills,
                 stale, cleaning, arrived, faults>>

Mine(t) ==
  /\ chain[t] = "mempool"
  /\ chain' = [chain EXCEPT ![t] = "mined"]
  /\ UNCHANGED <<utxos, quoted, pending, built, offered, consignments, fills,
                 calls, stale, cleaning, arrived, faults>>

\* The mempool drops an unconfirmed transaction.
Evict(t) ==
  /\ Fault("evict")
  /\ chain[t] = "mempool"
  /\ chain' = [chain EXCEPT ![t] = "evicted"]
  /\ UNCHANGED <<utxos, quoted, pending, built, offered, consignments, fills,
                 calls, stale, cleaning, arrived>>

\* The client hangs up and the server drops the handler at an await.
DropCall(c) ==
  /\ Fault("drop")
  /\ ~At(c, "idle")
  /\ Return(c)
  /\ UNCHANGED <<utxos, quoted, pending, built, offered, chain, consignments,
                 fills, stale, cleaning, arrived>>

\* The daemon restarts: what is not in a store is gone.
Crash ==
  /\ Fault("crash")
  /\ pending' = [q \in Quotes |-> NoPending]
  /\ calls' = [c \in Calls |-> Idle]
  /\ stale' = {}
  /\ cleaning' = "idle"
  /\ UNCHANGED <<utxos, quoted, built, offered, chain, consignments, fills,
                 arrived>>

-----------------------------------------------------------------------------
(***************************************************************************)
(* Specification                                                           *)
(***************************************************************************)

Request(c, q) ==
  \/ RequestQuote(c, q)
  \/ AcceptQuote(c, q)
  \/ DeliverConsignment(c, q)
  \/ SubmitSignedPsbt(c, q)

QuoteStep(c) ==
  SelectCoins(c) \/ DeclineQuote(c) \/ ReserveCoins(c) \/ ReserveContended(c)

AcceptStep(c) ==
  \/ FindForAccept(c) \/ ListForAccept(c) \/ BuildBuyPsbt(c)
  \/ AcceptFails(c) \/ ExtendForAccept(c) \/ ParkPending(c)

DeliverStep(c) ==
  \/ ReadForDeliver(c) \/ FindForDeliver(c) \/ DeliverFails(c)
  \/ ListForDeliver(c) \/ PlanChangeRungs(c) \/ BuildSellPsbt(c)
  \/ ExtendForDeliver(c) \/ RecordPsbt(c)

SignStep(c) ==
  \/ ReadForSign(c) \/ FindForSign(c) \/ Finalize(c) \/ FinalizeFails(c)
  \/ BroadcastAccepted(c) \/ BroadcastRefused(c) \/ BroadcastReplyLost(c)
  \/ MarkPending(c) \/ SaveConsignment(c) \/ RecordFill(c)

\* A call runs on.
Proceed(c) ==
  \/ QuoteStep(c) \/ AcceptStep(c) \/ DeliverStep(c) \/ SignStep(c)
  \/ DropEntry(c) \/ GiveBack(c)

Cleanup == CleanupRelease \/ CleanupScan \/ CleanupPrune

Next ==
  \/ \E c \in Calls, q \in Quotes : Request(c, q)
  \/ \E c \in Calls : Proceed(c) \/ DropCall(c)
  \/ Cleanup
  \/ \E q \in Quotes : Sweep(q)
  \/ \E t \in Txids : Mine(t) \/ Evict(t)
  \/ Tick
  \/ Crash

Spec == Init /\ [][Next]_vars

\* The runtime polls every task that can run, both loops go round for ever and
\* time passes.  Nothing obliges a taker to send a request, nor a miner to mine.
Fairness ==
  /\ \A c \in Calls : WF_vars(Proceed(c))
  /\ WF_vars(Cleanup)
  /\ \A q \in Quotes : WF_vars(Sweep(q))
  /\ WF_vars(Tick)

FairSpec == Spec /\ Fairness

-----------------------------------------------------------------------------
(***************************************************************************)
(* Safety                                                                  *)
(***************************************************************************)

\* No outpoint is written off for a transaction the network never saw, or for
\* one that does not spend it: what the maker counts as gone really went.
WrittenOffBySpender ==
  \A o \in Outpoints :
    utxos[o].st \in {"PendingBitcoinConfirm", "Spent"} =>
      /\ chain[utxos[o].tx] # "unseen"
      /\ o \in built[utxos[o].tx].ins

\* A PSBT in a taker's hands spends something of the maker's, and as long as its
\* quote's reservation lives it spends exactly the outpoints reserved: the rows
\* listed after the reservation was found are still those it is extended over.
OfferedSpendsReservation ==
  \A t \in offered :
    /\ built[t].ins # {}
    /\ Live(built[t].quote) => built[t].ins = HeldFor(utxos, built[t].quote)

\* A fill is recorded only for a swap whose every input is committed to the very
\* transaction the fill names, so no two fills ever count the same inventory.
FillOwnsInputs ==
  \A q \in Quotes :
    fills[q] # NoTx =>
      /\ built[fills[q]].quote = q
      /\ \A o \in built[fills[q]].ins :
           utxos[o] \in {PendingConfirm(q, fills[q]), Spent(fills[q])}

\* Of the /sign calls that race for one quote, with the same PSBT or with two
\* from a repeated accept, one alone gets to record: its fill and its consignment
\* are never replaced.
RecordedOnce ==
  [][\A q \in Quotes :
       /\ fills[q] # NoTx => fills'[q] = fills[q]
       /\ fills[q] # NoTx => consignments'[q] = consignments[q]]_vars

\* A sell files its consignment under the transaction it is anchored to, however
\* often the quote was accepted again and its PSBT rebuilt.
SellConsignmentAnchored ==
  \A q \in Quotes \ BuyQuotes :
    consignments[q].anchor = consignments[q].witness

\* Unless the daemon restarts, a taker holding a PSBT whose reservation lives
\* finds its pending entry: neither the cleanup loop nor an error path of another
\* call drops the entry of a live reservation.
OfferFindsEntry ==
  \A t \in offered :
    Live(built[t].quote) => pending[built[t].quote] # NoPending

-----------------------------------------------------------------------------
(***************************************************************************)
(* Refinement of the swap lifecycle                                        *)
(***************************************************************************)

\* The outpoints spent for a quote: the quote id is gone from the status, the
\* transaction leads back to it.
SpentFor(q) ==
  {o \in Outpoints : utxos[o].st = "Spent" /\ built[utxos[o].tx].quote = q}

Stage(q) ==
  IF quoted[q] # "reserved" THEN "unquoted"
  ELSE IF Live(q) THEN "held"
  ELSE IF ConfirmingFor(utxos, q) # {} THEN "committed"
  ELSE IF SpentFor(q) # {} THEN "settled" ELSE "released"

Backing(q) == HeldFor(utxos, q) \cup ConfirmingFor(utxos, q) \cup SpentFor(q)

Swap == INSTANCE SwapLifecycle WITH
          stage <- [q \in Quotes |-> Stage(q)],
          backing <- [q \in Quotes |-> Backing(q)]

\* Whatever the interleaving and the faults, each quote goes through the swap
\* lifecycle, over outpoints that back no other quote.
ImplementsSwapLifecycle == Swap!SwapSpec

-----------------------------------------------------------------------------
(***************************************************************************)
(* Liveness                                                                *)
(***************************************************************************)

\* No reservation holds inventory for ever: it is settled, released or expires,
\* whatever became of the taker and of the handlers.  Requests are finitely many
\* here; each repeated accept or delivery does stretch a live reservation.
ReservationResolves == \A q \in Quotes : Live(q) ~> ~Live(q)

\* No pending entry outlives its swap for ever, not even one that a dropped
\* handler or a failed mark left behind, or that was parked too late.
EntriesArePruned ==
  \A q \in Quotes : pending[q] # NoPending ~> pending[q] = NoPending

\* Inventory committed to a transaction the network keeps is counted as spent in
\* the end, although nothing but the sweep looks at it again.
CommitmentsSettle ==
  \A q \in Quotes :
    ConfirmingFor(utxos, q) # {} ~> ConfirmingFor(utxos, q) = {}
=============================================================================
