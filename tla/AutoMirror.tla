------------------------------ MODULE AutoMirror ------------------------------
(***************************************************************************)
(* The maker's standing orders and its auto-mirror strategy: the loop that *)
(* turns settled fills into opposite-side orders (spawn_strategy_loop in   *)
(* services/maker-node/src/lib.rs), the loop that reloads the price policy *)
(* (spawn_order_reload_loop), and the `order` CLI, a process of its own    *)
(* that writes the same table.                                             *)
(*                                                                         *)
(* One asset: orders and fills of different assets do not meet.  An order  *)
(* is its size and whether it mirrors; prices are left out.                *)
(* Each action is the code between two awaits on the stores.               *)
(***************************************************************************)
EXTENDS Integers

CONSTANTS
  Fills,       \* bound: swaps that settle, by quote id
  NoFill,
  OrderSize,   \* the size an operator gives an order
  MaxWrites,   \* bound: orders the operator creates or cancels
  MaxFaults    \* bound: failed store calls, and crashes or aborts of the loops

ASSUME MirrorAssumption ==
  /\ NoFill \notin Fills
  /\ {OrderSize, MaxWrites, MaxFaults} \subseteq Nat

VARIABLES
  orders,    \* the orders table: at most one order per side
  fills,     \* the fills table
  policy,    \* the maker's price policy, as the orders it was built from
  strategy,  \* the strategy loop: the fills to do, the one it is at, what it read
  reload,    \* the reload loop, with the orders it listed
  added,     \* history: how often each fill has been added to an order
  skipped,   \* history: fills the strategy decided not to mirror
  writes,
  faults

vars == <<orders, fills, policy, strategy, reload, added, skipped, writes, faults>>

tables == <<orders, fills>>
history == <<added, skipped>>
counters == <<writes, faults>>

Sides == {"buy", "sell"}

Opposite(s) == IF s = "buy" THEN "sell" ELSE "buy"

None == [mirror |-> FALSE, size |-> -1]

Orders == [Sides -> {None} \cup [mirror : BOOLEAN, size : Nat]]

NoOrders == [s \in Sides |-> None]

Unsettled == [side |-> "buy", amount |-> -1, mirrored |-> FALSE]

Resting == [pc |-> "rest", todo |-> {}, at |-> NoFill, base |-> 0, placed |-> FALSE,
            seen |-> NoOrders]

TypeOK ==
  /\ orders \in Orders
  /\ fills \in [Fills -> {Unsettled} \cup
                         [side : Sides, amount : {0, 1}, mirrored : BOOLEAN]]
  /\ policy \in Orders
  /\ strategy \in [pc : {"rest", "stopped", "next", "source", "opposite", "upsert",
                         "mark", "list", "store"},
                   todo : SUBSET Fills, at : Fills \cup {NoFill}, base : Nat,
                   placed : BOOLEAN, seen : Orders]
  /\ reload \in [pc : {"rest", "store"}, seen : Orders]
  /\ added \in [Fills -> Nat]
  /\ skipped \subseteq Fills
  /\ writes \in 0..MaxWrites /\ faults \in 0..MaxFaults

Init ==
  /\ orders = NoOrders
  /\ fills = [f \in Fills |-> Unsettled]
  /\ policy = NoOrders
  /\ strategy = Resting
  /\ reload = [pc |-> "rest", seen |-> NoOrders]
  /\ added = [f \in Fills |-> 0]
  /\ skipped = {}
  /\ writes = 0
  /\ faults = 0

Fault == faults < MaxFaults /\ faults' = faults + 1

-----------------------------------------------------------------------------
(***************************************************************************)
(* The operator and the settlements                                        *)
(***************************************************************************)

Write == writes < MaxWrites /\ writes' = writes + 1

\* The orders table has one row for a side of an asset.
Put(s, order) == orders' = [orders EXCEPT ![s] = order]

\* order create: replaces what the side had, mirroring or pinned.
OrderCreate(s) ==
  /\ Write
  /\ \E mirror \in BOOLEAN : Put(s, [mirror |-> mirror, size |-> OrderSize])
  /\ UNCHANGED <<fills, policy, strategy, reload, history, faults>>

\* order cancel.
OrderCancel(s) ==
  /\ orders[s] # None
  /\ Write
  /\ Put(s, None)
  /\ UNCHANGED <<fills, policy, strategy, reload, history, faults>>

\* order clear.
OrderClear ==
  /\ orders # NoOrders
  /\ Write
  /\ orders' = NoOrders
  /\ UNCHANGED <<fills, policy, strategy, reload, history, faults>>

\* A settlement records its fill, once (RecordedOnce of Maker.tla).
RecordFill(f) ==
  /\ fills[f] = Unsettled
  /\ \E s \in Sides, amount \in {0, 1} :
       fills' = [fills EXCEPT ![f] = [side |-> s, amount |-> amount,
                                      mirrored |-> FALSE]]
  /\ UNCHANGED <<orders, policy, strategy, reload, history, counters>>

-----------------------------------------------------------------------------
(***************************************************************************)
(* spawn_strategy_loop                                                     *)
(***************************************************************************)

At == fills[strategy.at]

Goto(pc) == strategy' = [strategy EXCEPT !.pc = pc]

Unmirrored == {f \in Fills : fills[f] # Unsettled /\ ~fills[f].mirrored}

\* Slip: lists every fill.
ListAllFills ==
  /\ strategy.pc = "rest"
  /\ \E f \in Fills : fills[f] # Unsettled
  /\ strategy' = [Resting EXCEPT !.pc = "next",
                                 !.todo = {f \in Fills : fills[f] # Unsettled}]
  /\ UNCHANGED <<tables, policy, reload, history, counters>>

\* Slip: with nothing to do, the loop ends.
StopWhenIdle ==
  /\ strategy.pc = "rest"
  /\ strategy' = IF Unmirrored = {} THEN [Resting EXCEPT !.pc = "stopped"]
                 ELSE [Resting EXCEPT !.pc = "next", !.todo = Unmirrored]
  /\ UNCHANGED <<tables, policy, reload, history, counters>>

\* A tick: the fills not yet mirrored (a failed listing is an empty one).
ListUnmirrored ==
  /\ strategy.pc = "rest"
  /\ Unmirrored # {}
  /\ strategy' = [Resting EXCEPT !.pc = "next", !.todo = Unmirrored]
  /\ UNCHANGED <<tables, policy, reload, history, counters>>

NextFill ==
  /\ strategy.pc = "next"
  /\ \E f \in strategy.todo :
       strategy' = [strategy EXCEPT !.pc = "source", !.at = f, !.todo = @ \ {f}]
  /\ UNCHANGED <<tables, policy, reload, history, counters>>

Skip ==
  /\ skipped' = skipped \cup {strategy.at}
  /\ Goto("mark")

\* The order that produced the fill is gone or does not mirror, or the fill is of
\* nothing: there is nothing to mirror.
SkipAtSource ==
  /\ strategy.pc = "source"
  /\ ~orders[At.side].mirror \/ At.amount = 0
  /\ Skip
  /\ UNCHANGED <<tables, policy, reload, added, counters>>

ReadSource ==
  /\ strategy.pc = "source"
  /\ orders[At.side].mirror /\ At.amount # 0
  /\ Goto("opposite")
  /\ UNCHANGED <<tables, policy, reload, history, counters>>

Opp == Opposite(At.side)

\* An opposite order set by hand is left alone.
SkipPinned ==
  /\ strategy.pc = "opposite"
  /\ orders[Opp] # None /\ ~orders[Opp].mirror
  /\ Skip
  /\ UNCHANGED <<tables, policy, reload, added, counters>>

ReadOpposite ==
  /\ strategy.pc = "opposite"
  /\ orders[Opp] = None \/ orders[Opp].mirror
  /\ strategy' = [strategy EXCEPT
       !.pc = "upsert", !.base = IF orders[Opp] = None THEN 0 ELSE orders[Opp].size]
  /\ UNCHANGED <<tables, policy, reload, history, counters>>

\* The mirror order: the size read before, and the fill's.
Upsert ==
  /\ strategy.pc = "upsert"
  /\ Put(Opp, [mirror |-> TRUE, size |-> strategy.base + At.amount])
  /\ added' = [added EXCEPT ![strategy.at] = @ + 1]
  /\ strategy' = [strategy EXCEPT !.pc = "mark", !.placed = TRUE]
  /\ UNCHANGED <<fills, policy, reload, skipped, counters>>

\* Slip: a failed upsert marks the fill all the same.
FailThenMark ==
  /\ strategy.pc \in {"source", "opposite", "upsert", "mark"}
  /\ Fault
  /\ Goto(IF strategy.pc = "upsert" THEN "mark" ELSE "next")
  /\ UNCHANGED <<tables, policy, reload, history, writes>>

\* A lookup, the upsert or the mark fails: on to the next fill, this one as it was.
StoreFails ==
  /\ strategy.pc \in {"source", "opposite", "upsert", "mark"}
  /\ Fault
  /\ Goto("next")
  /\ UNCHANGED <<tables, policy, reload, history, writes>>

MarkMirrored ==
  /\ strategy.pc = "mark"
  /\ fills' = [fills EXCEPT ![strategy.at].mirrored = TRUE]
  /\ Goto("next")
  /\ UNCHANGED <<orders, policy, reload, history, counters>>

\* The listing is done: if a mirror was placed, the policy is reloaded at once.
EndPass ==
  /\ strategy.pc = "next"
  /\ strategy.todo = {}
  /\ strategy' = IF strategy.placed THEN [Resting EXCEPT !.pc = "list"] ELSE Resting
  /\ UNCHANGED <<tables, policy, reload, history, counters>>

ListForPolicy ==
  /\ strategy.pc = "list"
  /\ strategy' = [Resting EXCEPT !.pc = "store", !.seen = orders]
  /\ UNCHANGED <<tables, policy, reload, history, counters>>

ListForPolicyFails ==
  /\ strategy.pc = "list"
  /\ Fault
  /\ strategy' = Resting
  /\ UNCHANGED <<tables, policy, reload, history, writes>>

StorePolicy ==
  /\ strategy.pc = "store"
  /\ policy' = strategy.seen
  /\ strategy' = Resting
  /\ UNCHANGED <<tables, reload, history, counters>>

-----------------------------------------------------------------------------
(***************************************************************************)
(* spawn_order_reload_loop, and the process                                *)
(***************************************************************************)

\* A tick.  A failed listing leaves the loop where it was.
ReloadList ==
  /\ reload.pc = "rest"
  /\ reload' = [pc |-> "store", seen |-> orders]
  /\ UNCHANGED <<tables, policy, strategy, history, counters>>

Sizes(book) == {s \in Sides : book[s] # None}

\* Slip: only a change in the number of orders counts.
ReloadOnNewCount ==
  /\ reload.pc = "store"
  /\ policy' = IF Sizes(policy) = Sizes(reload.seen) THEN policy ELSE reload.seen
  /\ reload' = [pc |-> "rest", seen |-> NoOrders]
  /\ UNCHANGED <<tables, strategy, history, counters>>

ReloadPolicy ==
  /\ reload.pc = "store"
  /\ policy' = reload.seen
  /\ reload' = [pc |-> "rest", seen |-> NoOrders]
  /\ UNCHANGED <<tables, strategy, history, counters>>

\* The process dies, or is stopped: its tasks are aborted where they are.  It comes
\* back with the policy of the orders in the table.
Restart ==
  /\ Fault
  /\ strategy' = Resting
  /\ reload' = [pc |-> "rest", seen |-> NoOrders]
  /\ policy' = orders
  /\ UNCHANGED <<tables, history, writes>>

-----------------------------------------------------------------------------
(***************************************************************************)
(* Specification                                                           *)
(***************************************************************************)

StrategyLoop ==
  \/ ListUnmirrored \/ NextFill \/ SkipAtSource \/ ReadSource \/ SkipPinned
  \/ ReadOpposite \/ Upsert \/ MarkMirrored \/ EndPass \/ ListForPolicy \/ StorePolicy

ReloadLoop == ReloadList \/ ReloadPolicy

Next ==
  \/ \E s \in Sides : OrderCreate(s) \/ OrderCancel(s)
  \/ OrderClear
  \/ \E f \in Fills : RecordFill(f)
  \/ StrategyLoop
  \/ StoreFails
  \/ ListForPolicyFails
  \/ ReloadLoop
  \/ Restart

Spec == Init /\ [][Next]_vars

\* Both loops are polled and their intervals tick.
FairSpec == Spec /\ WF_vars(StrategyLoop) /\ WF_vars(ReloadLoop)

-----------------------------------------------------------------------------
(***************************************************************************)
(* Properties                                                              *)
(***************************************************************************)

\* A fill is not lost: it is marked mirrored only once it has been added to an
\* order or the strategy decided to leave it, wherever the loop failed or died.
MarkedMeansHandled ==
  \A f \in Fills : fills[f].mirrored => added[f] > 0 \/ f \in skipped

\* A fill is added once, and once more for each failure at most.
AddedOncePerFault == \A f \in Fills : added[f] <= 1 + faults

\* Every fill is dealt with in the end.
FillsAreHandled ==
  \A f \in Fills : fills[f] # Unsettled ~> fills[f].mirrored

\* The policy the maker quotes from catches up with the orders once nobody writes
\* them, although both loops store listings that may be older than the policy.
PolicyFollowsOrders == <>[](policy = orders)
===============================================================================
