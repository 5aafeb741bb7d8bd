------------------------------ MODULE Inventory ------------------------------
(***************************************************************************)
(* The maker's inventory as data: one status per tracked outpoint, and the *)
(* operations of the InventoryStore trait as functions from an inventory   *)
(* to an inventory (crates/rfq-store/src/lib.rs).  BtcInventoryStore       *)
(* (crates/rfq-store/src/btc.rs) is the same store without the             *)
(* PendingRgbAcceptance status, so one set of operators serves both pools. *)
(*                                                                         *)
(* Two abstractions of the data.  A reservation id is a fresh UUID drawn   *)
(* for one quote id, and no caller reserves twice for a quote, so the      *)
(* quote stands for its reservation.  A deadline expires_at_ms is kept as  *)
(* the time left until it, which passing time counts down to zero, so      *)
(* expires_at_ms <= now_ms reads left = 0.                                 *)
(***************************************************************************)
EXTENDS Integers

CONSTANTS Outpoints,  \* the outpoints the maker's wallet can ever hold
          Quotes,     \* quote ids, each with the reservation made for it
          Txids       \* witness txids

-----------------------------------------------------------------------------
(***************************************************************************)
(* Statuses                                                                *)
(***************************************************************************)

\* No row for the outpoint.
Absent == [st |-> "Absent"]

Available == [st |-> "Available"]

Reserved(q, n) == [st |-> "Reserved", quote |-> q, left |-> n]

PendingConfirm(q, t) ==
  [st |-> "PendingBitcoinConfirm", quote |-> q, tx |-> t]

PendingAcceptance(q, t) ==
  [st |-> "PendingRgbAcceptance", quote |-> q, tx |-> t]

\* The quote id is not kept: mark_spent writes a placeholder for it.
Spent(t) == [st |-> "Spent", tx |-> t]

Invalid == [st |-> "Invalid"]

Status ==
  {Absent, Available, Invalid}
    \cup [st : {"Reserved"}, quote : Quotes, left : Nat]
    \cup [st : {"PendingBitcoinConfirm", "PendingRgbAcceptance"},
          quote : Quotes, tx : Txids]
    \cup [st : {"Spent"}, tx : Txids]

Inventories == [Outpoints -> Status]

-----------------------------------------------------------------------------
(***************************************************************************)
(* Reads                                                                   *)
(***************************************************************************)

\* The statuses that still name the reservation they came from.
NamesReservation(s) ==
  s.st \in {"Reserved", "PendingBitcoinConfirm", "PendingRgbAcceptance"}

\* Slip: matches the reservation id in any status that carries one.
HeldForAnyStatus(inv, q) ==
  {o \in Outpoints : NamesReservation(inv[o]) /\ inv[o].quote = q}

\* The outpoints a quote's live reservation holds; find_reservation_for_quote
\* answers Some exactly when the set is not empty.
HeldFor(inv, q) ==
  {o \in Outpoints : inv[o].st = "Reserved" /\ inv[o].quote = q}

ListAvailable(inv) == {o \in Outpoints : inv[o] = Available}

-----------------------------------------------------------------------------
(***************************************************************************)
(* Mutations                                                               *)
(***************************************************************************)

\* A step that rewrites the outpoints of S and leaves the rest alone.
Rewrite(inv, S, NewStatus(_)) ==
  [o \in Outpoints |-> IF o \in S THEN NewStatus(o) ELSE inv[o]]

\* Slip: the first pass only refuses outpoints that are already spent for.
CanReserveUncommitted(inv, S) ==
  \A o \in S : inv[o].st \in {"Available", "Reserved"}

\* First pass of reserve_utxos: every outpoint must be Available.
CanReserve(inv, S) == \A o \in S : inv[o] = Available

\* Second pass: all of them go under the fresh reservation.
ReserveUtxos(inv, S, q, ttl) == Rewrite(inv, S, LAMBDA o : Reserved(q, ttl))

ReleaseReservation(inv, q) ==
  Rewrite(inv, HeldFor(inv, q), LAMBDA o : Available)

ReleaseExpired(inv, pool) ==
  Rewrite(inv,
          {o \in pool : inv[o].st = "Reserved" /\ inv[o].left = 0},
          LAMBDA o : Available)

\* Slip: returns after the first row that matches.
ExtendFirstRow(inv, q, ttl) ==
  IF HeldFor(inv, q) = {} THEN inv
  ELSE Rewrite(inv, {CHOOSE o \in HeldFor(inv, q) : TRUE},
               LAMBDA o : Reserved(q, ttl))

ExtendReservation(inv, q, ttl) ==
  Rewrite(inv, HeldFor(inv, q), LAMBDA o : Reserved(q, ttl))

MarkPendingConfirm(inv, q, t) ==
  Rewrite(inv, HeldFor(inv, q), LAMBDA o : PendingConfirm(q, t))

\* The outpoints mark_pending_rgb_acceptance moves.
ConfirmingFor(inv, q) ==
  {o \in Outpoints : inv[o].st = "PendingBitcoinConfirm" /\ inv[o].quote = q}

MarkPendingAcceptance(inv, q) ==
  Rewrite(inv, ConfirmingFor(inv, q),
          LAMBDA o : PendingAcceptance(q, inv[o].tx))

\* The outpoints mark_rgb_acceptance_failed moves.
AcceptingFor(inv, q) ==
  {o \in Outpoints : inv[o].st = "PendingRgbAcceptance" /\ inv[o].quote = q}

MarkAcceptanceFailed(inv, q) ==
  Rewrite(inv, AcceptingFor(inv, q), LAMBDA o : Invalid)

\* mark_spent takes every outpoint that still names the reservation.
NamedBy(inv, q) ==
  {o \in Outpoints : NamesReservation(inv[o]) /\ inv[o].quote = q}

\* The early return of mark_spent: nothing names the reservation and nothing
\* is already spent by this transaction.
CanMarkSpent(inv, q, t) ==
  \/ NamedBy(inv, q) # {}
  \/ \E o \in Outpoints : inv[o] = Spent(t)

MarkSpent(inv, q, t) == Rewrite(inv, NamedBy(inv, q), LAMBDA o : Spent(t))

\* A witness transaction dropped from the chain frees what was spent into it
\* and condemns what was still waiting for it.
MarkReorged(inv, t) ==
  [o \in Outpoints |->
     IF inv[o] = Spent(t) THEN Available
     ELSE IF /\ inv[o].st \in {"PendingBitcoinConfirm", "PendingRgbAcceptance"}
             /\ inv[o].tx = t
          THEN Invalid
          ELSE inv[o]]

MarkInvalid(inv, o) == [inv EXCEPT ![o] = Invalid]

IngestChange(inv, o) == [inv EXCEPT ![o] = Available]

\* replace_for_asset drops the rows of the asset's outpoints and inserts the
\* chain's view S of them, each entry Available.  Another asset's rows stay.
ReplaceForAsset(inv, rows, S) ==
  Rewrite(inv, rows \cup S, LAMBDA o : IF o \in S THEN Available ELSE Absent)

\* Time passing: every live deadline comes one unit closer.
Elapse(inv) ==
  [o \in Outpoints |->
     IF inv[o].st = "Reserved" /\ inv[o].left > 0
     THEN [inv[o] EXCEPT !.left = @ - 1]
     ELSE inv[o]]

-----------------------------------------------------------------------------
(***************************************************************************)
(* What a well-formed inventory looks like                                 *)
(***************************************************************************)

\* The outpoints that name one reservation have one status: they were reserved
\* together, and the store moves all of them or none.
ReservationsMoveTogether(inv) ==
  \A o, p \in Outpoints :
    /\ NamesReservation(inv[o])
    /\ NamesReservation(inv[p])
    /\ inv[o].quote = inv[p].quote
    => inv[o] = inv[p]
=============================================================================
