------------------------ MODULE InventoryStore_proofs ------------------------
(***************************************************************************)
(* The durable inventory store keeps its invariants for every number of    *)
(* outpoints, quotes, callers, mutations and faults.                       *)
(***************************************************************************)
EXTENDS InventoryStore, TLAPS

USE DEF Inventories, Status, NamesReservation, Absent, Available, Invalid,
        Reserved, PendingConfirm, PendingAcceptance, Spent

-----------------------------------------------------------------------------
(***************************************************************************)
(* The operators of Inventory                                              *)
(***************************************************************************)

\* What every mutation of the store does to an inventory whose reservations are
\* whole: the result is an inventory, its reservations are whole, and it names
\* only quotes it named before and those of Q.
Sound(inv, new, Q) ==
  /\ new \in Inventories
  /\ ReservationsMoveTogether(new)
  /\ \A o \in Outpoints :
       NamesReservation(new[o]) =>
         \/ new[o].quote \in Q
         \/ \E p \in Outpoints :
              NamesReservation(inv[p]) /\ inv[p].quote = new[o].quote

\* Reserving under a quote no row names yet keeps reservations whole: the two
\* passes of reserve_utxos.
LEMMA ReserveSound ==
  ASSUME NEW inv \in Inventories, ReservationsMoveTogether(inv),
         NEW S \in SUBSET Outpoints, NEW q \in Quotes, NEW n \in Nat,
         \A o \in Outpoints : NamesReservation(inv[o]) => inv[o].quote # q
  PROVE  Sound(inv, ReserveUtxos(inv, S, q, n), {q})
BY DEF Sound, ReserveUtxos, Rewrite, ReservationsMoveTogether

\* release_reservation and release_expired_reservations free whole reservations.
LEMMA ReleaseSound ==
  ASSUME NEW inv \in Inventories, ReservationsMoveTogether(inv),
         NEW q \in Quotes
  PROVE  /\ Sound(inv, ReleaseReservation(inv, q), {})
         /\ Sound(inv, ReleaseExpired(inv, Outpoints), {})
BY DEF Sound, ReleaseReservation, ReleaseExpired, HeldFor, Rewrite,
       ReservationsMoveTogether

\* extend_reservation and mark_pending_bitcoin_confirm move every Reserved row
\* of the quote, and a whole reservation has no other row.
LEMMA HeldSound ==
  ASSUME NEW inv \in Inventories, ReservationsMoveTogether(inv),
         NEW q \in Quotes, NEW n \in Nat, NEW t \in Txids
  PROVE  /\ HeldFor(inv, q) # {} => Sound(inv, ExtendReservation(inv, q, n), {})
         /\ HeldFor(inv, q) # {} => Sound(inv, MarkPendingConfirm(inv, q, t), {})
BY DEF Sound, ExtendReservation, MarkPendingConfirm, HeldFor, Rewrite,
       ReservationsMoveTogether

\* The moves after a broadcast: to PendingRgbAcceptance, to Invalid, to Spent.
LEMMA SettleSound ==
  ASSUME NEW inv \in Inventories, ReservationsMoveTogether(inv),
         NEW q \in Quotes
  PROVE  /\ Sound(inv, MarkPendingAcceptance(inv, q), {})
         /\ Sound(inv, MarkAcceptanceFailed(inv, q), {})
         /\ \A t \in Txids : Sound(inv, MarkSpent(inv, q, t), {})
<1>1. Sound(inv, MarkPendingAcceptance(inv, q), {})
  BY DEF Sound, MarkPendingAcceptance, ConfirmingFor, Rewrite,
         ReservationsMoveTogether
<1>2. Sound(inv, MarkAcceptanceFailed(inv, q), {})
  BY DEF Sound, MarkAcceptanceFailed, AcceptingFor, Rewrite,
         ReservationsMoveTogether
<1>3. \A t \in Txids : Sound(inv, MarkSpent(inv, q, t), {})
  BY DEF Sound, MarkSpent, NamedBy, Rewrite, ReservationsMoveTogether
<1> QED BY <1>1, <1>2, <1>3

\* mark_reorged and mark_invalid take rows out of a reservation without touching
\* the agreement of the rest; the seed and an ingested row name no quote.
LEMMA UnnameSound ==
  ASSUME NEW inv \in Inventories, ReservationsMoveTogether(inv),
         NEW t \in Txids, NEW o \in Outpoints,
         NEW P \in SUBSET Outpoints, NEW S \in SUBSET Outpoints
  PROVE  /\ Sound(inv, MarkReorged(inv, t), {})
         /\ Sound(inv, MarkInvalid(inv, o), {})
         /\ Sound(inv, IngestChange(inv, o), {})
         /\ Sound(inv, ReplaceForAsset(inv, P, S), {})
<1>1. Sound(inv, MarkReorged(inv, t), {})
  BY DEF Sound, MarkReorged, ReservationsMoveTogether
<1>2. Sound(inv, MarkInvalid(inv, o), {})
  BY DEF Sound, MarkInvalid, ReservationsMoveTogether
<1>3. Sound(inv, IngestChange(inv, o), {})
  BY DEF Sound, IngestChange, ReservationsMoveTogether
<1>4. Sound(inv, ReplaceForAsset(inv, P, S), {})
  BY DEF Sound, ReplaceForAsset, Rewrite, ReservationsMoveTogether
<1> QED BY <1>1, <1>2, <1>3, <1>4

\* Time passing counts every row of a reservation down alike.
LEMMA ElapseSound ==
  ASSUME NEW inv \in Inventories, ReservationsMoveTogether(inv)
  PROVE  Sound(inv, Elapse(inv), {})
<1>1. Elapse(inv) \in Inventories
  BY DEF Elapse
<1>2. \A o \in Outpoints :
        NamesReservation(Elapse(inv)[o]) =>
          /\ NamesReservation(inv[o])
          /\ inv[o].quote = Elapse(inv)[o].quote
  BY DEF Elapse
<1>3. ASSUME NEW o \in Outpoints, NEW p \in Outpoints, inv[o] = inv[p]
      PROVE  Elapse(inv)[o] = Elapse(inv)[p]
  BY <1>3 DEF Elapse
<1> QED BY <1>1, <1>2, <1>3 DEF Sound, ReservationsMoveTogether

-----------------------------------------------------------------------------
(***************************************************************************)
(* The inductive invariant                                                 *)
(***************************************************************************)

\* Releasing what has expired in memory widens the gap to the table only by
\* reservations that are expired in the table, or were never in it.
LEMMA ExpireIsRedone ==
  ASSUME NEW old \in Inventories, NEW inv \in Inventories,
         RedoneAtStart(old, inv)
  PROVE  RedoneAtStart(old, ReleaseExpired(inv, Outpoints))
BY DEF RedoneAtStart, ReleaseExpired, Rewrite

\* Seeding an asset memory has no row of puts in only rows of an asset the table
\* has no row of either.
LEMMA SeedIsRedone ==
  ASSUME NEW old \in Inventories, NEW inv \in Inventories,
         RedoneAtStart(old, inv), NEW a \in Assets, NEW S \in SUBSET RowsOf(a),
         \A o \in RowsOf(a) : inv[o] = Absent
  PROVE  RedoneAtStart(old, ReplaceForAsset(inv, RowsOf(a), S))
<1>1. \A p \in RowsOf(a) : old[p] = Absent
  BY DEF RedoneAtStart, RowsOf
<1>2. \A o \in S : RowsOf(AssetOf[o]) = RowsOf(a)
  BY DEF RowsOf
<1> QED
  BY <1>1, <1>2 DEF RedoneAtStart, ReplaceForAsset, Rewrite, RowsOf

\* A gap of that kind stays of that kind as time passes for both copies.
LEMMA ElapseIsRedone ==
  ASSUME NEW old \in Inventories, NEW inv \in Inventories,
         RedoneAtStart(old, inv)
  PROVE  RedoneAtStart(Elapse(old), Elapse(inv))
<1>1. ASSUME NEW o \in Outpoints, inv[o] = old[o]
      PROVE  Elapse(inv)[o] = Elapse(old)[o]
  BY <1>1 DEF Elapse
<1>2. ASSUME NEW o \in Outpoints, inv[o] = Available
      PROVE  Elapse(inv)[o] = Available
  BY <1>2 DEF Elapse
<1>3. ASSUME NEW o \in Outpoints, old[o].st = "Reserved", old[o].left = 0
      PROVE  Elapse(old)[o].st = "Reserved" /\ Elapse(old)[o].left = 0
  BY <1>3 DEF Elapse
<1>4. ASSUME NEW o \in Outpoints, old[o] = Absent
      PROVE  Elapse(old)[o] = Absent
  BY <1>4 DEF Elapse
<1>5. \A o \in Outpoints : RowsOf(AssetOf[o]) \subseteq Outpoints
  BY DEF RowsOf
<1> HIDE DEF Inventories, Absent, Available
<1> QED
  BY <1>1, <1>2, <1>3, <1>4, <1>5 DEF RedoneAtStart

\* A sound inventory computed from the working copy under write_lock keeps the
\* invariant, whichever operation computed it.
LEMMA MutateKeeps ==
  ASSUME IInv, NEW c \in Callers, NEW inv, NEW Q \in SUBSET Quotes,
         Sound(mem, inv, Q), issued' = issued \cup Q,
         \/ Mutate(c, inv, FALSE)
         \/ /\ Mutate(c, inv, TRUE)
            /\ RedoneAtStart(db, mem) => RedoneAtStart(db, inv)
  PROVE  IInv'
<1> USE DEF IInv
<1>1. /\ inv \in Inventories
      /\ mem' = inv
      /\ applied' = applied + 1
      /\ \A d \in Callers : pc[d] = "idle"
  BY StoreAssumption DEF Sound, Mutate, LockHeld, TypeOK
<1>2. TypeOK'
  BY <1>1 DEF TypeOK, Mutate, PcType
<1>3. LockHeld'
  BY <1>1 DEF LockHeld, Mutate, TypeOK
<1>4. WholeAndIssued(mem)'
  BY <1>1 DEF WholeAndIssued, CopiesWhole, Sound
<1>5. CopiesWhole'
  BY <1>4 DEF CopiesWhole, WholeAndIssued, Mutate, ReservationsMoveTogether
<1>6. PersistInOrder'
  <2>1. /\ answered \in Nat /\ stored \in Nat /\ applied \in Nat
        /\ answered' = answered /\ stored' = stored
        /\ answered <= stored /\ stored <= applied
    BY DEF PersistInOrder, Mutate, TypeOK
  <2>2. /\ answered' <= stored'
        /\ stored' <= applied'
        /\ stored' # applied'
    BY <1>1, <2>1
  <2>3. ASSUME NEW d \in Callers
        PROVE  /\ pc'[d] # "idle" => mine'[d] = applied'
               /\ pc'[d] # "listed" /\ pc'[d] # "written"
    BY <1>1 DEF Mutate, TypeOK
  <2> QED BY <2>2, <2>3 DEF PersistInOrder
<1>7. SwallowsHarmless'
  <2>1. /\ \/ swallows' = {}
           \/ RedoneAtStart(db, mem) => RedoneAtStart(db, inv)
        /\ swallows' \subseteq {c}
        /\ pc' = [pc EXCEPT ![c] = "mutated"]
        /\ db' = db /\ lost' = lost /\ stored' = stored
    BY <1>1 DEF SwallowsHarmless, Mutate, TypeOK
  <2>2. lost <= stored => RedoneAtStart(db, mem)
    BY <1>1 DEF SwallowsHarmless
  <2>3. RedoneAtStart(db, mem)' <=> RedoneAtStart(db, inv)
    BY <1>1, <2>1 DEF RedoneAtStart
  <2>4. pc'[c] = "mutated"
    BY <2>1 DEF TypeOK
  <2> QED BY <2>1, <2>2, <2>3, <2>4 DEF SwallowsHarmless
<1> QED BY <1>2, <1>3, <1>5, <1>6, <1>7

\* The operations that report a failed persist and reserve nothing.
LEMMA LoudKeeps ==
  ASSUME IInv, NEW c \in Callers, NEW inv, Sound(mem, inv, {}),
         Mutate(c, inv, FALSE), UNCHANGED issued
  PROVE  IInv'
<1>1. issued' = issued \cup {} /\ {} \in SUBSET Quotes
  OBVIOUS
<1> QED BY ONLY <1>1, MutateKeeps, IInv, c \in Callers, Sound(mem, inv, {}),
                Mutate(c, inv, FALSE)

\* The operations that log it.
LEMMA QuietKeeps ==
  ASSUME IInv, NEW c \in Callers, NEW inv, Sound(mem, inv, {}),
         Mutate(c, inv, TRUE), UNCHANGED issued,
         RedoneAtStart(db, mem) => RedoneAtStart(db, inv)
  PROVE  IInv'
<1>1. issued' = issued \cup {} /\ {} \in SUBSET Quotes
  OBVIOUS
<1>2. /\ Mutate(c, inv, TRUE)
      /\ RedoneAtStart(db, mem) => RedoneAtStart(db, inv)
  OBVIOUS
<1> QED BY ONLY <1>1, <1>2, MutateKeeps, IInv, c \in Callers, Sound(mem, inv, {})

\* Each operation of the trait, through the soundness of its operator.
LEMMA OperationsKeep ==
  ASSUME IInv, NEW c \in Callers,
         \/ Seed(c) \/ Ingest(c) \/ Reserve(c) \/ Release(c) \/ Expire(c)
         \/ Extend(c) \/ MarkPending(c) \/ AwaitAcceptance(c)
         \/ FailAcceptance(c) \/ Spend(c) \/ Reorg(c) \/ Invalidate(c)
  PROVE  IInv'
<1>0. /\ mem \in Inventories
      /\ ReservationsMoveTogether(mem)
      /\ \A o \in Outpoints : NamesReservation(mem[o]) => mem[o].quote \in issued
  BY DEF IInv, TypeOK, CopiesWhole, WholeAndIssued
<1>1. CASE Seed(c)
  <2>0. PICK a \in Assets, quiet \in BOOLEAN :
          /\ \A o \in RowsOf(a) : mem[o] = Absent
          /\ \E S \in SUBSET RowsOf(a) :
               Mutate(c, ReplaceForAsset(mem, RowsOf(a), S), quiet)
          /\ UNCHANGED issued
    BY <1>1 DEF Seed
  <2>1. PICK S \in SUBSET RowsOf(a) :
          \/ Mutate(c, ReplaceForAsset(mem, RowsOf(a), S), FALSE)
          \/ Mutate(c, ReplaceForAsset(mem, RowsOf(a), S), TRUE)
    BY <2>0
  <2>2. RowsOf(a) \subseteq Outpoints
    BY DEF RowsOf
  <2>3. Sound(mem, ReplaceForAsset(mem, RowsOf(a), S), {})
    BY <1>0, <2>2 DEF Sound, ReplaceForAsset, Rewrite, ReservationsMoveTogether
  <2>4. RedoneAtStart(db, mem)
          => RedoneAtStart(db, ReplaceForAsset(mem, RowsOf(a), S))
    BY <1>0, <2>0, SeedIsRedone DEF IInv, TypeOK
  <2> QED BY <2>0, <2>1, <2>3, <2>4, LoudKeeps, QuietKeeps
<1>2. CASE Ingest(c)
  <2>1. PICK o \in Outpoints :
          Mutate(c, IngestChange(mem, o), FALSE) /\ UNCHANGED issued
    BY <1>2 DEF Ingest
  <2>2. Sound(mem, IngestChange(mem, o), {})
    BY <1>0 DEF Sound, IngestChange, ReservationsMoveTogether
  <2> QED BY <2>1, <2>2, LoudKeeps
<1>3. CASE Reserve(c)
  <2>1. PICK q \in Quotes \ issued, S \in SUBSET Outpoints, n \in Ttls :
          Mutate(c, ReserveUtxos(mem, S, q, n), FALSE) /\ issued' = issued \cup {q}
    BY <1>3 DEF Reserve
  <2>2. Sound(mem, ReserveUtxos(mem, S, q, n), {q})
    BY <1>0, <2>1, ReserveSound, StoreAssumption
  <2> QED BY <2>1, <2>2, MutateKeeps
<1>4. CASE Release(c)
  <2>1. PICK q \in Quotes :
          Mutate(c, ReleaseReservation(mem, q), FALSE) /\ UNCHANGED issued
    BY <1>4 DEF Release
  <2> QED BY <1>0, <2>1, ReleaseSound, LoudKeeps
<1>5. CASE Expire(c)
  <2>1. Mutate(c, ReleaseExpired(mem, Outpoints), TRUE) /\ UNCHANGED issued
    BY <1>5 DEF Expire
  <2>2. Sound(mem, ReleaseExpired(mem, Outpoints), {})
    BY <1>0 DEF Sound, ReleaseExpired, Rewrite, ReservationsMoveTogether
  <2>3. RedoneAtStart(db, mem) => RedoneAtStart(db, ReleaseExpired(mem, Outpoints))
    BY <1>0, ExpireIsRedone DEF IInv, TypeOK
  <2> QED BY <2>1, <2>2, <2>3, QuietKeeps
<1>6. CASE Extend(c)
  <2>1. PICK q \in Quotes, n \in Ttls :
          /\ HeldFor(mem, q) # {}
          /\ Mutate(c, ExtendReservation(mem, q, n), FALSE)
          /\ UNCHANGED issued
    BY <1>6 DEF Extend
  <2>2. Sound(mem, ExtendReservation(mem, q, n), {})
    BY <1>0, <2>1, StoreAssumption
       DEF Sound, ExtendReservation, HeldFor, Rewrite, ReservationsMoveTogether
  <2> QED BY <2>1, <2>2, LoudKeeps
<1>7. CASE MarkPending(c)
  <2>1. PICK q \in Quotes, t \in Txids :
          /\ HeldFor(mem, q) # {}
          /\ Mutate(c, MarkPendingConfirm(mem, q, t), FALSE)
          /\ UNCHANGED issued
    BY <1>7 DEF MarkPending
  <2>2. Sound(mem, MarkPendingConfirm(mem, q, t), {})
    BY <1>0, <2>1, HeldSound
  <2> QED BY <2>1, <2>2, LoudKeeps
<1>8. CASE AwaitAcceptance(c)
  <2>1. PICK q \in Quotes :
          Mutate(c, MarkPendingAcceptance(mem, q), FALSE) /\ UNCHANGED issued
    BY <1>8 DEF AwaitAcceptance
  <2>2. Sound(mem, MarkPendingAcceptance(mem, q), {})
    BY <1>0, SettleSound
  <2> QED BY <2>1, <2>2, LoudKeeps
<1>9. CASE FailAcceptance(c)
  <2>1. PICK q \in Quotes :
          Mutate(c, MarkAcceptanceFailed(mem, q), FALSE) /\ UNCHANGED issued
    BY <1>9 DEF FailAcceptance
  <2>2. Sound(mem, MarkAcceptanceFailed(mem, q), {})
    BY <1>0, SettleSound
  <2> QED BY <2>1, <2>2, LoudKeeps
<1>10. CASE Spend(c)
  <2>1. PICK q \in Quotes, t \in Txids :
          Mutate(c, MarkSpent(mem, q, t), FALSE) /\ UNCHANGED issued
    BY <1>10 DEF Spend
  <2> QED BY <1>0, <2>1, SettleSound, LoudKeeps
<1>11. CASE Reorg(c)
  <2>1. PICK t \in Txids : Mutate(c, MarkReorged(mem, t), FALSE) /\ UNCHANGED issued
    BY <1>11 DEF Reorg
  <2>2. Sound(mem, MarkReorged(mem, t), {})
    BY <1>0 DEF Sound, MarkReorged, ReservationsMoveTogether
  <2> QED BY <2>1, <2>2, LoudKeeps
<1>12. CASE Invalidate(c)
  <2>1. PICK o \in Outpoints :
          Mutate(c, MarkInvalid(mem, o), FALSE) /\ UNCHANGED issued
    BY <1>12 DEF Invalidate
  <2>2. Sound(mem, MarkInvalid(mem, o), {})
    BY <1>0 DEF Sound, MarkInvalid, ReservationsMoveTogether
  <2> QED BY <2>1, <2>2, LoudKeeps
<1> QED
  BY <1>1, <1>2, <1>3, <1>4, <1>5, <1>6, <1>7, <1>8, <1>9, <1>10, <1>11, <1>12

\* Time passing, for the three copies at once.
LEMMA TickKeeps ==
  ASSUME IInv, Tick
  PROVE  IInv'
<1> USE DEF IInv
<1>1. ASSUME NEW inv \in Inventories, WholeAndIssued(inv)
      PROVE  /\ Elapse(inv) \in Inventories
             /\ ReservationsMoveTogether(Elapse(inv))
             /\ \A o \in Outpoints :
                  NamesReservation(Elapse(inv)[o]) =>
                    Elapse(inv)[o].quote \in issued
  BY <1>1, ElapseSound DEF Sound, WholeAndIssued
<1>2. TypeOK'
  <2>1. mem' \in Inventories /\ db' \in Inventories
    BY <1>1 DEF TypeOK, Tick, CopiesWhole
  <2>2. \A c \in Callers : Elapse(snap[c]) \in Inventories
    BY <1>1 DEF TypeOK, CopiesWhole
  <2>3. snap' \in [Callers -> Inventories]
    <3> HIDE DEF Inventories
    <3> QED BY <2>2 DEF Tick
  <2> HIDE DEF Inventories
  <2> QED BY <2>1, <2>3 DEF TypeOK, Tick
<1>3. LockHeld'
  BY DEF LockHeld, Tick
<1>4. CopiesWhole'
  <2>1. WholeAndIssued(mem)' /\ WholeAndIssued(db)'
    BY <1>1 DEF TypeOK, Tick, CopiesWhole, WholeAndIssued
  <2>2. ASSUME NEW c \in Callers PROVE WholeAndIssued(snap[c])'
    BY <1>1 DEF TypeOK, Tick, CopiesWhole, WholeAndIssued
  <2> QED BY <2>1, <2>2 DEF CopiesWhole
<1>5. PersistInOrder'
  <2>1. /\ stored = applied => db' = mem'
        /\ \A c \in Callers : pc[c] = "listed" => snap'[c] = mem'
    BY DEF PersistInOrder, Tick
  <2> QED BY <2>1 DEF PersistInOrder, Tick
<1>6. SwallowsHarmless'
  <2>1. RedoneAtStart(db, mem) => RedoneAtStart(Elapse(db), Elapse(mem))
    BY ElapseIsRedone DEF TypeOK
  <2>2. RedoneAtStart(db, mem)' <=> RedoneAtStart(Elapse(db), Elapse(mem))
    BY DEF Tick, RedoneAtStart
  <2> QED BY <2>1, <2>2 DEF SwallowsHarmless, Tick
<1> QED BY <1>2, <1>3, <1>4, <1>5, <1>6

\* Every step of the store, and of its failures, keeps the invariant.
LEMMA Inductive == IInv /\ [Next]_vars => IInv'
<1> SUFFICES ASSUME IInv, [Next]_vars PROVE IInv'
  OBVIOUS
<1> USE DEF IInv
<1>1. ASSUME NEW c \in Callers, CallerStep(c) PROVE IInv'
  <2>1. CASE \/ Seed(c) \/ Ingest(c) \/ Reserve(c) \/ Release(c) \/ Expire(c)
             \/ Extend(c) \/ MarkPending(c) \/ AwaitAcceptance(c)
             \/ FailAcceptance(c) \/ Spend(c) \/ Reorg(c) \/ Invalidate(c)
    BY <2>1, OperationsKeep
  <2>2. CASE ListRows(c)
    <3>1. TypeOK' /\ LockHeld' /\ CopiesWhole' /\ PersistInOrder'
      BY <2>2 DEF ListRows, TypeOK, PcType, LockHeld, CopiesWhole, WholeAndIssued,
                  ReservationsMoveTogether, PersistInOrder
    <3>2. SwallowsHarmless'
      BY <2>2 DEF ListRows, TypeOK, SwallowsHarmless, RedoneAtStart
    <3> QED BY <3>1, <3>2
  <2>3. CASE Commit(c)
    <3>1. TypeOK' /\ LockHeld' /\ CopiesWhole' /\ PersistInOrder'
      BY <2>3 DEF Commit, TypeOK, PcType, LockHeld, CopiesWhole, WholeAndIssued,
                  ReservationsMoveTogether, PersistInOrder
    <3>2. db' = mem' /\ pc' = [pc EXCEPT ![c] = "written"] /\ swallows' = swallows
      BY <2>3 DEF Commit, PersistInOrder
    <3>3. SwallowsHarmless'
      BY <3>2 DEF TypeOK, SwallowsHarmless, RedoneAtStart
    <3> QED BY <3>1, <3>3
  <2>4. CASE AnswerOk(c)
    <3>1. TypeOK' /\ LockHeld' /\ CopiesWhole' /\ PersistInOrder'
      BY <2>4 DEF AnswerOk, Leave, TypeOK, PcType, LockHeld, CopiesWhole,
                  WholeAndIssued, ReservationsMoveTogether, PersistInOrder
    <3>2. /\ db = mem /\ db' = mem'
          /\ pc' = [pc EXCEPT ![c] = "idle"] /\ swallows' = swallows \ {c}
      BY <2>4 DEF AnswerOk, Leave, PersistInOrder
    <3>3. SwallowsHarmless'
      BY <3>2 DEF TypeOK, SwallowsHarmless, RedoneAtStart
    <3> QED BY <3>1, <3>3
  <2>5. CASE AnswerUnstored(c)
    <3>1. TypeOK' /\ LockHeld' /\ CopiesWhole' /\ PersistInOrder'
      BY <2>5 DEF AnswerUnstored, Leave, TypeOK, PcType, LockHeld, CopiesWhole,
                  WholeAndIssued, ReservationsMoveTogether, PersistInOrder
    <3>2. \A d \in Callers : pc[d] # "idle" => d \in swallows
      BY <2>5 DEF AnswerUnstored, LockHeld
    <3>3. SwallowsHarmless'
      BY <2>5, <3>2 DEF AnswerUnstored, Leave, TypeOK, SwallowsHarmless, RedoneAtStart
    <3> QED BY <3>1, <3>3
  <2>6. CASE Abandon(c)
    <3>1. TypeOK' /\ LockHeld' /\ CopiesWhole' /\ PersistInOrder'
      BY <2>6 DEF Abandon, Leave, TypeOK, PcType, LockHeld, CopiesWhole,
                  WholeAndIssued, ReservationsMoveTogether, PersistInOrder
    <3>2. lost' <= stored' => db' = mem'
      BY <2>6 DEF Abandon, PersistInOrder, TypeOK
    <3>3. /\ pc' = [pc EXCEPT ![c] = "idle"] /\ swallows' = swallows \ {c}
      BY <2>6 DEF Abandon, Leave
    <3>4. SwallowsHarmless'
      BY <3>2, <3>3 DEF TypeOK, SwallowsHarmless, RedoneAtStart
    <3> QED BY <3>1, <3>4
  <2> QED
    BY <1>1, <2>1, <2>2, <2>3, <2>4, <2>5, <2>6 DEF CallerStep
<1>2. CASE CrashAndReopen
  <2>1. TypeOK' /\ LockHeld'
    BY <1>2 DEF CrashAndReopen, TypeOK, PcType, LockHeld, Empty
  <2>2. CopiesWhole'
    BY <1>2 DEF CrashAndReopen, CopiesWhole, WholeAndIssued,
                ReservationsMoveTogether, Empty
  <2>3. PersistInOrder'
    BY <1>2 DEF CrashAndReopen, PersistInOrder, TypeOK
  <2>4. SwallowsHarmless'
    BY <1>2 DEF CrashAndReopen, SwallowsHarmless, RedoneAtStart
  <2> QED BY <2>1, <2>2, <2>3, <2>4
<1>3. CASE Tick
  BY <1>3, TickKeeps
<1>4. CASE UNCHANGED vars
  BY <1>4 DEF vars, TypeOK, LockHeld, CopiesWhole, WholeAndIssued,
              ReservationsMoveTogether, PersistInOrder, SwallowsHarmless,
              RedoneAtStart
<1> QED BY <1>1, <1>2, <1>3, <1>4 DEF Next

LEMMA Initial == Init => IInv
BY DEF Init, IInv, TypeOK, PcType, LockHeld, CopiesWhole, WholeAndIssued,
       ReservationsMoveTogether, PersistInOrder, SwallowsHarmless,
       RedoneAtStart, Empty

LEMMA Invariance == Spec => []IInv
BY Initial, Inductive, PTL DEF Spec

-----------------------------------------------------------------------------
(***************************************************************************)
(* The theorems                                                            *)
(***************************************************************************)

\* Type correctness: every reachable row of every copy is a status of the enum,
\* and no deadline counts below zero.
THEOREM TypeCorrect == Spec => []TypeOK
BY Invariance, PTL DEF IInv

\* No race, failed persist or crash ever leaves half a reservation in memory or
\* in the table.
THEOREM NeverTorn == Spec => []NoTornReservation
<1>1. IInv => NoTornReservation
  BY DEF IInv, CopiesWhole, WholeAndIssued, NoTornReservation
<1> QED BY <1>1, Invariance, PTL

\* What a caller was told succeeded is in the table and survives a crash, and the
\* last stored answer leaves table and memory equal, healing earlier failures; what
\* an expiry or a seed answered over a failed persist, the next start does again.
THEOREM AnsweredDurable == Spec => []AnsweredIsDurable
<1>1. IInv => AnsweredIsStored
  BY DEF IInv, PersistInOrder, AnsweredIsStored
<1>2. IInv => AnsweredIsCurrent
  BY DEF IInv, PersistInOrder, AnsweredIsCurrent, TypeOK
<1>3. IInv => SwallowedIsRedone
  <2> SUFFICES ASSUME IInv, lock = NoCaller, lost <= stored
               PROVE  RedoneAtStart(db, mem)
    BY DEF SwallowedIsRedone
  <2>1. \A c \in Callers : pc[c] = "idle"
    BY StoreAssumption DEF IInv, LockHeld
  <2> QED BY <2>1 DEF IInv, SwallowsHarmless
<1>4. IInv => AnsweredIsDurable
  BY <1>1, <1>2, <1>3 DEF AnsweredIsDurable
<1> QED BY <1>4, Invariance, PTL

-----------------------------------------------------------------------------
(***************************************************************************)
(* What a step may never do                                                *)
(***************************************************************************)

\* The rows that name a quote before and after name the same.
OwnersKept(old, new) ==
  \A o \in Outpoints :
    NamesReservation(old[o]) /\ NamesReservation(new[o]) => new[o].quote = old[o].quote

\* The rows committed to a transaction are not spendable after.
CommittedStay(old, new) ==
  \A o \in Outpoints :
    old[o].st \in {"PendingBitcoinConfirm", "PendingRgbAcceptance", "Spent"}
    => new[o].st \notin {"Available", "Reserved"}

\* The operations keep both, but for a reorg, which frees what its transaction spent.
LEMMA OperationsKeepRows ==
  ASSUME IInv, NEW c \in Callers, CallerStep(c)
  PROVE  /\ OwnersKept(mem, mem')
         /\ \/ CommittedStay(mem, mem')
            \/ \E t \in Txids : mem' = MarkReorged(mem, t)
<1>0. mem \in Inventories
  BY DEF IInv, TypeOK
<1>1. CASE Seed(c)
  BY <1>0, <1>1 DEF Seed, Mutate, ReplaceForAsset, Rewrite, RowsOf, OwnersKept,
                    CommittedStay
<1>2. CASE Ingest(c)
  BY <1>0, <1>2 DEF Ingest, Mutate, IngestChange, OwnersKept, CommittedStay
<1>3. CASE Reserve(c)
  BY <1>0, <1>3
     DEF Reserve, Mutate, CanReserve, ReserveUtxos, Rewrite, OwnersKept, CommittedStay
<1>4. CASE Release(c) \/ Expire(c)
  BY <1>0, <1>4 DEF Release, Expire, Mutate, ReleaseReservation, ReleaseExpired, HeldFor,
                    Rewrite, OwnersKept, CommittedStay
<1>5. CASE Extend(c) \/ MarkPending(c)
  BY <1>0, <1>5 DEF Extend, MarkPending, Mutate, ExtendReservation, MarkPendingConfirm,
                    HeldFor, Rewrite, OwnersKept, CommittedStay
<1>6. CASE AwaitAcceptance(c) \/ FailAcceptance(c)
  BY <1>0, <1>6 DEF AwaitAcceptance, FailAcceptance, Mutate, MarkPendingAcceptance,
                    MarkAcceptanceFailed, ConfirmingFor, AcceptingFor, Rewrite, OwnersKept,
                    CommittedStay
<1>7. CASE Spend(c)
  BY <1>0, <1>7 DEF Spend, Mutate, MarkSpent, NamedBy, Rewrite, OwnersKept, CommittedStay
<1>8. CASE Reorg(c)
  BY <1>0, <1>8 DEF Reorg, Mutate, MarkReorged, OwnersKept
<1>9. CASE Invalidate(c)
  BY <1>0, <1>9 DEF Invalidate, Mutate, MarkInvalid, OwnersKept, CommittedStay
<1>10. CASE ListRows(c) \/ Commit(c) \/ AnswerOk(c) \/ AnswerUnstored(c) \/ Abandon(c)
  BY <1>10 DEF ListRows, Commit, AnswerOk, AnswerUnstored, Abandon, OwnersKept,
               CommittedStay
<1> QED
  BY <1>1, <1>2, <1>3, <1>4, <1>5, <1>6, <1>7, <1>8, <1>9, <1>10 DEF CallerStep

\* Time passing changes no status, only deadlines.
LEMMA TimeKeepsRows ==
  ASSUME IInv, Tick \/ UNCHANGED vars
  PROVE  OwnersKept(mem, mem') /\ CommittedStay(mem, mem')
<1>0. mem \in Inventories
  BY DEF IInv, TypeOK
<1>1. CASE Tick
  <2>1. ASSUME NEW o \in Outpoints
        PROVE  /\ mem'[o].st = mem[o].st
               /\ NamesReservation(mem[o]) => mem'[o].quote = mem[o].quote
    BY <1>0, <1>1 DEF Tick, Elapse
  <2> QED
    BY <2>1 DEF OwnersKept, CommittedStay
<1>2. CASE UNCHANGED vars
  BY <1>2 DEF vars, OwnersKept, CommittedStay
<1> QED
  BY <1>1, <1>2

\* What a reorg of t frees of the committed rows was spent by t.
LEMMA ReorgFreesItsOwn ==
  ASSUME IInv, NEW t \in Txids, mem' = MarkReorged(mem, t), NEW o \in Outpoints,
         mem[o].st \in {"PendingBitcoinConfirm", "PendingRgbAcceptance", "Spent"},
         mem'[o].st \in {"Available", "Reserved"}
  PROVE  mem[o] = Spent(t)
BY DEF IInv, TypeOK, MarkReorged

\* No operation of any caller, in any order, takes a row from the quote that holds it
\* (reserve_utxos, mark_spent and the rest of the trait).
THEOREM NoTheftEver == Spec => NoTheft
<1>1. ASSUME IInv, [Next]_vars
      PROVE  [\A o \in Outpoints :
                NamesReservation(mem[o]) /\ NamesReservation(mem'[o])
                => mem'[o].quote = mem[o].quote \/ CrashAndReopen]_vars
  BY <1>1, OperationsKeepRows, TimeKeepsRows DEF Next, OwnersKept
<1> QED
  BY <1>1, Invariance, PTL DEF Spec, NoTheft

\* Committed inventory is spendable again only after a reopening, which loads the table,
\* or because mark_reorged was told that the very transaction that spent it is gone.
THEOREM NoResurrectionEver == Spec => NoResurrection
<1>1. ASSUME IInv, [Next]_vars
      PROVE  [\A o \in Outpoints :
                /\ mem[o].st \in {"PendingBitcoinConfirm", "PendingRgbAcceptance", "Spent"}
                /\ mem'[o].st \in {"Available", "Reserved"}
                => \/ CrashAndReopen
                   \/ \E t \in Txids : mem[o] = Spent(t) /\ mem' = MarkReorged(mem, t)]_vars
  <2> SUFFICES ASSUME NEW o \in Outpoints, ~CrashAndReopen,
                      mem[o].st \in {"PendingBitcoinConfirm", "PendingRgbAcceptance", "Spent"},
                      mem'[o].st \in {"Available", "Reserved"}
               PROVE  \E t \in Txids : mem[o] = Spent(t) /\ mem' = MarkReorged(mem, t)
    OBVIOUS
  <2>1. ~CommittedStay(mem, mem')
    BY DEF CommittedStay
  <2>2. PICK t \in Txids : mem' = MarkReorged(mem, t)
    BY <1>1, <2>1, OperationsKeepRows, TimeKeepsRows DEF Next
  <2>3. mem[o] = Spent(t)
    BY <1>1, <2>2, ReorgFreesItsOwn
  <2> QED
    BY <2>2, <2>3
<1> QED
  BY <1>1, Invariance, PTL DEF Spec, NoResurrection
=============================================================================
