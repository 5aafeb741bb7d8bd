---------------------------- MODULE InventoryStore ----------------------------
(***************************************************************************)
(* The durable inventory store, SqliteInventoryStore                       *)
(* (crates/rfq-store/src/sqlite.rs): a working copy in memory, mutated     *)
(* first, then the whole table rewritten in one SQLite transaction, both   *)
(* under write_lock.  Several callers use it at once; a persist can fail,  *)
(* which most operations report and two only log; a caller's future can be *)
(* dropped at any await; the process can crash and reopen.                 *)
(***************************************************************************)
EXTENDS Inventory

CONSTANTS Callers,    \* concurrent users of the store
          Assets,     \* the contracts whose rows share the store
          AssetOf,    \* the contract an outpoint carries
          Ttls,       \* the reservation lifetimes callers ask for
          NoCaller,   \* the lock is free
          MaxOps,     \* bound: mutations ever applied to a working copy
          MaxFaults   \* bound: failed persists, dropped callers and crashes

ASSUME StoreAssumption ==
  /\ NoCaller \notin Callers
  /\ AssetOf \in [Outpoints -> Assets]
  /\ Ttls \subseteq Nat
  /\ MaxOps \in Nat
  /\ MaxFaults \in Nat

VARIABLES
  mem,       \* the in-memory working copy
  db,        \* the table in SQLite
  lock,      \* who holds write_lock
  pc,        \* where each caller is in its mutation
  snap,      \* the rows a caller's persist read from the working copy
  swallows,  \* the callers whose operation only logs a persist that fails
  issued,    \* quotes a reservation was made for: reservation ids are fresh
  applied,   \* history: number of the last mutation applied to mem
  read,      \* history: number of the last mutation in each caller's snap
  stored,    \* history: number of the last mutation in db
  mine,      \* history: number of each caller's own mutation
  answered,  \* history: number of the last mutation stored and answered Ok
  lost,      \* history: number of the last mutation answered Err, or whose
             \* caller went away
  faults     \* faults injected so far

vars == <<mem, db, lock, pc, snap, swallows, issued,
          applied, read, stored, mine, answered, lost, faults>>

-----------------------------------------------------------------------------

\* "idle": no mutation in hand; "mutated": working copy changed, persist not
\* begun; "listed": the rows to write are read; "written": committed.
PcType == {"idle", "mutated", "listed", "written"}

TypeOK ==
  /\ mem \in Inventories
  /\ db \in Inventories
  /\ lock \in Callers \cup {NoCaller}
  /\ pc \in [Callers -> PcType]
  /\ snap \in [Callers -> Inventories]
  /\ swallows \subseteq Callers
  /\ issued \subseteq Quotes
  /\ applied \in Nat
  /\ read \in [Callers -> Nat]
  /\ stored \in Nat
  /\ mine \in [Callers -> Nat]
  /\ answered \in Nat
  /\ lost \in Nat
  /\ faults \in Nat

Empty == [o \in Outpoints |-> Absent]

Init ==
  /\ mem = Empty
  /\ db = Empty
  /\ lock = NoCaller
  /\ pc = [c \in Callers |-> "idle"]
  /\ snap = [c \in Callers |-> Empty]
  /\ swallows = {}
  /\ issued = {}
  /\ applied = 0
  /\ read = [c \in Callers |-> 0]
  /\ stored = 0
  /\ mine = [c \in Callers |-> 0]
  /\ answered = 0
  /\ lost = 0
  /\ faults = 0

-----------------------------------------------------------------------------
(***************************************************************************)
(* The first half of a mutation: write_lock is taken and the working copy  *)
(* changed.  An operation whose precondition fails returns Err before      *)
(* persisting and changes nothing, so it has no step here.  quiet says     *)
(* that the operation logs a failed persist and answers as if it had       *)
(* worked.                                                                 *)
(***************************************************************************)

\* Slip: the working copy is mutated without taking write_lock.
MutateUnlocked(c, inv, quiet) ==
  /\ pc[c] = "idle"
  /\ applied < MaxOps
  /\ lock' = c
  /\ pc' = [pc EXCEPT ![c] = "mutated"]
  /\ mem' = inv
  /\ swallows' = IF quiet THEN swallows \cup {c} ELSE swallows
  /\ applied' = applied + 1
  /\ mine' = [mine EXCEPT ![c] = applied + 1]
  /\ UNCHANGED <<db, snap, read, stored, answered, lost, faults>>

Mutate(c, inv, quiet) ==
  /\ lock = NoCaller
  /\ pc[c] = "idle"
  /\ applied < MaxOps
  /\ lock' = c
  /\ pc' = [pc EXCEPT ![c] = "mutated"]
  /\ mem' = inv
  /\ swallows' = IF quiet THEN swallows \cup {c} ELSE swallows
  /\ applied' = applied + 1
  /\ mine' = [mine EXCEPT ![c] = applied + 1]
  /\ UNCHANGED <<db, snap, read, stored, answered, lost, faults>>

RowsOf(a) == {o \in Outpoints : AssetOf[o] = a}

\* First sight of an asset: it has no row of any status, and the chain's view
\* is put in, beside whatever the other assets' rows hold.  A failed persist is
\* an error in replace_for_asset; the BTC pool, whose replace_all treats the
\* whole store as one asset, only logs it.
Seed(c) ==
  /\ \E a \in Assets, quiet \in BOOLEAN :
       /\ \A o \in RowsOf(a) : mem[o] = Absent
       /\ \E S \in SUBSET RowsOf(a) :
            Mutate(c, ReplaceForAsset(mem, RowsOf(a), S), quiet)
  /\ UNCHANGED issued

\* An outpoint not tracked yet: change, or one a restart finds on chain.
Ingest(c) ==
  /\ \E o \in Outpoints :
       /\ mem[o] = Absent
       /\ Mutate(c, IngestChange(mem, o), FALSE)
  /\ UNCHANGED issued

Reserve(c) ==
  \E q \in Quotes \ issued, S \in SUBSET Outpoints \ {{}}, n \in Ttls :
    /\ CanReserve(mem, S)
    /\ Mutate(c, ReserveUtxos(mem, S, q, n), FALSE)
    /\ issued' = issued \cup {q}

\* release_reservation, and mark_broadcast_failed which is the same call.
Release(c) ==
  /\ \E q \in Quotes :
       /\ HeldFor(mem, q) # {}
       /\ Mutate(c, ReleaseReservation(mem, q), FALSE)
  /\ UNCHANGED issued

\* release_expired_reservations only persists when it released something, and
\* returns the count whether the persist worked or not.
Expire(c) ==
  /\ ReleaseExpired(mem, Outpoints) # mem
  /\ Mutate(c, ReleaseExpired(mem, Outpoints), TRUE)
  /\ UNCHANGED issued

Extend(c) ==
  /\ \E q \in Quotes, n \in Ttls :
       /\ HeldFor(mem, q) # {}
       /\ Mutate(c, ExtendReservation(mem, q, n), FALSE)
  /\ UNCHANGED issued

MarkPending(c) ==
  /\ \E q \in Quotes, t \in Txids :
       /\ HeldFor(mem, q) # {}
       /\ Mutate(c, MarkPendingConfirm(mem, q, t), FALSE)
  /\ UNCHANGED issued

AwaitAcceptance(c) ==
  /\ \E q \in Quotes :
       /\ ConfirmingFor(mem, q) # {}
       /\ Mutate(c, MarkPendingAcceptance(mem, q), FALSE)
  /\ UNCHANGED issued

FailAcceptance(c) ==
  /\ \E q \in Quotes :
       /\ AcceptingFor(mem, q) # {}
       /\ Mutate(c, MarkAcceptanceFailed(mem, q), FALSE)
  /\ UNCHANGED issued

Spend(c) ==
  /\ \E q \in Quotes, t \in Txids :
       /\ CanMarkSpent(mem, q, t)
       /\ Mutate(c, MarkSpent(mem, q, t), FALSE)
  /\ UNCHANGED issued

Reorg(c) ==
  /\ \E t \in Txids : Mutate(c, MarkReorged(mem, t), FALSE)
  /\ UNCHANGED issued

Invalidate(c) ==
  /\ \E o \in Outpoints :
       /\ mem[o] # Absent
       /\ Mutate(c, MarkInvalid(mem, o), FALSE)
  /\ UNCHANGED issued

-----------------------------------------------------------------------------
(***************************************************************************)
(* The second half: persist() lists the working copy, rewrites the table   *)
(* in one transaction, and the caller is answered as the lock is dropped.  *)
(***************************************************************************)

\* persist() reads the rows it is going to write.
ListRows(c) ==
  /\ pc[c] = "mutated"
  /\ pc' = [pc EXCEPT ![c] = "listed"]
  /\ snap' = [snap EXCEPT ![c] = mem]
  /\ read' = [read EXCEPT ![c] = applied]
  /\ UNCHANGED <<mem, db, lock, swallows, issued, applied, stored, mine, answered,
                 lost, faults>>

\* DELETE, INSERTs and COMMIT are one SQLite transaction.
Commit(c) ==
  /\ pc[c] = "listed"
  /\ pc' = [pc EXCEPT ![c] = "written"]
  /\ db' = snap[c]
  /\ stored' = read[c]
  /\ UNCHANGED <<mem, lock, snap, swallows, issued, applied, read, mine, answered,
                 lost, faults>>

\* The call returns and the guard is dropped.
Leave(c) ==
  /\ pc' = [pc EXCEPT ![c] = "idle"]
  /\ lock' = IF lock = c THEN NoCaller ELSE lock
  /\ swallows' = swallows \ {c}

\* Ok reaches the caller.
AnswerOk(c) ==
  /\ pc[c] = "written"
  /\ Leave(c)
  /\ answered' = IF mine[c] > answered THEN mine[c] ELSE answered
  /\ UNCHANGED <<mem, db, snap, issued, applied, read, stored, mine, lost, faults>>

\* The transaction fails, the operation prints it and answers as if it were
\* stored: release_expired_reservations returns its count, replace_all nothing.
AnswerUnstored(c) ==
  /\ faults < MaxFaults
  /\ pc[c] \in {"mutated", "listed"}
  /\ c \in swallows
  /\ faults' = faults + 1
  /\ Leave(c)
  /\ UNCHANGED <<mem, db, snap, issued, applied, read, stored, mine, answered, lost>>

\* The transaction of any other operation fails: the caller gets Err, the
\* working copy keeps the mutation.  A dropped caller future ends the same way
\* at any await, with or without the commit.
Abandon(c) ==
  /\ faults < MaxFaults
  /\ pc[c] # "idle"
  /\ faults' = faults + 1
  /\ Leave(c)
  /\ lost' = mine[c]
  /\ UNCHANGED <<mem, db, snap, issued, applied, read, stored, mine, answered>>

\* The process dies and open() loads the rows: what was only in memory is gone.
CrashAndReopen ==
  /\ faults < MaxFaults
  /\ faults' = faults + 1
  /\ mem' = db
  /\ lock' = NoCaller
  /\ pc' = [c \in Callers |-> "idle"]
  /\ snap' = [c \in Callers |-> Empty]
  /\ swallows' = {}
  /\ applied' = stored
  /\ read' = [c \in Callers |-> 0]
  /\ mine' = [c \in Callers |-> 0]
  /\ lost' = 0
  /\ UNCHANGED <<db, issued, stored, answered>>

\* Time passes for every copy alike: they hold the same absolute deadlines.
Tick ==
  /\ \E o \in Outpoints : Elapse(mem)[o] # mem[o] \/ Elapse(db)[o] # db[o]
  /\ mem' = Elapse(mem)
  /\ db' = Elapse(db)
  /\ snap' = [c \in Callers |-> Elapse(snap[c])]
  /\ UNCHANGED <<lock, pc, swallows, issued, applied, read, stored, mine, answered,
                 lost, faults>>

CallerStep(c) ==
  \/ Seed(c) \/ Ingest(c) \/ Reserve(c) \/ Release(c) \/ Expire(c)
  \/ Extend(c) \/ MarkPending(c) \/ AwaitAcceptance(c) \/ FailAcceptance(c)
  \/ Spend(c) \/ Reorg(c) \/ Invalidate(c)
  \/ ListRows(c) \/ Commit(c) \/ AnswerOk(c) \/ AnswerUnstored(c) \/ Abandon(c)

Next ==
  \/ \E c \in Callers : CallerStep(c)
  \/ CrashAndReopen
  \/ Tick

Spec == Init /\ [][Next]_vars

-----------------------------------------------------------------------------
(***************************************************************************)
(* Properties                                                              *)
(***************************************************************************)

\* Neither the working copy nor the table ever holds half a reservation: all
\* the rows that name one quote agree, whatever callers raced, whatever persist
\* failed and wherever the process died (two-pass reserve, one transaction).
NoTornReservation ==
  /\ ReservationsMoveTogether(mem)
  /\ ReservationsMoveTogether(db)

\* A mutation that was persisted before its caller was told so is in the table,
\* and a crash cannot undo it: write_lock keeps an older listing from overwriting
\* a newer one.
AnsweredIsStored == answered <= stored

\* A failed persist leaves memory ahead of the table; the next mutation that is
\* stored and answered Ok, whichever caller made it, brings the two together.
AnsweredIsCurrent == answered = applied => db = mem

\* What memory shows and the table does not is what the next start does again: an
\* expiry of a reservation that is expired in the table too, a seed of an asset
\* the table has no row of.
RedoneAtStart(old, new) ==
  \A o \in Outpoints :
    \/ new[o] = old[o]
    \/ /\ new[o] = Available
       /\ \/ old[o].st = "Reserved" /\ old[o].left = 0
          \/ \A p \in RowsOf(AssetOf[o]) : old[p] = Absent

\* As long as no caller got Err or went away since the table was last written, all
\* that was answered is in the table, or is an expiry or a seed whose failed
\* persist was only logged, and a crash loses nothing but work it does again.
SwallowedIsRedone == lock = NoCaller /\ lost <= stored => RedoneAtStart(db, mem)

\* The three together: what a caller was told succeeded survives a crash, whatever
\* calls and failures came before it, but for an expiry or a first seed that was
\* answered over a failed persist, which survives as work to be redone.
AnsweredIsDurable == AnsweredIsStored /\ AnsweredIsCurrent /\ SwallowedIsRedone

\* The inductive invariant behind them: write_lock is held from the mutation
\* to the answer, so between the two the working copy does not move and what is
\* listed is what is in memory.

\* A caller inside a mutation holds the lock.
LockHeld == \A c \in Callers : pc[c] # "idle" => lock = c

\* Every copy is whole and names only issued quotes, so a fresh reservation id
\* is on no row of any of them.
WholeAndIssued(inv) ==
  /\ ReservationsMoveTogether(inv)
  /\ \A o \in Outpoints : NamesReservation(inv[o]) => inv[o].quote \in issued

CopiesWhole ==
  /\ WholeAndIssued(mem)
  /\ WholeAndIssued(db)
  /\ \A c \in Callers : WholeAndIssued(snap[c])

\* The listing and the commit carry the mutation of the caller that made it.
PersistInOrder ==
  /\ answered <= stored
  /\ stored <= applied
  /\ stored = applied => db = mem
  /\ \A c \in Callers :
       /\ pc[c] # "idle" => mine[c] = applied
       /\ pc[c] = "listed" => read[c] = applied /\ snap[c] = mem
       /\ pc[c] = "written" => stored = applied

\* From one write of the table to the next, expiries and seeds move memory away
\* from it only by what they would do again.
SwallowsHarmless ==
  /\ \A c \in swallows : pc[c] # "idle"
  /\ lost <= stored /\ (\A c \in Callers : pc[c] # "idle" => c \in swallows)
     => RedoneAtStart(db, mem)

IInv == TypeOK /\ LockHeld /\ CopiesWhole /\ PersistInOrder /\ SwallowsHarmless

\* Inputs committed to a transaction never become spendable again in the running
\* process, except the ones a reorg of that very transaction frees.
NoResurrection ==
  [][\A o \in Outpoints :
       /\ mem[o].st \in {"PendingBitcoinConfirm", "PendingRgbAcceptance", "Spent"}
       /\ mem'[o].st \in {"Available", "Reserved"}
       => \/ CrashAndReopen
          \/ \E t \in Txids : mem[o] = Spent(t) /\ mem' = MarkReorged(mem, t)]_vars

\* A row passes from one quote to another only through Available: no caller's
\* operation can take an outpoint another quote holds.
NoTheft ==
  [][\A o \in Outpoints :
       NamesReservation(mem[o]) /\ NamesReservation(mem'[o])
       => mem'[o].quote = mem[o].quote \/ CrashAndReopen]_vars
=============================================================================
