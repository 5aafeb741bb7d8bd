------------------------------ MODULE Maker_proofs ------------------------------
(***************************************************************************)
(* What the settlement engine keeps whatever its handlers, loops, network  *)
(* and faults do, for any number of outpoints, quotes and calls.           *)
(***************************************************************************)
EXTENDS Maker, TLAPS

USE DEF Inventories, Status, NamesReservation, Absent, Available, Invalid,
        Reserved, PendingConfirm, PendingAcceptance, Spent

-----------------------------------------------------------------------------
(***************************************************************************)
(* Whole reservations stay whole                                           *)
(***************************************************************************)

\* What every mutation of the store does to an inventory whose reservations are
\* whole: the result is an inventory, its reservations are whole, and it names
\* only quotes it named before and those of Q.
Sound(inv, new, Q) ==
  /\ new \in Inventories
  /\ ReservationsMoveTogether(new)
  /\ \A o \in Outpoints :
       NamesReservation(new[o]) =>
         \/ new[o].quote \in Q
         \/ \E p \in Outpoints :
              NamesReservation(inv[p]) /\ inv[p].quote = new[o].quote

\* Reserving under a quote no row names yet keeps reservations whole: the two
\* passes of reserve_utxos.
LEMMA ReserveSound ==
  ASSUME NEW inv \in Inventories, ReservationsMoveTogether(inv),
         NEW S \in SUBSET Outpoints, NEW q \in Quotes, NEW n \in Nat,
         \A o \in Outpoints : NamesReservation(inv[o]) => inv[o].quote # q
  PROVE  Sound(inv, ReserveUtxos(inv, S, q, n), {q})
BY DEF Sound, ReserveUtxos, Rewrite, ReservationsMoveTogether

\* release_reservation and release_expired_reservations free whole reservations.
LEMMA ReleaseSound ==
  ASSUME NEW inv \in Inventories, ReservationsMoveTogether(inv),
         NEW q \in Quotes
  PROVE  /\ Sound(inv, ReleaseReservation(inv, q), {})
         /\ Sound(inv, ReleaseExpired(inv, Outpoints), {})
BY DEF Sound, ReleaseReservation, ReleaseExpired, HeldFor, Rewrite,
       ReservationsMoveTogether

\* extend_reservation and mark_pending_bitcoin_confirm move every Reserved row
\* of the quote, and a whole reservation has no other row.
LEMMA HeldSound ==
  ASSUME NEW inv \in Inventories, ReservationsMoveTogether(inv),
         NEW q \in Quotes, NEW n \in Nat, NEW t \in Txids
  PROVE  /\ HeldFor(inv, q) # {} => Sound(inv, ExtendReservation(inv, q, n), {})
         /\ HeldFor(inv, q) # {} => Sound(inv, MarkPendingConfirm(inv, q, t), {})
BY DEF Sound, ExtendReservation, MarkPendingConfirm, HeldFor, Rewrite,
       ReservationsMoveTogether

\* The moves after a broadcast: to PendingRgbAcceptance, to Invalid, to Spent.
LEMMA SettleSound ==
  ASSUME NEW inv \in Inventories, ReservationsMoveTogether(inv),
         NEW q \in Quotes
  PROVE  /\ Sound(inv, MarkPendingAcceptance(inv, q), {})
         /\ Sound(inv, MarkAcceptanceFailed(inv, q), {})
         /\ \A t \in Txids : Sound(inv, MarkSpent(inv, q, t), {})
<1>1. Sound(inv, MarkPendingAcceptance(inv, q), {})
  BY DEF Sound, MarkPendingAcceptance, ConfirmingFor, Rewrite,
         ReservationsMoveTogether
<1>2. Sound(inv, MarkAcceptanceFailed(inv, q), {})
  BY DEF Sound, MarkAcceptanceFailed, AcceptingFor, Rewrite,
         ReservationsMoveTogether
<1>3. \A t \in Txids : Sound(inv, MarkSpent(inv, q, t), {})
  BY DEF Sound, MarkSpent, NamedBy, Rewrite, ReservationsMoveTogether
<1> QED BY <1>1, <1>2, <1>3

\* Time passing counts every row of a reservation down alike.
LEMMA ElapseSound ==
  ASSUME NEW inv \in Inventories, ReservationsMoveTogether(inv)
  PROVE  Sound(inv, Elapse(inv), {})
<1>1. Elapse(inv) \in Inventories
  BY DEF Elapse
<1>2. \A o \in Outpoints :
        NamesReservation(Elapse(inv)[o]) =>
          /\ NamesReservation(inv[o])
          /\ inv[o].quote = Elapse(inv)[o].quote
  BY DEF Elapse
<1>3. ASSUME NEW o \in Outpoints, NEW p \in Outpoints, inv[o] = inv[p]
      PROVE  Elapse(inv)[o] = Elapse(inv)[p]
  BY <1>3 DEF Elapse
<1> QED BY <1>1, <1>2, <1>3 DEF Sound, ReservationsMoveTogether

-----------------------------------------------------------------------------
(***************************************************************************)
(* A reservation lapses whole or goes on over the same rows                *)
(***************************************************************************)

\* What time, extensions and releases can do: a row that is not reserved is not
\* touched, and of every quote all of its reserved rows go free or none.
Lapses(old, new) ==
  /\ new \in Inventories
  /\ ReservationsMoveTogether(new)
  /\ \A q \in Quotes : HeldFor(new, q) = HeldFor(old, q) \/ HeldFor(new, q) = {}
  /\ \A o \in Outpoints :
       IF old[o].st = "Reserved"
       THEN new[o] = Available \/ (new[o].st = "Reserved" /\ new[o].quote = old[o].quote)
       ELSE new[o] = old[o]

\* Nothing happens to the inventory.
LEMMA StutterLapses ==
  ASSUME NEW inv \in Inventories, ReservationsMoveTogether(inv)
  PROVE  Lapses(inv, inv)
BY DEF Lapses

\* release_reservation.
LEMMA ReleaseLapses ==
  ASSUME NEW inv \in Inventories, ReservationsMoveTogether(inv), NEW q \in Quotes
  PROVE  Lapses(inv, ReleaseReservation(inv, q))
<1>1. ReservationsMoveTogether(ReleaseReservation(inv, q))
  BY ReleaseSound DEF Sound
<1> QED BY <1>1 DEF Lapses, ReleaseReservation, HeldFor, Rewrite

\* release_expired_reservations of a pool that holds all of a reservation or none of
\* it: rows of one reservation have one deadline.
LEMMA ExpireLapses ==
  ASSUME NEW inv \in Inventories, ReservationsMoveTogether(inv),
         NEW pool \in SUBSET Outpoints,
         \A o, p \in Outpoints :
           /\ inv[o].st = "Reserved" /\ inv[p].st = "Reserved"
           /\ inv[o].quote = inv[p].quote
           => (o \in pool <=> p \in pool)
  PROVE  Lapses(inv, ReleaseExpired(inv, pool))
<1> DEFINE new == ReleaseExpired(inv, pool)
<1>1. \A o \in Outpoints :
        new[o] = IF o \in pool /\ inv[o].st = "Reserved" /\ inv[o].left = 0
                 THEN Available ELSE inv[o]
  BY DEF ReleaseExpired, Rewrite
<1>2. new \in Inventories
  BY DEF ReleaseExpired, Rewrite
<1>3. \A o, p \in Outpoints :
        /\ inv[o].st = "Reserved" /\ inv[p].st = "Reserved" /\ inv[o].quote = inv[p].quote
        => (new[o] = inv[o] <=> new[p] = inv[p])
  BY <1>1 DEF ReservationsMoveTogether
<1>4. ReservationsMoveTogether(new)
  BY <1>1, <1>3 DEF ReservationsMoveTogether
<1>5. ASSUME NEW q \in Quotes
      PROVE  HeldFor(new, q) = HeldFor(inv, q) \/ HeldFor(new, q) = {}
  <2>1. HeldFor(new, q) \subseteq HeldFor(inv, q)
    BY <1>1 DEF HeldFor
  <2>2. ASSUME NEW o \in HeldFor(new, q), NEW p \in HeldFor(inv, q)
        PROVE  p \in HeldFor(new, q)
    BY <1>1, <1>3, <2>1 DEF HeldFor
  <2> QED BY <2>1, <2>2
<1> QED
  BY <1>1, <1>2, <1>4, <1>5 DEF Lapses

\* extend_reservation.
LEMMA ExtendLapses ==
  ASSUME NEW inv \in Inventories, ReservationsMoveTogether(inv),
         NEW q \in Quotes, NEW n \in Nat
  PROVE  Lapses(inv, ExtendReservation(inv, q, n))
<1> DEFINE new == ExtendReservation(inv, q, n)
<1>1. new \in Inventories
  BY DEF ExtendReservation, HeldFor, Rewrite
<1>2. \A o \in Outpoints :
        IF inv[o].st = "Reserved" THEN new[o].st = "Reserved" /\ new[o].quote = inv[o].quote
        ELSE new[o] = inv[o]
  BY DEF ExtendReservation, HeldFor, Rewrite
<1>3. ReservationsMoveTogether(new)
  BY DEF ExtendReservation, HeldFor, Rewrite, ReservationsMoveTogether
<1>4. \A p \in Quotes : HeldFor(new, p) = HeldFor(inv, p)
  BY <1>1, <1>2 DEF HeldFor
<1> QED
  BY <1>1, <1>2, <1>3, <1>4 DEF Lapses

\* Passing time.
LEMMA ElapseLapses ==
  ASSUME NEW inv \in Inventories, ReservationsMoveTogether(inv)
  PROVE  Lapses(inv, Elapse(inv))
<1> DEFINE new == Elapse(inv)
<1>1. new \in Inventories /\ ReservationsMoveTogether(new)
  BY ElapseSound DEF Sound
<1>2. \A o \in Outpoints :
        IF inv[o].st = "Reserved" THEN new[o].st = "Reserved" /\ new[o].quote = inv[o].quote
        ELSE new[o] = inv[o]
  BY DEF Elapse
<1>3. \A p \in Quotes : HeldFor(new, p) = HeldFor(inv, p)
  BY <1>1, <1>2 DEF HeldFor
<1> QED
  BY <1>1, <1>2, <1>3 DEF Lapses

-----------------------------------------------------------------------------
(***************************************************************************)
(* The inductive invariant                                                 *)
(***************************************************************************)

\* Reservations are whole, lie in the pool of their quote, and belong to quotes that
\* were answered.
UtxosSound ==
  /\ ReservationsMoveTogether(utxos)
  /\ \A o \in Outpoints :
       NamesReservation(utxos[o]) =>
         /\ o \in Pool(utxos[o].quote)
         /\ quoted[utxos[o].quote] = "reserved"

\* A transaction is built for a quote that was answered.
BuiltSound ==
  \A t \in Txids :
    built[t] # Unbuilt =>
      built[t].quote \in Quotes /\ quoted[built[t].quote] = "reserved"

\* A transaction of the quote's: it spends what the reservation holds, while it lives.
Spends(t, q) ==
  /\ built[t] # Unbuilt
  /\ built[t].quote = q
  /\ Live(q) => built[t].ins = HeldFor(utxos, q)

\* What a taker has been given spends something.
OfferSound(t) == Spends(t, built[t].quote) /\ built[t].ins # {}
OffersSound == \A t \in offered : OfferSound(t)

\* Rows that are committed or spent lead back to their quote, whose reservation is gone.
CommittedSound ==
  \A o \in Outpoints :
    /\ utxos[o].st = "PendingBitcoinConfirm" => built[utxos[o].tx].quote = utxos[o].quote
    /\ utxos[o].st = "Spent" => ~Live(built[utxos[o].tx].quote)

\* Every input of a transaction is committed to it.
Owned(t, q) == \A o \in built[t].ins : utxos[o] \in {PendingConfirm(q, t), Spent(t)}

\* What is recorded has left its reservation.
LiveUnrecorded == \A q \in Quotes : fills[q] # NoTx => ~Live(q)

\* The stores and the network, without the calls.
StoresSound ==
  /\ UtxosSound /\ BuiltSound /\ OffersSound /\ CommittedSound /\ LiveUnrecorded
  /\ WrittenOffBySpender /\ FillOwnsInputs /\ SellConsignmentAnchored

Quoting == {"select", "reserve"}
Recording == {"saveConsignment", "recordFill"}
Signing == {"sign", "signFind", "finalize", "broadcast", "markPending"} \cup Recording

\* A call between two of its steps: what it read or built still is what the inventory
\* says, as long as its quote's reservation lives.
CallSound(k) ==
  /\ k.pc # "idle" =>
       /\ k.quote \in Quotes
       /\ quoted[k.quote] = IF k.pc \in Quoting THEN "asked" ELSE "reserved"
  /\ k.pc = "reserve" => k.rows \in Covering[k.quote]
  /\ k.pc \in {"buildBuy", "planRungs", "buildSell"} /\ Live(k.quote) =>
       k.rows = HeldFor(utxos, k.quote)
  /\ k.pc \in {"acceptRows", "buildBuy"} => IsBuy(k.quote)
  /\ k.pc \in {"extendDeliver", "recordPsbt"}
     \/ (k.pc \in {"extendAccept", "park"} /\ IsBuy(k.quote)) =>
       k.tx \in Txids /\ Spends(k.tx, k.quote)
  /\ k.pc = "recordPsbt" \/ (k.pc = "park" /\ IsBuy(k.quote)) => built[k.tx].ins # {}
  /\ k.pc \in Signing => k.tx \in offered /\ built[k.tx].quote = k.quote
  /\ k.pc \in Signing \ {"sign"} => k.entry \in Txids
  /\ k.pc \in {"broadcast", "markPending", "saveConsignment"} /\ ~IsBuy(k.quote) =>
       k.entry = k.tx
  /\ k.pc = "markPending" => chain[k.tx] # "unseen"
  /\ k.pc \in Recording =>
       /\ ~Live(k.quote) /\ fills[k.quote] = NoTx
       /\ Owned(k.tx, k.quote)

CallsSound == \A c \in Calls : CallSound(calls[c])

\* One call quotes a quote, and one records it.
Exclusive ==
  \A c, d \in Calls :
    c # d /\ Quote(c) = Quote(d) =>
      /\ ~(calls[c].pc \in Quoting /\ calls[d].pc \in Quoting)
      /\ ~(calls[c].pc \in Recording /\ calls[d].pc \in Recording)

IInv == TypeOK /\ StoresSound /\ CallsSound /\ Exclusive

-----------------------------------------------------------------------------
(***************************************************************************)
(* The start                                                               *)
(***************************************************************************)

\* Nothing is reserved, built or in flight.
LEMMA InitIInv == Init => IInv
<1> SUFFICES ASSUME Init PROVE IInv
  OBVIOUS
<1>1. \A o \in Outpoints : utxos[o].st = "Available"
  BY DEF Init, Available
<1>2. \A q \in Quotes : ~Live(q)
  BY <1>1 DEF Live, HeldFor
<1>3. TypeOK
  <2>1. Idle \in CallType
    BY DEF Idle, CallType, PcType, PendingType
  <2> QED
    BY <2>1 DEF Init, TypeOK, Inventories, Status, Available, PendingType, BuiltType, Unbuilt,
       ChainType, ConsignmentType, NoConsignment
<1>4. UtxosSound
  BY <1>1 DEF UtxosSound, ReservationsMoveTogether, NamesReservation
<1>5. BuiltSound /\ OffersSound /\ LiveUnrecorded /\ FillOwnsInputs /\ SellConsignmentAnchored
  BY DEF Init, BuiltSound, OffersSound, LiveUnrecorded, FillOwnsInputs, SellConsignmentAnchored,
     NoConsignment
<1>6. CommittedSound /\ WrittenOffBySpender
  BY <1>1 DEF CommittedSound, WrittenOffBySpender
<1>7. \A c \in Calls : calls[c].pc = "idle"
  BY DEF Init, Idle
<1>8. CallsSound
  BY <1>7 DEF CallsSound, CallSound, Quoting, Signing, Recording
<1>9. Exclusive
  BY <1>7 DEF Exclusive, Quoting, Recording
<1> QED
  BY <1>3, <1>4, <1>5, <1>6, <1>8, <1>9 DEF IInv, StoresSound

-----------------------------------------------------------------------------
(***************************************************************************)
(* Steps that commit nothing                                               *)
(***************************************************************************)

\* What all steps but three do to the stores and the network: reservations go on or
\* lapse, transactions are added, what the network has seen it has seen, and nothing
\* is recorded.
Calm ==
  /\ Lapses(utxos, utxos')
  /\ \A q \in Quotes :
       /\ quoted[q] # "fresh" => quoted'[q] = quoted[q]
       /\ quoted'[q] = "reserved" => quoted[q] = "reserved"
  /\ \A t \in Txids :
       \/ built'[t] = built[t]
       \/ /\ built[t] = Unbuilt
          /\ built'[t].quote \in Quotes /\ quoted[built'[t].quote] = "reserved"
  /\ offered \subseteq offered'
  /\ \A t \in Txids : chain[t] # "unseen" => chain'[t] # "unseen"
  /\ UNCHANGED <<consignments, fills>>

\* What a taker is given after the step is sound.
GivesSound == \A t \in offered' \ offered : OfferSound(t)'

\* Reserved rows of a quote are that quote's, and name it.
LEMMA LiveQuotes ==
  ASSUME TypeOK, UtxosSound, NEW q \in Quotes, Live(q)
  PROVE  quoted[q] = "reserved"
BY DEF Live, HeldFor, UtxosSound, NamesReservation

\* A lapsed reservation stays lapsed, a live one is over the same rows.
LEMMA LapsedOrSame ==
  ASSUME Calm, NEW q \in Quotes, Live(q)'
  PROVE  Live(q) /\ HeldFor(utxos, q)' = HeldFor(utxos, q)
BY DEF Calm, Lapses, Live

\* Rows that a calm step leaves alone, and those it does not.
LEMMA CalmRows ==
  ASSUME TypeOK, Calm, NEW o \in Outpoints
  PROVE  /\ utxos'[o].st \in {"PendingBitcoinConfirm", "Spent"} => utxos'[o] = utxos[o]
         /\ utxos[o].st \in {"PendingBitcoinConfirm", "Spent"} => utxos'[o] = utxos[o]
         /\ NamesReservation(utxos'[o]) =>
              NamesReservation(utxos[o]) /\ utxos'[o].quote = utxos[o].quote
BY DEF Calm, Lapses, NamesReservation, Available

\* What was built stays as it was built.
LEMMA BuiltStays ==
  ASSUME Calm, NEW t \in Txids, built[t] # Unbuilt
  PROVE  built'[t] = built[t]
BY DEF Calm

\* Calm steps keep what the stores and the network have.
LEMMA CalmKeepsStores ==
  ASSUME TypeOK, TypeOK', StoresSound, Calm, GivesSound
  PROVE  StoresSound'
<1> USE DEF StoresSound
<1>1. UtxosSound'
  <2>1. ReservationsMoveTogether(utxos)'
    BY DEF Calm, Lapses
  <2>2. ASSUME NEW o \in Outpoints, NamesReservation(utxos'[o])
        PROVE  o \in Pool(utxos'[o].quote) /\ quoted'[utxos'[o].quote] = "reserved"
    <3>1. utxos'[o].quote = utxos[o].quote /\ NamesReservation(utxos[o])
      BY <2>2, CalmRows
    <3>2. utxos[o].quote \in Quotes /\ quoted[utxos[o].quote] = "reserved" /\ o \in Pool(utxos[o].quote)
      BY <3>1 DEF TypeOK, UtxosSound, Inventories, Status, NamesReservation, Absent, Available, Invalid
    <3> QED
      BY <3>1, <3>2 DEF Calm
  <2> QED
    BY <2>1, <2>2 DEF UtxosSound
<1>2. BuiltSound'
  <2> SUFFICES ASSUME NEW t \in Txids, built'[t] # Unbuilt
               PROVE  built'[t].quote \in Quotes /\ quoted'[built'[t].quote] = "reserved"
    BY DEF BuiltSound
  <2>1. built'[t].quote \in Quotes /\ quoted[built'[t].quote] = "reserved"
    BY DEF BuiltSound, Calm
  <2> QED
    BY <2>1 DEF Calm
<1>3. OffersSound'
  <2> SUFFICES ASSUME NEW t \in offered, t \in Txids PROVE OfferSound(t)'
    BY DEF OffersSound, GivesSound, TypeOK
  <2>1. built[t] # Unbuilt /\ built'[t] = built[t] /\ built[t].quote \in Quotes
    BY BuiltStays DEF OffersSound, OfferSound, Spends, BuiltSound
  <2>2. Live(built[t].quote)' => HeldFor(utxos, built[t].quote)' = HeldFor(utxos, built[t].quote)
                                 /\ Live(built[t].quote)
    BY <2>1, LapsedOrSame
  <2> QED
    BY <2>1, <2>2 DEF OffersSound, OfferSound, Spends
<1>4. CommittedSound' /\ WrittenOffBySpender'
  <2> SUFFICES ASSUME NEW o \in Outpoints, utxos'[o].st \in {"PendingBitcoinConfirm", "Spent"}
               PROVE  /\ utxos'[o].st = "PendingBitcoinConfirm" => built'[utxos'[o].tx].quote = utxos'[o].quote
                      /\ utxos'[o].st = "Spent" => ~Live(built[utxos[o].tx].quote)'
                      /\ chain'[utxos'[o].tx] # "unseen"
                      /\ o \in built'[utxos'[o].tx].ins
    BY DEF CommittedSound, WrittenOffBySpender
  <2> DEFINE t == utxos[o].tx
  <2>1. utxos'[o] = utxos[o]
    BY CalmRows
  <2>2. t \in Txids
    BY <2>1 DEF TypeOK, Inventories, Status, Absent, Available, Invalid
  <2>3. chain[t] # "unseen" /\ o \in built[t].ins
    BY <2>1 DEF WrittenOffBySpender
  <2>4. built'[t] = built[t] /\ built[t].quote \in Quotes
    BY <2>2, <2>3, BuiltStays DEF Unbuilt, BuiltSound
  <2>5. ASSUME NEW q \in Quotes, q = built[t].quote, utxos[o].st = "Spent" PROVE ~Live(q)'
    <3>1. ~Live(q)
      BY <2>5 DEF CommittedSound
    <3> QED
      BY <3>1, LapsedOrSame
  <2>6. utxos'[o].st = "Spent" => ~Live(built[utxos[o].tx].quote)'
    BY <2>1, <2>4, <2>5
  <2> QED
    BY <2>1, <2>2, <2>3, <2>4, <2>6 DEF CommittedSound, Calm
<1>5. LiveUnrecorded' /\ SellConsignmentAnchored'
  BY LapsedOrSame DEF LiveUnrecorded, SellConsignmentAnchored, Calm
<1>6. FillOwnsInputs'
  <2> SUFFICES ASSUME NEW q \in Quotes, fills[q] # NoTx
               PROVE  /\ built'[fills[q]].quote = q
                      /\ \A o \in built'[fills[q]].ins :
                           utxos'[o] \in {PendingConfirm(q, fills[q]), Spent(fills[q])}
    BY DEF FillOwnsInputs, Calm
  <2>1. fills[q] \in Txids /\ built[fills[q]].quote = q
    BY DEF TypeOK, FillOwnsInputs
  <2>2. built'[fills[q]] = built[fills[q]] /\ built[fills[q]].ins \subseteq Outpoints
    BY <2>1, BuiltStays, MakerAssumption DEF Unbuilt, TypeOK, BuiltType
  <2> QED
    BY <2>1, <2>2, CalmRows DEF FillOwnsInputs, PendingConfirm, Spent
<1> QED
  BY <1>1, <1>2, <1>3, <1>4, <1>5, <1>6

\* A call that stays where it is, or ends.
Resumes(j, k) ==
  \/ k.pc = "idle"
  \/ k.pc = j.pc /\ k.quote = j.quote /\ k.tx = j.tx /\ k.entry = j.entry /\ k.rows = j.rows

\* What a call that waits relies on, when another commits something or records it: its
\* own quote is asked for or answered as before, its reservation is over the same rows
\* or gone, and rows that are committed stay so, or are spent.
Undisturbed(q) ==
  /\ quoted'[q] = quoted[q]
  /\ HeldFor(utxos, q)' = HeldFor(utxos, q) \/ ~Live(q)'

Steady ==
  /\ \A o \in Outpoints :
       utxos[o].st \in {"PendingBitcoinConfirm", "Spent"} => utxos'[o] \in {utxos[o], Spent(utxos[o].tx)}
  /\ \A t \in Txids : built[t] # Unbuilt => built'[t] = built[t]
  /\ offered \subseteq offered'
  /\ \A t \in Txids : chain[t] # "unseen" => chain'[t] # "unseen"

\* A call that waits is as sound as it was.
LEMMA WaitingStaysSound ==
  ASSUME TypeOK, StoresSound, Steady,
         NEW j \in CallType, NEW k, CallSound(j), Resumes(j, k),
         k.pc # "idle" => Undisturbed(k.quote),
         k.pc \in Recording => fills'[k.quote] = fills[k.quote]
  PROVE  CallSound(k)'
<1>1. CASE k.pc = "idle"
  BY <1>1 DEF CallSound, Signing, Recording, Quoting
<1>2. CASE k.pc # "idle"
  <2>1. k.pc = j.pc /\ k.quote = j.quote /\ k.tx = j.tx /\ k.entry = j.entry /\ k.rows = j.rows
    BY <1>2 DEF Resumes
  <2>2. Undisturbed(k.quote) /\ CallSound(k)
    BY <1>2, <2>1 DEF CallSound, Spends, Owned
  <2>3. Live(k.quote)' => Live(k.quote) /\ HeldFor(utxos, k.quote)' = HeldFor(utxos, k.quote)
    BY <2>2 DEF Undisturbed, Live
  <2>4. k.tx \in Txids /\ built[k.tx] # Unbuilt => built'[k.tx] = built[k.tx]
    BY DEF Steady
  <2>5. k.pc \in Signing => k.tx \in Txids /\ k.tx \in offered' /\ built[k.tx] # Unbuilt
    BY <2>2 DEF CallSound, StoresSound, OffersSound, OfferSound, Spends, Steady, TypeOK
  <2>6. k.tx \in Txids /\ Spends(k.tx, k.quote) => Spends(k.tx, k.quote)'
    BY <2>3, <2>4 DEF Spends
  <2>7. k.pc \in Recording => Owned(k.tx, k.quote)'
    <3> SUFFICES ASSUME k.pc \in Recording PROVE Owned(k.tx, k.quote)'
      OBVIOUS
    <3>1. built'[k.tx] = built[k.tx] /\ Owned(k.tx, k.quote) /\ built[k.tx].ins \subseteq Outpoints
      BY <2>2, <2>4, <2>5 DEF CallSound, Signing, TypeOK, BuiltType
    <3> QED
      BY <3>1 DEF Owned, Steady, PendingConfirm, Spent
  <2>8. /\ k.quote \in Quotes
        /\ quoted'[k.quote] = IF k.pc \in Quoting THEN "asked" ELSE "reserved"
    BY <1>2, <2>2 DEF CallSound, Undisturbed
  <2>9. /\ k.pc = "recordPsbt" \/ (k.pc = "park" /\ IsBuy(k.quote)) => built'[k.tx].ins # {}
        /\ k.pc \in Signing => built'[k.tx].quote = k.quote
        /\ k.pc = "markPending" => chain'[k.tx] # "unseen"
    BY <2>2, <2>4, <2>5 DEF CallSound, Steady, Signing, Spends
  <2>10. k.pc \in Recording => ~Live(k.quote)' /\ fills'[k.quote] = NoTx
    BY <2>2, <2>3 DEF CallSound
  <2>11. k.pc \in {"buildBuy", "planRungs", "buildSell"} /\ Live(k.quote)' =>
           k.rows = HeldFor(utxos, k.quote)'
    BY <2>2, <2>3 DEF CallSound
  <2>12. k.pc \in {"extendDeliver", "recordPsbt"}
         \/ (k.pc \in {"extendAccept", "park"} /\ IsBuy(k.quote)) =>
           k.tx \in Txids /\ Spends(k.tx, k.quote)'
    BY <2>2, <2>6 DEF CallSound
  <2>13. /\ k.pc = "reserve" => k.rows \in Covering[k.quote]
         /\ k.pc \in {"acceptRows", "buildBuy"} => IsBuy(k.quote)
         /\ k.pc \in Signing \ {"sign"} => k.entry \in Txids
         /\ k.pc \in {"broadcast", "markPending", "saveConsignment"} /\ ~IsBuy(k.quote) =>
              k.entry = k.tx
    BY <2>2 DEF CallSound
  <2> QED
    BY <1>2, <2>5, <2>7, <2>8, <2>9, <2>10, <2>11, <2>12, <2>13 DEF CallSound, IsBuy
<1> QED
  BY <1>1, <1>2

\* A step that lets no call into a group it was not in keeps the calls of one quote
\* apart.
LEMMA StaysExclusive ==
  ASSUME Exclusive,
         \A d \in Calls :
           /\ calls'[d].pc \in Quoting =>
                calls[d].pc \in Quoting /\ calls'[d].quote = calls[d].quote
           /\ calls'[d].pc \in Recording =>
                calls[d].pc \in Recording /\ calls'[d].quote = calls[d].quote
  PROVE  Exclusive'
BY DEF Exclusive, Quote

\* A calm step disturbs no waiting call, and leaves everything steady.
LEMMA CalmIsSteady ==
  ASSUME TypeOK, StoresSound, Calm
  PROVE  /\ Steady
         /\ \A q \in Quotes : quoted[q] # "fresh" => Undisturbed(q)
<1>1. \A t \in Txids : built[t] # Unbuilt => built'[t] = built[t]
  BY BuiltStays
<1>2. \A q \in Quotes : HeldFor(utxos, q)' = HeldFor(utxos, q) \/ ~Live(q)'
  BY LapsedOrSame
<1>3. \A o \in Outpoints :
        utxos[o].st \in {"PendingBitcoinConfirm", "Spent"} => utxos'[o] = utxos[o]
  BY CalmRows
<1> QED
  BY <1>1, <1>2, <1>3 DEF Steady, Undisturbed, Calm

\* A calm step in which every call waits, ends or arrives where it is sound keeps the
\* invariant.
LEMMA CalmStep ==
  ASSUME IInv, TypeOK', Calm, GivesSound, Exclusive',
         \A d \in Calls : Resumes(calls[d], calls'[d]) \/ CallSound(calls[d])'
  PROVE  IInv' /\ Calm
<1>1. StoresSound'
  BY CalmKeepsStores DEF IInv
<1>2. ASSUME NEW d \in Calls, Resumes(calls[d], calls'[d]) PROVE CallSound(calls[d])'
  <2>1. PICK j, k : j = calls[d] /\ k = calls'[d]
    OBVIOUS
  <2>2. j \in CallType /\ CallSound(j) /\ Resumes(j, k) /\ Steady
    BY <1>2, <2>1, CalmIsSteady DEF IInv, TypeOK, CallsSound
  <2>3. k.pc # "idle" => Undisturbed(k.quote)
    BY <2>2, CalmIsSteady DEF IInv, Resumes, CallSound
  <2>4. fills' = fills
    BY DEF Calm
  <2>5. CallSound(k)'
    BY <2>2, <2>3, <2>4, WaitingStaysSound DEF IInv
  <2> QED
    BY <2>1, <2>5
<1> QED
  BY <1>1, <1>2 DEF IInv, CallsSound

-----------------------------------------------------------------------------
(***************************************************************************)
(* The shapes of a handler's step                                          *)
(***************************************************************************)

\* Moving on changes the position alone.
LEMMA GotoFields ==
  ASSUME TypeOK, NEW c \in Calls, NEW pc \in PcType, Goto(c, pc)
  PROVE  /\ calls' \in [Calls -> CallType]
         /\ calls'[c].pc = pc /\ calls'[c].quote = calls[c].quote
         /\ calls'[c].tx = calls[c].tx /\ calls'[c].entry = calls[c].entry
         /\ calls'[c].rows = calls[c].rows
         /\ \A d \in Calls \ {c} : calls'[d] = calls[d]
<1>1. calls[c] \in CallType /\ calls'[c] = [calls[c] EXCEPT !.pc = pc]
  BY DEF TypeOK, Goto
<1>2. calls'[c] \in CallType
  BY <1>1 DEF CallType
<1> QED
  BY <1>1, <1>2 DEF TypeOK, Goto, CallType

\* Returning frees the slot.
LEMMA ReturnFields ==
  ASSUME TypeOK, NEW c \in Calls, Return(c)
  PROVE  /\ calls' \in [Calls -> CallType]
         /\ calls'[c].pc = "idle"
         /\ \A d \in Calls \ {c} : calls'[d] = calls[d]
<1>1. Idle \in CallType /\ Idle.pc = "idle"
  BY DEF Idle, CallType, PcType, PendingType
<1> QED
  BY <1>1 DEF TypeOK, Return

\* A request that arrives holds nothing but its quote.
LEMMA ArriveFields ==
  ASSUME TypeOK, NEW c \in Calls, NEW q \in Quotes, NEW pc \in PcType, Arrive(c, q, pc)
  PROVE  /\ calls' \in [Calls -> CallType] /\ arrived' \in Nat
         /\ calls'[c].pc = pc /\ calls'[c].quote = q
         /\ \A d \in Calls \ {c} : calls'[d] = calls[d]
<1>1. Idle \in CallType
  BY DEF Idle, CallType, PcType, PendingType
<1> DEFINE k == [Idle EXCEPT !.pc = pc, !.quote = q]
<1>2. k \in CallType /\ k.pc = pc /\ k.quote = q
  BY <1>1 DEF CallType
<1>3. calls' = [calls EXCEPT ![c] = k]
  BY DEF Arrive
<1> HIDE DEF k
<1> QED
  BY <1>2, <1>3 DEF TypeOK, Arrive

\* A calm step of one call, which records nothing.
LEMMA CallStep ==
  ASSUME IInv, TypeOK', Calm, GivesSound, NEW c \in Calls,
         \A d \in Calls \ {c} : calls'[d] = calls[d],
         calls'[c].pc # "idle" => CallSound(calls[c])',
         calls'[c].pc \notin Recording,
         calls'[c].pc \in Quoting =>
           calls[c].pc \in Quoting /\ calls'[c].quote = calls[c].quote
  PROVE  IInv' /\ Calm
<1>1. Exclusive'
  BY StaysExclusive DEF IInv
<1>2. \A d \in Calls : Resumes(calls[d], calls'[d]) \/ CallSound(calls[d])'
  BY DEF Resumes
<1> QED
  BY <1>1, <1>2, CalmStep

\* A step that writes nothing shared.
LEMMA LocalStep ==
  ASSUME IInv, OnlyCallsChange, calls' \in [Calls -> CallType], NEW c \in Calls,
         \A d \in Calls \ {c} : calls'[d] = calls[d],
         calls'[c].pc # "idle" => CallSound(calls'[c]),
         calls'[c].pc \notin Recording,
         calls'[c].pc \in Quoting =>
           calls[c].pc \in Quoting /\ calls'[c].quote = calls[c].quote
  PROVE  IInv' /\ Calm
<1>1. Calm
  BY StutterLapses DEF IInv, TypeOK, StoresSound, UtxosSound, Calm, OnlyCallsChange
<1>2. TypeOK' /\ GivesSound
  BY DEF IInv, TypeOK, OnlyCallsChange, HandlerVars, GivesSound
<1>3. calls'[c].pc # "idle" => CallSound(calls[c])'
  BY DEF OnlyCallsChange, CallSound, Spends, Owned, Live
<1> QED
  BY <1>1, <1>2, <1>3, CallStep

-----------------------------------------------------------------------------
(***************************************************************************)
(* The handlers                                                            *)
(***************************************************************************)

\* request_quote chooses, declines or is contended without writing anything.
LEMMA QuotingKeepsIInv ==
  ASSUME IInv, NEW c \in Calls, SelectCoins(c) \/ DeclineQuote(c) \/ ReserveContended(c)
  PROVE  IInv' /\ Calm
<1> USE DEF IInv
<1>1. calls[c] \in CallType /\ CallSound(calls[c]) /\ OnlyCallsChange
  BY DEF TypeOK, CallsSound, SelectCoins, DeclineQuote, ReserveContended
<1>2. CASE Return(c)
  BY <1>1, <1>2, ReturnFields, LocalStep DEF Recording, Quoting
<1>3. CASE SelectCoins(c)
  <2>1. PICK S \in Candidates(c) :
          calls' = [calls EXCEPT ![c].pc = "reserve", ![c].rows = S, ![c].attempts = @ + 1]
    BY <1>3 DEF SelectCoins
  <2>2. S \in Covering[Quote(c)] /\ Quote(c) \in Quotes /\ quoted[Quote(c)] = "asked"
    BY <1>1, <1>3 DEF Candidates, SelectCoins, CallSound, At, Quote, Quoting
  <2>3. S \in SUBSET Outpoints
    BY <2>2, MakerAssumption DEF Pool
  <2> DEFINE k == [calls[c] EXCEPT !.pc = "reserve", !.rows = S, !.attempts = @ + 1]
  <2>4. k \in CallType /\ k.pc = "reserve" /\ k.rows = S /\ k.quote = calls[c].quote
    <3>1. calls[c].attempts + 1 \in Nat /\ "reserve" \in PcType
      BY <1>1 DEF CallType, PcType
    <3> QED
      BY <1>1, <2>3, <3>1 DEF CallType
  <2>5. calls' = [calls EXCEPT ![c] = k]
    BY <2>1, <1>1 DEF TypeOK, CallType
  <2> HIDE DEF k
  <2>6. /\ calls' \in [Calls -> CallType] /\ calls'[c] = k
        /\ \A d \in Calls \ {c} : calls'[d] = calls[d]
    BY <2>4, <2>5 DEF TypeOK
  <2>7. CallSound(k)
    BY <2>2, <2>4 DEF CallSound, Quoting, Signing, Recording, Quote
  <2> QED
    BY <1>1, <1>3, <2>4, <2>6, <2>7, LocalStep DEF Recording, Quoting, SelectCoins, At
<1>4. CASE ReserveContended(c) /\ ~Return(c)
  <2>1. calls' = [calls EXCEPT ![c].pc = "select", ![c].rows = {},
                               ![c].excluded = @ \cup calls[c].rows]
    BY <1>4 DEF ReserveContended
  <2> DEFINE k == [calls[c] EXCEPT !.pc = "select", !.rows = {},
                                   !.excluded = @ \cup calls[c].rows]
  <2>4. k \in CallType /\ k.pc = "select" /\ k.quote = calls[c].quote
    BY <1>1 DEF CallType, PcType
  <2>5. calls' = [calls EXCEPT ![c] = k]
    BY <2>1, <1>1 DEF TypeOK, CallType
  <2> HIDE DEF k
  <2>6. /\ calls' \in [Calls -> CallType] /\ calls'[c] = k
        /\ \A d \in Calls \ {c} : calls'[d] = calls[d]
    BY <2>4, <2>5 DEF TypeOK
  <2>7. CallSound(k)
    BY <1>1, <1>4, <2>4 DEF CallSound, Quoting, Signing, Recording, Quote, At, ReserveContended
  <2> QED
    BY <1>1, <1>4, <2>4, <2>6, <2>7, LocalStep DEF Recording, Quoting, ReserveContended, At
<1> QED
  BY <1>2, <1>3, <1>4 DEF DeclineQuote

\* A handler returns, or moves on to a position where nothing more is relied on.
LEMMA GotoKeepsIInv ==
  ASSUME IInv, OnlyCallsChange, NEW c \in Calls, calls[c].pc \notin {"idle"} \cup Quoting,
         NEW pc \in PcType, Goto(c, pc),
         \/ pc \in {"deliverFind", "deliverRows", "release", "releaseAndDrop", "drop"}
         \/ pc = "acceptRows" /\ IsBuy(calls[c].quote)
         \/ pc = "extendAccept" /\ ~IsBuy(calls[c].quote)
         \/ pc = "finalize" /\ calls[c].pc = "signFind"
         \/ pc = "broadcast" /\ Finalize(c)
  PROVE  IInv' /\ Calm
<1> USE DEF IInv
<1> DEFINE k == calls'[c]
<1>1. calls[c] \in CallType /\ CallSound(calls[c])
  BY DEF TypeOK, CallsSound
<1>2. /\ calls' \in [Calls -> CallType]
      /\ k.pc = pc /\ k.quote = calls[c].quote /\ k.tx = calls[c].tx
      /\ k.entry = calls[c].entry
      /\ \A d \in Calls \ {c} : calls'[d] = calls[d]
  BY GotoFields
<1>3. calls[c].quote \in Quotes /\ quoted[calls[c].quote] = "reserved"
  BY <1>1 DEF CallSound
<1>4. pc \notin Recording /\ pc \notin Quoting
  BY DEF Recording, Quoting
<1> HIDE DEF k
<1>5. CASE pc \notin {"finalize", "broadcast", "extendAccept"}
  <2>1. CallSound(k)
    BY <1>2, <1>3, <1>5 DEF CallSound, Quoting, Signing, Recording
  <2> QED
    BY <1>2, <1>4, <2>1, LocalStep DEF k
<1>6. CASE pc = "extendAccept"
  <2>1. CallSound(k)
    BY <1>2, <1>3, <1>6 DEF CallSound, Quoting, Signing, Recording, Finalize, At
  <2> QED
    BY <1>2, <1>4, <2>1, LocalStep DEF k
<1>7. CASE pc = "finalize"
  <2>1. CallSound(k)
    BY <1>1, <1>2, <1>3, <1>7 DEF CallSound, Quoting, Signing, Recording
  <2> QED
    BY <1>2, <1>4, <2>1, LocalStep DEF k
<1>8. CASE pc = "broadcast"
  <2>1. Finalize(c)
    BY <1>8
  <2>2. CallSound(k)
    BY <1>1, <1>2, <1>3, <1>8, <2>1 DEF CallSound, Quoting, Signing, Recording, Finalize, At,
       VerifySigned, IsBuy, Quote
  <2> QED
    BY <1>2, <1>4, <2>2, LocalStep DEF k
<1> QED
  BY <1>5, <1>6, <1>7, <1>8

\* A handler returns.
LEMMA ReturnKeepsIInv ==
  ASSUME IInv, OnlyCallsChange, NEW c \in Calls, Return(c)
  PROVE  IInv' /\ Calm
BY ReturnFields, LocalStep DEF IInv, Recording, Quoting

\* The reservation is found, or is not; the pending entry is there, or is not.
LEMMA FindingKeepsIInv ==
  ASSUME IInv, NEW c \in Calls,
         \/ FindForAccept(c) \/ ReadForDeliver(c) \/ FindForDeliver(c) \/ FindForSign(c)
         \/ AcceptFails(c) \/ DeliverFails(c) \/ FinalizeFails(c) \/ BroadcastRefused(c)
         \/ Finalize(c)
  PROVE  IInv' /\ Calm
<1> USE DEF FindForAccept, ReadForDeliver, FindForDeliver, FindForSign, FindLive, AcceptFails,
            DeliverFails, FinalizeFails, BroadcastRefused, Finalize, At
<1>1. OnlyCallsChange
  OBVIOUS
<1>2. calls[c].pc \notin {"idle"} \cup Quoting
  BY DEF Quoting
<1>3. CASE Return(c)
  BY <1>1, <1>3, ReturnKeepsIInv
<1>4. CASE AcceptFails(c) \/ DeliverFails(c) \/ FinalizeFails(c) \/ BroadcastRefused(c)
  <2>1. \E pc \in {"release", "releaseAndDrop"} : Goto(c, pc)
    BY <1>4
  <2> QED
    BY <1>1, <1>2, <2>1, GotoKeepsIInv DEF PcType
<1>5. CASE Finalize(c)
  <2>1. Goto(c, "broadcast")
    BY <1>5
  <2> QED
    BY <1>1, <1>2, <1>5, <2>1, GotoKeepsIInv DEF PcType
<1>6. CASE FindForSign(c)
  <2>1. calls[c].pc = "signFind" /\ \E pc \in {"finalize", "drop"} : Goto(c, pc)
    BY <1>6
  <2> QED
    BY <1>1, <1>2, <2>1, GotoKeepsIInv DEF PcType
<1>7. CASE FindForDeliver(c) \/ (ReadForDeliver(c) /\ ~Return(c))
  <2>1. \E pc \in {"deliverFind", "deliverRows", "drop"} : Goto(c, pc)
    BY <1>7
  <2> QED
    BY <1>1, <1>2, <2>1, GotoKeepsIInv DEF PcType
<1>8. CASE FindForAccept(c) /\ ~Return(c)
  <2>1. \/ Goto(c, "acceptRows") /\ IsBuy(calls[c].quote)
        \/ Goto(c, "extendAccept") /\ ~IsBuy(calls[c].quote)
    BY <1>8 DEF Quote
  <2> QED
    BY <1>1, <1>2, <2>1, GotoKeepsIInv DEF PcType
<1> QED
  BY <1>3, <1>4, <1>5, <1>6, <1>7, <1>8

\* The rows of the reservation are listed: all of them, or none if it lapsed.
LEMMA ListingKeepsIInv ==
  ASSUME IInv, NEW c \in Calls, ListForAccept(c) \/ ListForDeliver(c)
  PROVE  IInv' /\ Calm
<1> USE DEF IInv
<1>1. calls[c] \in CallType /\ CallSound(calls[c]) /\ OnlyCallsChange
  BY DEF TypeOK, CallsSound, ListForAccept, ListForDeliver, ListReserved
<1>2. PICK to \in {"buildBuy", "planRungs"} :
        /\ calls' = [calls EXCEPT ![c].pc = to, ![c].rows = HeldFor(utxos, Quote(c))]
        /\ calls[c].pc = IF to = "buildBuy" THEN "acceptRows" ELSE "deliverRows"
  BY DEF ListForAccept, ListForDeliver, ListReserved, At
<1> DEFINE k == [calls[c] EXCEPT !.pc = to, !.rows = HeldFor(utxos, Quote(c))]
<1>3. HeldFor(utxos, Quote(c)) \in SUBSET Outpoints
  BY DEF HeldFor
<1>4. /\ k \in CallType /\ k.pc = to /\ k.quote = calls[c].quote
      /\ k.rows = HeldFor(utxos, Quote(c))
  BY <1>1, <1>3 DEF CallType, PcType
<1>5. calls' = [calls EXCEPT ![c] = k]
  BY <1>2, <1>1 DEF TypeOK, CallType
<1> HIDE DEF k
<1>6. /\ calls' \in [Calls -> CallType] /\ calls'[c] = k
      /\ \A d \in Calls \ {c} : calls'[d] = calls[d]
  BY <1>4, <1>5 DEF TypeOK
<1>7. to = "buildBuy" => IsBuy(k.quote)
  BY <1>1, <1>2, <1>4 DEF CallSound
<1>8. CallSound(k)
  BY <1>1, <1>2, <1>4, <1>7 DEF CallSound, Quoting, Signing, Recording, Quote
<1> QED
  BY <1>1, <1>4, <1>6, <1>8, LocalStep DEF Recording, Quoting

\* The pending entry is cloned, or is missing.
LEMMA ReadForSignKeepsIInv ==
  ASSUME IInv, NEW c \in Calls, ReadForSign(c)
  PROVE  IInv' /\ Calm
<1> USE DEF IInv
<1>1. calls[c] \in CallType /\ CallSound(calls[c]) /\ OnlyCallsChange /\ calls[c].pc = "sign"
  BY DEF TypeOK, CallsSound, ReadForSign, At
<1>2. CASE Return(c)
  BY <1>1, <1>2, ReturnKeepsIInv
<1>3. CASE ~Return(c)
  <2> DEFINE entry == pending[Quote(c)]
             k == [calls[c] EXCEPT !.pc = "signFind", !.entry = entry]
  <2>1. calls[c].quote \in Quotes
    BY <1>1 DEF CallSound
  <2>2. entry \in Txids
    BY <1>3, <2>1 DEF ReadForSign, TypeOK, PendingType, Quote
  <2>3. k \in CallType /\ k.pc = "signFind" /\ k.quote = calls[c].quote
        /\ k.tx = calls[c].tx /\ k.entry \in Txids
    BY <1>1, <2>2 DEF CallType, PcType, PendingType
  <2>4. calls' = [calls EXCEPT ![c] = k]
    BY <1>3, <1>1 DEF TypeOK, CallType, ReadForSign
  <2> HIDE DEF k, entry
  <2>5. /\ calls' \in [Calls -> CallType] /\ calls'[c] = k
        /\ \A d \in Calls \ {c} : calls'[d] = calls[d]
    BY <2>3, <2>4 DEF TypeOK
  <2>6. CallSound(k)
    BY <1>1, <2>3 DEF CallSound, Quoting, Signing, Recording, Quote
  <2> QED
    BY <1>1, <2>3, <2>5, <2>6, LocalStep DEF Recording, Quoting
<1> QED
  BY <1>2, <1>3

\* Each pool holds whole reservations, so an expiry of one pool, or of both, frees
\* whole reservations.
LEMMA ExpiryLapses ==
  ASSUME TypeOK, UtxosSound, NEW q \in Quotes,
         NEW pool \in {Outpoints, Pool(q), Outpoints \ RgbOutpoints}
  PROVE  Lapses(utxos, ReleaseExpired(utxos, pool))
<1>1. pool \in SUBSET Outpoints
  BY MakerAssumption DEF Pool
<1>2. ASSUME NEW o \in Outpoints, NEW p \in Outpoints,
             utxos[o].st = "Reserved", utxos[p].st = "Reserved",
             utxos[o].quote = utxos[p].quote
      PROVE  o \in pool <=> p \in pool
  BY <1>2, MakerAssumption DEF UtxosSound, Pool, NamesReservation
<1> QED
  BY <1>1, <1>2, ExpireLapses DEF TypeOK, UtxosSound

\* A request for a fresh quote: nobody else works on it.
LEMMA RequestQuoteKeepsIInv ==
  ASSUME IInv, NEW c \in Calls, NEW q \in Quotes, RequestQuote(c, q)
  PROVE  IInv' /\ Calm
<1> USE DEF IInv
<1> DEFINE k == [Idle EXCEPT !.pc = "select", !.quote = q, !.left = QuoteTtl]
<1>1. k \in CallType /\ k.pc = "select" /\ k.quote = q
  <2>1. QuoteTtl \in Nat /\ Idle \in CallType
    BY MakerAssumption DEF Idle, CallType, PcType, PendingType
  <2> QED
    BY <2>1 DEF CallType, PcType
<1>2. calls' = [calls EXCEPT ![c] = k]
  BY DEF RequestQuote
<1> HIDE DEF k
<1>3. /\ calls' \in [Calls -> CallType] /\ calls'[c] = k
      /\ \A d \in Calls \ {c} : calls'[d] = calls[d]
  BY <1>1, <1>2 DEF TypeOK
<1>4. Lapses(utxos, utxos')
  BY ExpiryLapses DEF RequestQuote, StoresSound
<1>5. TypeOK'
  BY <1>3, <1>4 DEF TypeOK, RequestQuote, HandlerVars, Lapses
<1>6. Calm /\ GivesSound
  BY <1>4 DEF TypeOK, Calm, GivesSound, RequestQuote
<1>7. CallSound(calls[c])'
  BY <1>1, <1>3 DEF CallSound, Quoting, Signing, Recording, RequestQuote, TypeOK
<1>8. \A d \in Calls \ {c} : calls[d].pc # "idle" => Quote(d) # q
  BY DEF CallsSound, CallSound, RequestQuote, Quote
<1>9. Exclusive'
  BY <1>1, <1>3, <1>8 DEF Exclusive, Quote, Quoting, Recording
<1> QED
  BY <1>3, <1>5, <1>6, <1>7, <1>9, CalmStep DEF Resumes

\* A request on a quote that was answered.
LEMMA LaterRequestsKeepIInv ==
  ASSUME IInv, NEW c \in Calls, NEW q \in Quotes, AcceptQuote(c, q) \/ DeliverConsignment(c, q)
  PROVE  IInv' /\ Calm
<1> USE DEF IInv
<1>1. PICK pc \in {"accept", "deliver"} : Arrive(c, q, pc)
  BY DEF AcceptQuote, DeliverConsignment
<1>2. /\ calls' \in [Calls -> CallType] /\ arrived' \in Nat
      /\ calls'[c].pc = pc /\ calls'[c].quote = q
      /\ \A d \in Calls \ {c} : calls'[d] = calls[d]
  BY <1>1, ArriveFields DEF PcType
<1>3. Lapses(utxos, utxos')
  BY ExpiryLapses DEF AcceptQuote, DeliverConsignment, StoresSound
<1>4. UNCHANGED <<quoted, pending, built, offered, chain, consignments, fills, HandlerVars>>
  BY DEF AcceptQuote, DeliverConsignment
<1>5. TypeOK'
  BY <1>2, <1>3, <1>4 DEF TypeOK, HandlerVars, Lapses
<1>6. Calm /\ GivesSound
  BY <1>3, <1>4 DEF Calm, GivesSound
<1>7. quoted'[q] = "reserved"
  BY <1>4 DEF AcceptQuote, DeliverConsignment
<1>8. CallSound(calls[c])'
  BY <1>2, <1>7 DEF CallSound, Quoting, Signing, Recording
<1> QED
  BY <1>2, <1>5, <1>6, <1>8, CallStep DEF Recording, Quoting

\* A taker signs what it was given.
LEMMA SubmitKeepsIInv ==
  ASSUME IInv, NEW c \in Calls, NEW q \in Quotes, SubmitSignedPsbt(c, q)
  PROVE  IInv' /\ Calm
<1> USE DEF IInv
<1>1. PICK t \in offered :
        /\ built[t].quote = q
        /\ calls' = [calls EXCEPT ![c] = [Idle EXCEPT !.pc = "sign", !.quote = q, !.tx = t]]
  BY DEF SubmitSignedPsbt
<1> DEFINE k == [Idle EXCEPT !.pc = "sign", !.quote = q, !.tx = t]
<1>2. k \in CallType /\ k.pc = "sign" /\ k.quote = q /\ k.tx = t
  <2>1. Idle \in CallType /\ t \in Txids
    BY DEF Idle, CallType, PcType, PendingType, TypeOK
  <2> QED
    BY <2>1 DEF CallType, PcType
<1>3. calls' = [calls EXCEPT ![c] = k]
  BY <1>1
<1> HIDE DEF k
<1>4. /\ calls' \in [Calls -> CallType] /\ calls'[c] = k
      /\ \A d \in Calls \ {c} : calls'[d] = calls[d]
  BY <1>2, <1>3 DEF TypeOK
<1>5. Lapses(utxos, utxos')
  BY ExpiryLapses DEF SubmitSignedPsbt, StoresSound
<1>6. TypeOK'
  BY <1>4, <1>5 DEF TypeOK, SubmitSignedPsbt, HandlerVars, Lapses
<1>7. Calm /\ GivesSound
  BY <1>5 DEF Calm, GivesSound, SubmitSignedPsbt
<1>8. quoted[q] = "reserved" /\ built'[t].quote = q /\ t \in offered' /\ quoted' = quoted
  BY <1>1 DEF StoresSound, BuiltSound, OffersSound, OfferSound, Spends, SubmitSignedPsbt, TypeOK
<1>9. CallSound(calls[c])'
  BY <1>2, <1>4, <1>8 DEF CallSound, Quoting, Signing, Recording
<1> QED
  BY <1>2, <1>4, <1>6, <1>7, <1>9, CallStep DEF Recording, Quoting

\* A new transaction over the rows that were listed.
LEMMA BuildKeepsIInv ==
  ASSUME IInv, NEW c \in Calls, BuildBuyPsbt(c) \/ BuildSellPsbt(c)
  PROVE  IInv' /\ Calm
<1> USE DEF IInv
<1>1. calls[c] \in CallType /\ CallSound(calls[c])
  BY DEF TypeOK, CallsSound
<1>2. PICK to \in {"extendAccept", "extendDeliver"} :
        BuildPsbt(c, IF to = "extendAccept" THEN "buildBuy" ELSE "buildSell", to)
  BY DEF BuildBuyPsbt, BuildSellPsbt
<1>3. PICK t \in Txids :
        /\ built[t] = Unbuilt
        /\ built' = [built EXCEPT ![t] = [quote |-> Quote(c), ins |-> calls[c].rows]]
        /\ calls' = [calls EXCEPT ![c].pc = to, ![c].tx = t]
  BY <1>2 DEF BuildPsbt
<1>4. UNCHANGED <<utxos, quoted, pending, offered, chain, consignments, fills, arrived, HandlerVars>>
  BY <1>2 DEF BuildPsbt
<1>5. PICK q \in Quotes :
        /\ q = calls[c].quote /\ quoted[q] = "reserved"
        /\ Live(q) => calls[c].rows = HeldFor(utxos, q)
        /\ to = "extendAccept" => IsBuy(q)
        /\ calls[c].pc \in {"buildBuy", "buildSell"}
  BY <1>1, <1>2 DEF CallSound, BuildPsbt, At, Quoting
<1> DEFINE k == [calls[c] EXCEPT !.pc = to, !.tx = t]
<1>6. k \in CallType /\ k.pc = to /\ k.quote = q /\ k.tx = t
  BY <1>1, <1>5 DEF CallType, PcType
<1>7. calls' = [calls EXCEPT ![c] = k]
  BY <1>1, <1>3 DEF TypeOK, CallType
<1> HIDE DEF k
<1>8. /\ calls' \in [Calls -> CallType] /\ calls'[c] = k
      /\ \A d \in Calls \ {c} : calls'[d] = calls[d]
  BY <1>6, <1>7 DEF TypeOK
<1>9. /\ built' \in [Txids -> BuiltType]
      /\ built'[t].quote = q /\ built'[t].ins = calls[c].rows
      /\ \A u \in Txids \ {t} : built'[u] = built[u]
  <2>1. [quote |-> Quote(c), ins |-> calls[c].rows] \in BuiltType
    BY <1>1, <1>5 DEF BuiltType, CallType, Quote
  <2> QED
    BY <1>3, <1>5, <2>1 DEF TypeOK, Quote
<1>10. TypeOK'
  BY <1>4, <1>8, <1>9 DEF TypeOK, HandlerVars
<1>11. Lapses(utxos, utxos')
  BY <1>4, StutterLapses DEF TypeOK, StoresSound, UtxosSound
<1>12. Calm /\ GivesSound
  BY <1>3, <1>4, <1>5, <1>9, <1>11 DEF Calm, GivesSound
<1>13. built'[t] # Unbuilt
  BY <1>5, <1>9, MakerAssumption DEF Unbuilt
<1>14. Spends(t, q)'
  BY <1>4, <1>5, <1>9, <1>13 DEF Spends, Live
<1>15. CallSound(calls[c])'
  BY <1>4, <1>5, <1>6, <1>8, <1>14 DEF CallSound, Quoting, Signing, Recording
<1> QED
  BY <1>6, <1>8, <1>10, <1>12, <1>15, CallStep DEF Recording, Quoting

\* The reservation is extended over the rows it has, or is found to be gone.
LEMMA ExtendKeepsIInv ==
  ASSUME IInv, NEW c \in Calls, ExtendForAccept(c) \/ ExtendForDeliver(c)
  PROVE  IInv' /\ Calm
<1> USE DEF IInv
<1>1. calls[c] \in CallType /\ CallSound(calls[c])
  BY DEF TypeOK, CallsSound
<1>2. PICK to \in {"park", "recordPsbt"}, ttl \in Nat :
        Extend(c, IF to = "park" THEN "extendAccept" ELSE "extendDeliver", to, ttl)
  BY MakerAssumption DEF ExtendForAccept, ExtendForDeliver
<1>3. PICK q \in Quotes, t \in Txids \cup {NoTx} :
        q = calls[c].quote /\ t = calls[c].tx /\ quoted[q] = "reserved"
  <2>1. calls[c].tx \in Txids \cup {NoTx}
    BY <1>1 DEF CallType
  <2>2. calls[c].quote \in Quotes /\ quoted[calls[c].quote] = "reserved"
    BY <1>1, <1>2 DEF CallSound, Extend, At, Quoting
  <2> QED
    BY <2>1, <2>2
<1>4. Lapses(utxos, utxos')
  BY <1>2, <1>3, ExtendLapses DEF TypeOK, StoresSound, UtxosSound, Extend, Quote
<1>5. UNCHANGED <<quoted, pending, built, offered, chain, consignments, fills, arrived, HandlerVars>>
  BY <1>2 DEF Extend
<1>6. Calm /\ GivesSound
  BY <1>4, <1>5 DEF Calm, GivesSound
<1>7. /\ calls' \in [Calls -> CallType]
      /\ \A d \in Calls \ {c} : calls'[d] = calls[d]
      /\ \/ calls'[c].pc = "idle"
         \/ /\ calls'[c].pc = to /\ calls'[c].quote = q /\ calls'[c].tx = t
            /\ Live(q)
  BY <1>2, <1>3, GotoFields, ReturnFields DEF Extend, PcType, Quote
<1>8. TypeOK'
  BY <1>4, <1>5, <1>7 DEF TypeOK, HandlerVars, Lapses
<1>9. ASSUME calls'[c].pc # "idle" PROVE CallSound(calls[c])'
  <2>1. calls'[c].pc = to /\ calls'[c].quote = q /\ calls'[c].tx = t /\ Live(q)
    BY <1>7, <1>9
  <2>2. ASSUME to = "recordPsbt" \/ IsBuy(q)
        PROVE  t \in Txids /\ Spends(t, q)' /\ built'[t].ins # {}
    <3>1. t \in Txids /\ Spends(t, q)
      BY <1>1, <1>2, <1>3, <2>2 DEF CallSound, Extend, At
    <3>2. built' = built /\ built[t].ins = HeldFor(utxos, q) /\ built[t].ins # {}
      BY <1>5, <2>1, <3>1 DEF Spends, Live
    <3>3. Live(q)' => HeldFor(utxos, q)' = HeldFor(utxos, q)
      BY <1>3, <1>6, LapsedOrSame
    <3> QED
      BY <3>1, <3>2, <3>3 DEF Spends
  <2>3. quoted'[q] = "reserved" /\ q \in Quotes
    BY <1>3, <1>5
  <2> QED
    BY <2>1, <2>2, <2>3 DEF CallSound, Quoting, Signing, Recording, IsBuy
<1> QED
  BY <1>6, <1>7, <1>8, <1>9, CallStep DEF Recording, Quoting

\* The intent is answered; a buy intent, or the answer to a delivery, gives the taker a
\* transaction that spends what is reserved.
LEMMA AnswersKeepIInv ==
  ASSUME IInv, NEW c \in Calls, ParkPending(c) \/ RecordPsbt(c)
  PROVE  IInv' /\ Calm
<1> USE DEF IInv
<1>1. calls[c] \in CallType /\ CallSound(calls[c]) /\ calls[c].pc \in {"park", "recordPsbt"}
  BY DEF TypeOK, CallsSound, ParkPending, RecordPsbt, At
<1>2. /\ calls' \in [Calls -> CallType] /\ calls'[c].pc = "idle"
      /\ \A d \in Calls \ {c} : calls'[d] = calls[d]
  BY ReturnFields DEF ParkPending, RecordPsbt
<1>3. UNCHANGED <<utxos, quoted, built, chain, consignments, fills, arrived, HandlerVars>>
  BY DEF ParkPending, RecordPsbt
<1>4. offered' # offered =>
        /\ offered' = offered \cup {calls[c].tx}
        /\ calls[c].pc = "recordPsbt" \/ IsBuy(calls[c].quote)
  BY <1>1 DEF ParkPending, RecordPsbt, At, Quote
<1>5. offered' # offered => calls[c].tx \in Txids /\ OfferSound(calls[c].tx)
  BY <1>1, <1>4 DEF CallSound, OfferSound, Spends
<1>6. pending' \in [Quotes -> PendingType]
  <2>1. calls[c].tx \in Txids \/ (ParkPending(c) /\ ~IsBuy(Quote(c)))
    BY <1>1 DEF CallSound, ParkPending, RecordPsbt, At, Quote
  <2> QED
    BY <2>1 DEF ParkPending, RecordPsbt, TypeOK, PendingType
<1>7. TypeOK'
  BY <1>2, <1>3, <1>4, <1>5, <1>6 DEF TypeOK, HandlerVars
<1>8. Calm
  BY <1>3, <1>4, StutterLapses DEF TypeOK, StoresSound, UtxosSound, Calm
<1>9. GivesSound
  BY <1>3, <1>4, <1>5 DEF GivesSound, OfferSound, Spends, Live
<1> QED
  BY <1>2, <1>7, <1>8, <1>9, CallStep DEF Recording, Quoting

\* The ladder is planned, perhaps after an expiry that takes the reservation.
LEMMA PlanKeepsIInv ==
  ASSUME IInv, NEW c \in Calls, PlanChangeRungs(c)
  PROVE  IInv' /\ Calm
<1> USE DEF IInv
<1>1. calls[c] \in CallType /\ CallSound(calls[c]) /\ calls[c].pc = "planRungs"
  BY DEF TypeOK, CallsSound, PlanChangeRungs, At
<1>2. PICK q \in Quotes : q = calls[c].quote /\ quoted[q] = "reserved"
  BY <1>1 DEF CallSound, Quoting
<1>3. /\ calls' \in [Calls -> CallType]
      /\ calls'[c].pc = "buildSell" /\ calls'[c].quote = q
      /\ calls'[c].rows = calls[c].rows
      /\ \A d \in Calls \ {c} : calls'[d] = calls[d]
  BY <1>2, GotoFields DEF PlanChangeRungs, PcType
<1>4. Lapses(utxos, utxos')
  BY <1>2, ExpiryLapses, StutterLapses DEF PlanChangeRungs, StoresSound, UtxosSound, TypeOK
<1>5. UNCHANGED <<quoted, pending, built, offered, chain, consignments, fills, arrived, HandlerVars>>
  BY DEF PlanChangeRungs
<1>6. TypeOK' /\ Calm /\ GivesSound
  BY <1>3, <1>4, <1>5 DEF TypeOK, HandlerVars, Lapses, Calm, GivesSound
<1>7. Live(q)' => Live(q) /\ HeldFor(utxos, q)' = HeldFor(utxos, q)
  BY <1>6, LapsedOrSame
<1>8. Live(q)' => calls'[c].rows = HeldFor(utxos, q)'
  BY <1>1, <1>2, <1>3, <1>7 DEF CallSound
<1>9. CallSound(calls[c])'
  BY <1>2, <1>3, <1>5, <1>8 DEF CallSound, Quoting, Signing, Recording
<1> QED
  BY <1>3, <1>6, <1>9, CallStep DEF Recording, Quoting

\* The transaction reaches the network, whether or not the handler learns of it.
LEMMA BroadcastKeepsIInv ==
  ASSUME IInv, NEW c \in Calls, BroadcastAccepted(c) \/ BroadcastReplyLost(c)
  PROVE  IInv' /\ Calm
<1> USE DEF IInv
<1>1. calls[c] \in CallType /\ CallSound(calls[c]) /\ calls[c].pc = "broadcast"
  BY DEF TypeOK, CallsSound, BroadcastAccepted, BroadcastReplyLost, At
<1>2. PICK pc \in {"markPending", "releaseAndDrop"} : Goto(c, pc)
  BY DEF BroadcastAccepted, BroadcastReplyLost
<1>3. /\ calls' \in [Calls -> CallType]
      /\ calls'[c].pc = pc /\ calls'[c].quote = calls[c].quote
      /\ calls'[c].tx = calls[c].tx /\ calls'[c].entry = calls[c].entry
      /\ \A d \in Calls \ {c} : calls'[d] = calls[d]
  BY <1>2, GotoFields DEF PcType
<1>4. /\ chain' = [chain EXCEPT ![calls[c].tx] = "mempool"]
      /\ UNCHANGED <<utxos, quoted, pending, built, offered, consignments, fills, arrived,
                     stale, cleaning>>
      /\ faults' \in Nat
  BY DEF BroadcastAccepted, BroadcastReplyLost, Fault, HandlerVars, TypeOK
<1>5. TypeOK'
  BY <1>3, <1>4 DEF TypeOK, ChainType
<1>6. Calm /\ GivesSound
  BY <1>4, StutterLapses DEF Calm, GivesSound, TypeOK, StoresSound, UtxosSound
<1>7. calls[c].tx \in Txids /\ chain'[calls[c].tx] # "unseen"
  BY <1>1, <1>4 DEF CallSound, Signing, TypeOK
<1>8. CallSound(calls[c])'
  BY <1>1, <1>3, <1>4, <1>7 DEF CallSound, Quoting, Signing, Recording, IsBuy
<1> QED
  BY <1>3, <1>5, <1>6, <1>8, CallStep DEF Recording, Quoting

\* The entry is dropped, or the reservation given back.
LEMMA EndingsKeepIInv ==
  ASSUME IInv, NEW c \in Calls, DropEntry(c) \/ GiveBack(c)
  PROVE  IInv' /\ Calm
<1> USE DEF IInv
<1>1. CallSound(calls[c]) /\ calls[c].pc \in {"finish", "drop", "release", "releaseAndDrop"}
  BY DEF CallsSound, DropEntry, GiveBack, At
<1>2. calls[c].quote \in Quotes /\ quoted[calls[c].quote] = "reserved"
  BY <1>1 DEF CallSound, Quoting
<1>3. /\ calls' \in [Calls -> CallType]
      /\ \/ calls'[c].pc = "idle"
         \/ calls'[c].pc = "drop" /\ calls'[c].quote = calls[c].quote
      /\ \A d \in Calls \ {c} : calls'[d] = calls[d]
  BY GotoFields, ReturnFields DEF DropEntry, GiveBack, PcType
<1>4. Lapses(utxos, utxos')
  BY <1>2, ReleaseLapses, StutterLapses
     DEF DropEntry, GiveBack, TypeOK, StoresSound, UtxosSound, Quote
<1>5. UNCHANGED <<quoted, built, offered, chain, consignments, fills, arrived, HandlerVars>>
  BY DEF DropEntry, GiveBack
<1>6. pending' \in [Quotes -> PendingType]
  BY DEF DropEntry, GiveBack, TypeOK, PendingType
<1>7. TypeOK' /\ Calm /\ GivesSound
  BY <1>3, <1>4, <1>5, <1>6 DEF TypeOK, HandlerVars, Lapses, Calm, GivesSound
<1>8. calls'[c].pc # "idle" => CallSound(calls[c])'
  BY <1>2, <1>3, <1>5 DEF CallSound, Quoting, Signing, Recording
<1> QED
  BY <1>3, <1>7, <1>8, CallStep DEF Recording, Quoting

-----------------------------------------------------------------------------
(***************************************************************************)
(* Loops, time, the network and faults                                     *)
(***************************************************************************)

\* No call moves on, though all may end and all deadlines come closer.
LEMMA QuietStep ==
  ASSUME IInv, Lapses(utxos, utxos'), calls' \in [Calls -> CallType],
         \A d \in Calls : Resumes(calls[d], calls'[d]),
         UNCHANGED <<quoted, built, offered, consignments, fills>>,
         chain' \in [Txids -> ChainType],
         \A t \in Txids : chain[t] # "unseen" => chain'[t] # "unseen",
         pending' \in [Quotes -> PendingType], stale' \subseteq Quotes,
         cleaning' \in {"idle", "scan", "prune"}, arrived' \in Nat, faults' \in Nat
  PROVE  IInv' /\ Calm
<1>1. TypeOK' /\ Calm /\ GivesSound
  BY DEF IInv, TypeOK, Lapses, Calm, GivesSound
<1>2. Exclusive'
  BY StaysExclusive DEF IInv, Resumes, Quoting, Recording
<1> QED
  BY <1>1, <1>2, CalmStep

\* Nothing in flight, or nothing of it changed.
LEMMA Waiting ==
  ASSUME TypeOK, calls' = calls \/ (\E c \in Calls : Return(c)) \/ calls' = [c \in Calls |-> Idle]
  PROVE  calls' \in [Calls -> CallType] /\ \A d \in Calls : Resumes(calls[d], calls'[d])
<1>1. Idle \in CallType /\ Idle.pc = "idle"
  BY DEF Idle, CallType, PcType, PendingType
<1>2. CASE \E c \in Calls : Return(c)
  BY <1>2, ReturnFields DEF Resumes
<1> QED
  BY <1>1, <1>2 DEF TypeOK, Resumes

\* The cleanup loop's three steps.
LEMMA CleanupKeepsIInv ==
  ASSUME IInv, Cleanup
  PROVE  IInv' /\ Calm
<1> USE DEF IInv
<1>1. Lapses(utxos, utxos')
  <2>1. \A o, p \in Outpoints : o \in Outpoints <=> p \in Outpoints
    OBVIOUS
  <2> QED
    BY <2>1, ExpireLapses, StutterLapses
       DEF Cleanup, CleanupRelease, CleanupScan, CleanupPrune, TypeOK, StoresSound, UtxosSound
<1>2. /\ pending' \in [Quotes -> PendingType] /\ stale' \subseteq Quotes
      /\ cleaning' \in {"idle", "scan", "prune"}
  BY DEF Cleanup, CleanupRelease, CleanupScan, CleanupPrune, TypeOK, PendingType
<1>3. UNCHANGED <<calls, quoted, built, offered, chain, consignments, fills, arrived, faults>>
  BY DEF Cleanup, CleanupRelease, CleanupScan, CleanupPrune
<1>4. calls' \in [Calls -> CallType] /\ \A d \in Calls : Resumes(calls[d], calls'[d])
  BY <1>3, Waiting
<1> QED
  BY <1>1, <1>2, <1>3, <1>4, QuietStep DEF TypeOK

\* Time passes for the rows and for the handlers.
LEMMA TickKeepsIInv ==
  ASSUME IInv, Tick
  PROVE  IInv' /\ Calm
<1> USE DEF IInv
<1>1. Lapses(utxos, utxos')
  BY ElapseLapses DEF Tick, TypeOK, StoresSound, UtxosSound
<1>2. ASSUME NEW d \in Calls
      PROVE  calls'[d] \in CallType /\ Resumes(calls[d], calls'[d])
  <2> DEFINE n == IF calls[d].left > 0 THEN calls[d].left - 1 ELSE 0
  <2>1. calls[d] \in CallType /\ n \in Nat
    BY DEF TypeOK, CallType
  <2>2. calls'[d] = [calls[d] EXCEPT !.left = n]
    BY <2>1 DEF Tick, CallType
  <2> HIDE DEF n
  <2> QED
    BY <2>1, <2>2 DEF CallType, Resumes
<1>3. calls' \in [Calls -> CallType]
  BY <1>2 DEF Tick
<1> QED
  BY <1>1, <1>2, <1>3, QuietStep DEF Tick, TypeOK

\* Blocks, evictions, dropped handlers and restarts.
LEMMA OutsideKeepsIInv ==
  ASSUME IInv,
         (\E t \in Txids : Mine(t) \/ Evict(t)) \/ (\E c \in Calls : DropCall(c)) \/ Crash
  PROVE  IInv' /\ Calm
<1> USE DEF IInv
<1>1. Lapses(utxos, utxos')
  BY StutterLapses DEF Mine, Evict, DropCall, Crash, TypeOK, StoresSound, UtxosSound
<1>2. calls' \in [Calls -> CallType] /\ \A d \in Calls : Resumes(calls[d], calls'[d])
  BY Waiting DEF Mine, Evict, DropCall, Crash
<1>3. /\ chain' \in [Txids -> ChainType]
      /\ \A t \in Txids : chain[t] # "unseen" => chain'[t] # "unseen"
  BY DEF Mine, Evict, DropCall, Crash, TypeOK, ChainType
<1>4. /\ UNCHANGED <<quoted, built, offered, consignments, fills, arrived>>
      /\ pending' \in [Quotes -> PendingType] /\ stale' \subseteq Quotes
      /\ cleaning' \in {"idle", "scan", "prune"} /\ faults' \in Nat
  BY DEF Mine, Evict, DropCall, Crash, Fault, TypeOK, PendingType
<1> QED
  BY <1>1, <1>2, <1>3, <1>4, QuietStep DEF TypeOK

-----------------------------------------------------------------------------
(***************************************************************************)
(* The steps that reserve, commit, settle and record                       *)
(***************************************************************************)

\* The other calls stay sound if their own quotes are left alone.
LEMMA OthersStaySound ==
  ASSUME IInv, Steady, NEW c \in Calls,
         \A d \in Calls \ {c} : calls'[d] = calls[d],
         \A d \in Calls \ {c}, q \in Quotes :
           calls[d].pc # "idle" /\ calls[d].quote = q => Undisturbed(q),
         \A d \in Calls \ {c}, q \in Quotes :
           calls[d].pc \in Recording /\ calls[d].quote = q => fills'[q] = fills[q],
         calls'[c].pc # "idle" => CallSound(calls[c])'
  PROVE  CallsSound'
<1>1. ASSUME NEW d \in Calls \ {c} PROVE CallSound(calls[d])'
  <2>1. PICK k : k = calls[d] /\ k = calls'[d]
    OBVIOUS
  <2>2. k \in CallType /\ CallSound(k) /\ Resumes(k, k)
    BY <2>1 DEF IInv, TypeOK, CallsSound, Resumes
  <2>3. k.pc # "idle" => k.quote \in Quotes /\ Undisturbed(k.quote)
    BY <2>1, <2>2 DEF CallSound
  <2>4. k.pc \in Recording => fills'[k.quote] = fills[k.quote]
    BY <2>1, <2>2 DEF CallSound, Recording
  <2>5. CallSound(k)'
    BY <2>2, <2>3, <2>4, WaitingStaysSound DEF IInv
  <2> QED
    BY <2>1, <2>5
<1>2. CallSound(calls[c])'
  BY DEF CallSound, Quoting, Signing, Recording
<1> QED
  BY <1>1, <1>2 DEF CallsSound

\* The chosen outpoints go under the quote's reservation: no row names the quote yet,
\* no transaction is built for it, and no other call works on it.
LEMMA ReserveCoinsKeepsIInv ==
  ASSUME IInv, NEW c \in Calls, ReserveCoins(c)
  PROVE  IInv'
<1> USE DEF IInv, Available, Reserved, PendingConfirm, Spent, NamesReservation
<1>1. calls[c] \in CallType /\ CallSound(calls[c]) /\ calls[c].pc = "reserve"
  BY DEF TypeOK, CallsSound, ReserveCoins, At
<1>2. PICK q \in Quotes, S \in SUBSET Outpoints :
        /\ q = calls[c].quote /\ quoted[q] = "asked"
        /\ S = calls[c].rows /\ S \in Covering[q]
  <2>1. calls[c].rows \in SUBSET Outpoints
    BY <1>1 DEF CallType
  <2> QED
    BY <1>1, <2>1 DEF CallSound, Quoting
<1>3. S # {} /\ S \subseteq Pool(q) /\ S \subseteq Outpoints
  BY <1>2, MakerAssumption DEF Pool
<1>4. calls[c].left \in Nat
  BY <1>1 DEF CallType
<1>5. /\ utxos' = ReserveUtxos(utxos, S, q, calls[c].left)
      /\ \A o \in S : utxos[o] = Available
      /\ quoted' = [quoted EXCEPT ![q] = "reserved"]
      /\ UNCHANGED <<pending, built, offered, chain, consignments, fills, arrived, HandlerVars>>
  BY <1>2 DEF ReserveCoins, CanReserve, Quote
<1>6. /\ calls' \in [Calls -> CallType] /\ calls'[c].pc = "idle"
      /\ \A d \in Calls \ {c} : calls'[d] = calls[d]
  BY ReturnFields DEF ReserveCoins
<1>7. \A o \in Outpoints : NamesReservation(utxos[o]) => utxos[o].quote # q
  BY <1>2 DEF StoresSound, UtxosSound
<1>8. utxos' \in Inventories /\ ReservationsMoveTogether(utxos)'
  BY <1>3, <1>4, <1>5, <1>7, ReserveSound DEF Sound, StoresSound, UtxosSound, TypeOK
<1>9. \A o \in Outpoints :
        IF o \in S THEN utxos'[o].st = "Reserved" /\ utxos'[o].quote = q
        ELSE utxos'[o] = utxos[o]
  BY <1>5 DEF ReserveUtxos, Rewrite
<1>10. \A p \in Quotes \ {q} : HeldFor(utxos, p)' = HeldFor(utxos, p)
  BY <1>5, <1>9 DEF HeldFor
<1>11. \A p \in Quotes : quoted[p] = "reserved" => p # q /\ quoted'[p] = "reserved"
  BY <1>2, <1>5 DEF TypeOK
<1>12. TypeOK'
  BY <1>5, <1>6, <1>8 DEF TypeOK, HandlerVars
<1>13. \A o \in Outpoints :
         /\ utxos'[o].st \in {"PendingBitcoinConfirm", "Spent"} => utxos'[o] = utxos[o]
         /\ utxos[o].st \in {"PendingBitcoinConfirm", "Spent"} => utxos'[o] = utxos[o]
  BY <1>5, <1>9
<1>14. StoresSound'
  <2> USE DEF StoresSound
  <2>1. UtxosSound'
    <3> SUFFICES ASSUME NEW o \in Outpoints, NamesReservation(utxos'[o])
                 PROVE  o \in Pool(utxos'[o].quote) /\ quoted'[utxos'[o].quote] = "reserved"
      BY <1>8 DEF UtxosSound
    <3>1. CASE o \in S
      BY <3>1, <1>3, <1>5, <1>9 DEF TypeOK
    <3>2. CASE o \notin S
      <4>1. utxos'[o] = utxos[o] /\ utxos[o].quote \in Quotes
        BY <3>2, <1>9 DEF TypeOK, Inventories, Status, Absent, Invalid
      <4> QED
        BY <4>1, <1>11 DEF UtxosSound
    <3> QED
      BY <3>1, <3>2
  <2>2. BuiltSound'
    BY <1>5, <1>11 DEF BuiltSound
  <2>3. OffersSound'
    <3> SUFFICES ASSUME NEW t \in offered, t \in Txids PROVE OfferSound(t)'
      BY <1>5 DEF OffersSound, TypeOK
    <3>1. PICK p \in Quotes : built[t].quote = p /\ p # q
      BY <1>11 DEF OffersSound, OfferSound, Spends, BuiltSound
    <3>2. HeldFor(utxos, p)' = HeldFor(utxos, p)
      BY <1>10, <3>1
    <3> QED
      BY <1>5, <3>1, <3>2 DEF OffersSound, OfferSound, Spends, Live
  <2>4. CommittedSound' /\ WrittenOffBySpender'
    <3> SUFFICES ASSUME NEW o \in Outpoints,
                        utxos[o].st \in {"PendingBitcoinConfirm", "Spent"},
                        utxos'[o] = utxos[o]
                 PROVE  /\ utxos[o].st = "PendingBitcoinConfirm" => built[utxos[o].tx].quote = utxos[o].quote
                        /\ utxos[o].st = "Spent" => \A p \in Quotes : p = built[utxos[o].tx].quote => ~Live(p)'
                        /\ utxos[o].st = "Spent" => built[utxos[o].tx].quote \in Quotes
                        /\ chain[utxos[o].tx] # "unseen"
                        /\ o \in built[utxos[o].tx].ins
      BY <1>5, <1>13 DEF CommittedSound, WrittenOffBySpender
    <3> DEFINE t == utxos[o].tx
    <3>1. t \in Txids
      BY DEF TypeOK, Inventories, Status, Absent, Invalid
    <3>2. o \in built[t].ins /\ chain[t] # "unseen" /\ built[t] # Unbuilt
      BY DEF WrittenOffBySpender, Unbuilt
    <3>3. built[t].quote \in Quotes /\ built[t].quote # q
      BY <1>11, <3>1, <3>2 DEF BuiltSound
    <3>4. ASSUME NEW p \in Quotes, p = built[t].quote, utxos[o].st = "Spent" PROVE ~Live(p)'
      BY <3>3, <3>4, <1>10 DEF CommittedSound, Live
    <3> QED
      BY <3>2, <3>3, <3>4 DEF CommittedSound
  <2>5. LiveUnrecorded'
    <3>1. fills[q] = NoTx
      <4>1. fills[q] # NoTx => fills[q] \in Txids /\ built[fills[q]].quote = q
        BY DEF FillOwnsInputs, TypeOK
      <4> QED
        BY <4>1, <1>2, MakerAssumption DEF BuiltSound, Unbuilt
    <3> QED
      BY <1>5, <1>10, <3>1 DEF LiveUnrecorded, Live
  <2>6. FillOwnsInputs'
    <3> SUFFICES ASSUME NEW p \in Quotes, fills[p] # NoTx
                 PROVE  /\ built[fills[p]].quote = p
                        /\ \A o \in built[fills[p]].ins :
                             utxos'[o] \in {PendingConfirm(p, fills[p]), Spent(fills[p])}
      BY <1>5 DEF FillOwnsInputs
    <3>1. built[fills[p]].ins \subseteq Outpoints
      BY DEF TypeOK, BuiltType
    <3> QED
      BY <1>13, <3>1 DEF FillOwnsInputs, PendingConfirm, Spent
  <2>7. SellConsignmentAnchored'
    BY <1>5 DEF SellConsignmentAnchored
  <2> QED
    BY <2>1, <2>2, <2>3, <2>4, <2>5, <2>6, <2>7
<1>15. Steady
  BY <1>5, <1>13 DEF Steady
<1>16. ASSUME NEW d \in Calls \ {c}, NEW p \in Quotes, calls[d].pc # "idle", calls[d].quote = p
       PROVE  Undisturbed(p)
  <2>1. p # q
    <3>1. calls[d].pc \in Quoting \/ quoted[p] = "reserved"
      BY <1>16 DEF CallsSound, CallSound
    <3> QED
      BY <3>1, <1>1, <1>2, <1>16 DEF Exclusive, Quote, Quoting
  <2> QED
    BY <2>1, <1>5, <1>10 DEF Undisturbed
<1>17. CallsSound'
  BY <1>5, <1>6, <1>15, <1>16, OthersStaySound
<1>18. Exclusive'
  BY <1>6, StaysExclusive DEF Quoting, Recording
<1> QED
  BY <1>12, <1>14, <1>17, <1>18

\* Committed rows are written off to their transaction; nobody's reservation is touched.
LEMMA SweepKeepsIInv ==
  ASSUME IInv, NEW q \in Quotes, Sweep(q)
  PROVE  IInv'
<1> USE DEF IInv, Available, Reserved, PendingConfirm, Spent, NamesReservation
<1>1. PICK w \in ConfirmingFor(utxos, q) : utxos' = MarkSpent(utxos, q, utxos[w].tx)
  BY DEF Sweep
<1>2. PICK t \in Txids : utxos[w] = PendingConfirm(q, t)
  BY DEF ConfirmingFor, TypeOK, Inventories, Status, Absent, Invalid
<1>3. w \in Outpoints
  BY DEF ConfirmingFor
<1>4. \A o \in NamedBy(utxos, q) : utxos[o] = PendingConfirm(q, t)
  <2>1. NamesReservation(utxos[w]) /\ utxos[w].quote = q
    BY <1>2
  <2> QED
    BY <1>2, <1>3, <2>1 DEF NamedBy, StoresSound, UtxosSound, ReservationsMoveTogether
<1>5. \A o \in Outpoints :
        utxos'[o] = IF utxos[o] = PendingConfirm(q, t) THEN Spent(t) ELSE utxos[o]
  BY <1>1, <1>2, <1>4 DEF MarkSpent, Rewrite, NamedBy
<1>6. utxos' \in Inventories /\ ReservationsMoveTogether(utxos)'
  BY <1>1, <1>2, SettleSound DEF Sound, StoresSound, UtxosSound, TypeOK
<1>7. \A p \in Quotes : HeldFor(utxos, p)' = HeldFor(utxos, p)
  BY <1>5 DEF HeldFor
<1>8. UNCHANGED <<quoted, pending, built, offered, chain, consignments, fills, calls, stale,
                  cleaning, arrived, faults>>
  BY DEF Sweep
<1>9. TypeOK'
  BY <1>6, <1>8 DEF TypeOK
<1>10. ~Live(q)
  BY <1>4 DEF Live, HeldFor, NamedBy
<1>11. \A p : Live(p)' <=> Live(p)
  BY <1>5 DEF Live, HeldFor
<1>12. chain[t] # "unseen" /\ built[t].quote = q /\ \A o \in Outpoints : utxos[o] = PendingConfirm(q, t) => o \in built[t].ins
  BY <1>2, <1>3 DEF StoresSound, WrittenOffBySpender, CommittedSound
<1>13. StoresSound'
  <2> USE DEF StoresSound
  <2>1. UtxosSound'
    BY <1>5, <1>6, <1>8 DEF UtxosSound
  <2>2. BuiltSound' /\ SellConsignmentAnchored' /\ LiveUnrecorded'
    BY <1>8, <1>11 DEF BuiltSound, SellConsignmentAnchored, LiveUnrecorded
  <2>3. OffersSound'
    <3> SUFFICES ASSUME NEW u \in offered, u \in Txids PROVE OfferSound(u)'
      BY <1>8 DEF OffersSound, TypeOK
    <3>1. PICK p \in Quotes : built[u].quote = p
      BY DEF OffersSound, OfferSound, Spends, BuiltSound
    <3>2. HeldFor(utxos, p)' = HeldFor(utxos, p)
      BY <1>7
    <3> QED
      BY <1>8, <3>1, <3>2 DEF OffersSound, OfferSound, Spends, Live
  <2>4. CommittedSound'
    <3> SUFFICES ASSUME NEW o \in Outpoints
                 PROVE  /\ utxos'[o].st = "PendingBitcoinConfirm" => built[utxos'[o].tx].quote = utxos'[o].quote
                        /\ utxos'[o].st = "Spent" => ~Live(built[utxos'[o].tx].quote)
      BY <1>8, <1>11 DEF CommittedSound
    <3>1. CASE utxos[o] = PendingConfirm(q, t)
      BY <3>1, <1>5, <1>10, <1>12
    <3>2. CASE utxos[o] # PendingConfirm(q, t)
      BY <3>2, <1>5 DEF CommittedSound
    <3> QED
      BY <3>1, <3>2
  <2>5. WrittenOffBySpender'
    <3> SUFFICES ASSUME NEW o \in Outpoints, utxos'[o].st \in {"PendingBitcoinConfirm", "Spent"}
                 PROVE  chain[utxos'[o].tx] # "unseen" /\ o \in built[utxos'[o].tx].ins
      BY <1>8 DEF WrittenOffBySpender
    <3>1. CASE utxos[o] = PendingConfirm(q, t)
      BY <3>1, <1>5, <1>12
    <3>2. CASE utxos[o] # PendingConfirm(q, t)
      BY <3>2, <1>5 DEF WrittenOffBySpender
    <3> QED
      BY <3>1, <3>2
  <2>6. FillOwnsInputs'
    <3> SUFFICES ASSUME NEW p \in Quotes, fills[p] # NoTx, NEW o \in built[fills[p]].ins
                 PROVE  utxos'[o] \in {PendingConfirm(p, fills[p]), Spent(fills[p])}
      BY <1>8 DEF FillOwnsInputs
    <3>1. o \in Outpoints /\ utxos[o] \in {PendingConfirm(p, fills[p]), Spent(fills[p])}
      BY DEF TypeOK, BuiltType, FillOwnsInputs
    <3> QED
      BY <3>1, <1>5 DEF PendingConfirm, Spent
  <2> QED
    BY <2>1, <2>2, <2>3, <2>4, <2>5, <2>6
<1>14. Steady
  BY <1>5, <1>8 DEF Steady, PendingConfirm, Spent
<1>15. \A p \in Quotes : Undisturbed(p)
  BY <1>7, <1>8 DEF Undisturbed
<1>16. ASSUME NEW d \in Calls PROVE CallSound(calls[d])'
  <2>1. PICK k : k = calls[d] /\ k = calls'[d]
    BY <1>8
  <2>2. k \in CallType /\ CallSound(k) /\ Resumes(k, k)
    BY <2>1 DEF TypeOK, CallsSound, Resumes
  <2>3. k.pc # "idle" => Undisturbed(k.quote)
    BY <1>15, <2>2 DEF CallSound
  <2>4. CallSound(k)'
    BY <1>8, <1>14, <2>2, <2>3, WaitingStaysSound
  <2> QED
    BY <2>1, <2>4
<1>17. CallsSound' /\ Exclusive'
  BY <1>8, <1>16 DEF CallsSound, Exclusive, Quote
<1> QED
  BY <1>9, <1>13, <1>17

\* The reservation is committed to the transaction that was broadcast; it was live, so
\* nobody records for the quote yet and the transaction spends all of it.
LEMMA CommitKeepsIInv ==
  ASSUME IInv, NEW c \in Calls, MarkPending(c), Live(calls[c].quote)
  PROVE  IInv'
<1> USE DEF IInv, Available, Reserved, PendingConfirm, Spent, NamesReservation
<1>1. calls[c] \in CallType /\ CallSound(calls[c]) /\ calls[c].pc = "markPending"
  BY DEF TypeOK, CallsSound, MarkPending, At
<1>2. PICK q \in Quotes, t \in Txids :
        /\ q = calls[c].quote /\ t = calls[c].tx /\ Live(q)
        /\ t \in offered /\ chain[t] # "unseen" /\ built[t].quote = q
        /\ ~IsBuy(q) => calls[c].entry = t
  BY <1>1 DEF CallSound, Signing, TypeOK
<1>3. built[t].ins = HeldFor(utxos, q)
  BY <1>2 DEF StoresSound, OffersSound, OfferSound, Spends
<1>4. /\ utxos' = MarkPendingConfirm(utxos, q, t)
      /\ UNCHANGED <<quoted, pending, built, offered, chain, consignments, fills, arrived,
                     HandlerVars>>
      /\ Goto(c, "saveConsignment")
  BY <1>2 DEF MarkPending, Quote
<1>5. /\ calls' \in [Calls -> CallType]
      /\ calls'[c].pc = "saveConsignment" /\ calls'[c].quote = q
      /\ calls'[c].tx = t /\ calls'[c].entry = calls[c].entry
      /\ \A d \in Calls \ {c} : calls'[d] = calls[d]
  BY <1>2, <1>4, GotoFields DEF PcType
<1>6. utxos' \in Inventories /\ ReservationsMoveTogether(utxos)'
  <2>1. 0 \in Nat
    OBVIOUS
  <2> QED
    BY <1>2, <1>4, <2>1, HeldSound DEF Sound, StoresSound, UtxosSound, TypeOK, Live
<1>7. \A o \in Outpoints :
        utxos'[o] = IF o \in HeldFor(utxos, q) THEN PendingConfirm(q, t) ELSE utxos[o]
  BY <1>4 DEF MarkPendingConfirm, Rewrite
<1>8. HeldFor(utxos, q)' = {}
  BY <1>7 DEF HeldFor
<1>9. \A p \in Quotes \ {q} : HeldFor(utxos, p)' = HeldFor(utxos, p)
  BY <1>7 DEF HeldFor
<1>10. \A p \in Quotes : Live(p)' => Live(p) /\ HeldFor(utxos, p)' = HeldFor(utxos, p)
  BY <1>8, <1>9 DEF Live
<1>11. \A o \in Outpoints :
         utxos[o].st \in {"PendingBitcoinConfirm", "Spent"} => utxos'[o] = utxos[o]
  BY <1>7 DEF HeldFor
<1>12. TypeOK'
  BY <1>4, <1>5, <1>6 DEF TypeOK, HandlerVars
<1>13. StoresSound'
  <2> USE DEF StoresSound
  <2>1. UtxosSound'
    <3> SUFFICES ASSUME NEW o \in Outpoints, NamesReservation(utxos'[o])
                 PROVE  o \in Pool(utxos'[o].quote) /\ quoted[utxos'[o].quote] = "reserved"
      BY <1>4, <1>6 DEF UtxosSound
    <3>1. NamesReservation(utxos[o]) /\ utxos[o].quote = utxos'[o].quote
      BY <1>7 DEF HeldFor
    <3> QED
      BY <3>1 DEF UtxosSound
  <2>2. BuiltSound' /\ SellConsignmentAnchored' /\ LiveUnrecorded'
    BY <1>4, <1>10 DEF BuiltSound, SellConsignmentAnchored, LiveUnrecorded
  <2>3. OffersSound'
    <3> SUFFICES ASSUME NEW u \in offered, u \in Txids PROVE OfferSound(u)'
      BY <1>4 DEF OffersSound, TypeOK
    <3>1. PICK p \in Quotes : built[u].quote = p
      BY DEF OffersSound, OfferSound, Spends, BuiltSound
    <3>2. Live(p)' => Live(p) /\ HeldFor(utxos, p)' = HeldFor(utxos, p)
      BY <1>10
    <3> QED
      BY <1>4, <3>1, <3>2 DEF OffersSound, OfferSound, Spends
  <2>4. CommittedSound' /\ WrittenOffBySpender'
    <3> SUFFICES ASSUME NEW o \in Outpoints, utxos'[o].st \in {"PendingBitcoinConfirm", "Spent"}
                 PROVE  /\ utxos'[o].st = "PendingBitcoinConfirm" =>
                             built[utxos'[o].tx].quote = utxos'[o].quote
                        /\ utxos'[o].st = "Spent" =>
                             /\ built[utxos'[o].tx].quote \in Quotes
                             /\ ~Live(built[utxos'[o].tx].quote)
                        /\ chain[utxos'[o].tx] # "unseen"
                        /\ o \in built[utxos'[o].tx].ins
      BY <1>4, <1>10 DEF CommittedSound, WrittenOffBySpender
    <3>1. CASE o \in HeldFor(utxos, q)
      BY <3>1, <1>2, <1>3, <1>7
    <3>2. CASE o \notin HeldFor(utxos, q)
      <4>1. utxos'[o] = utxos[o] /\ utxos[o].tx \in Txids
        BY <3>2, <1>7 DEF TypeOK, Inventories, Status, Absent, Invalid
      <4>2. o \in built[utxos[o].tx].ins /\ chain[utxos[o].tx] # "unseen"
        BY <4>1 DEF WrittenOffBySpender
      <4>3. built[utxos[o].tx].quote \in Quotes
        BY <4>1, <4>2 DEF BuiltSound, Unbuilt
      <4> QED
        BY <4>1, <4>2, <4>3 DEF CommittedSound
    <3> QED
      BY <3>1, <3>2
  <2>5. FillOwnsInputs'
    <3> SUFFICES ASSUME NEW p \in Quotes, fills[p] # NoTx, NEW o \in built[fills[p]].ins
                 PROVE  utxos'[o] \in {PendingConfirm(p, fills[p]), Spent(fills[p])}
      BY <1>4 DEF FillOwnsInputs
    <3>1. o \in Outpoints /\ utxos[o] \in {PendingConfirm(p, fills[p]), Spent(fills[p])}
      BY DEF TypeOK, BuiltType, FillOwnsInputs
    <3> QED
      BY <3>1, <1>11
  <2> QED
    BY <2>1, <2>2, <2>3, <2>4, <2>5
<1>14. Steady
  BY <1>4, <1>11 DEF Steady
<1>15. \A p \in Quotes : Undisturbed(p)
  BY <1>4, <1>8, <1>9 DEF Undisturbed, Live
<1>16. CallSound(calls[c])'
  <2>1. quoted'[q] = "reserved" /\ t \in offered' /\ built'[t].quote = q
    BY <1>2, <1>4, LiveQuotes DEF StoresSound
  <2>2. ~Live(q)' /\ fills'[q] = NoTx
    BY <1>2, <1>4, <1>8 DEF StoresSound, LiveUnrecorded, Live
  <2>3. Owned(t, q)'
    BY <1>3, <1>4, <1>7 DEF Owned, HeldFor
  <2>4. calls[c].entry \in Txids
    BY <1>1 DEF CallSound, Signing
  <2> QED
    BY <1>2, <1>5, <2>1, <2>2, <2>3, <2>4 DEF CallSound, Quoting, Signing, Recording, IsBuy
<1>17. CallsSound'
  BY <1>4, <1>5, <1>14, <1>15, <1>16, OthersStaySound
<1>18. \A d \in Calls : calls[d].pc \in Recording => calls[d].quote # q
  BY <1>2 DEF CallsSound, CallSound
<1>19. Exclusive'
  BY <1>5, <1>18 DEF Exclusive, Quoting, Recording, Quote
<1> QED
  BY <1>12, <1>13, <1>17, <1>19

\* The mark on a reservation that has lapsed is refused.
LEMMA LateMarkKeepsIInv ==
  ASSUME IInv, NEW c \in Calls, MarkPending(c), ~Live(calls[c].quote)
  PROVE  IInv' /\ Calm
<1>1. calls[c].quote \in Quotes /\ utxos \in Inventories
  BY DEF IInv, CallsSound, CallSound, MarkPending, At, TypeOK
<1>2. utxos' = utxos
  BY <1>1 DEF MarkPending, MarkPendingConfirm, Rewrite, Live, Quote, Inventories
<1>3. OnlyCallsChange /\ Return(c)
  BY <1>2 DEF MarkPending, OnlyCallsChange, Quote
<1> QED
  BY <1>3, ReturnKeepsIInv

\* The consignment is filed, and the fill recorded, by the one call that records.
LEMMA RecordingKeepsIInv ==
  ASSUME IInv, NEW c \in Calls, SaveConsignment(c) \/ RecordFill(c)
  PROVE  IInv'
<1> USE DEF IInv
<1>1. calls[c] \in CallType /\ CallSound(calls[c]) /\ calls[c].pc \in Recording
  BY DEF TypeOK, CallsSound, SaveConsignment, RecordFill, At, Recording
<1>2. PICK q \in Quotes, t \in Txids :
        /\ q = calls[c].quote /\ t = calls[c].tx /\ t \in offered /\ built[t].quote = q
        /\ ~Live(q) /\ fills[q] = NoTx /\ Owned(t, q) /\ quoted[q] = "reserved"
        /\ calls[c].entry \in Txids
        /\ calls[c].pc = "saveConsignment" /\ ~IsBuy(q) => calls[c].entry = t
  BY <1>1 DEF CallSound, Signing, Recording, Quoting, TypeOK
<1>3. PICK pc \in {"recordFill", "finish"} :
        /\ Goto(c, pc)
        /\ IF pc = "recordFill"
           THEN /\ consignments' = [consignments EXCEPT ![q] = [anchor |-> calls[c].entry, witness |-> t]]
                /\ calls[c].pc = "saveConsignment"
                /\ fills' = fills
           ELSE fills' = [fills EXCEPT ![q] = t] /\ consignments' = consignments
  BY <1>2 DEF SaveConsignment, RecordFill, Quote, At
<1>4. UNCHANGED <<utxos, quoted, pending, built, offered, chain, arrived, HandlerVars>>
  BY DEF SaveConsignment, RecordFill
<1>5. /\ calls' \in [Calls -> CallType]
      /\ calls'[c].pc = pc /\ calls'[c].quote = q /\ calls'[c].tx = t
      /\ calls'[c].entry = calls[c].entry
      /\ \A d \in Calls \ {c} : calls'[d] = calls[d]
  BY <1>2, <1>3, GotoFields DEF PcType
<1>6. TypeOK'
  <2>1. [anchor |-> calls[c].entry, witness |-> t] \in ConsignmentType
    BY <1>2 DEF ConsignmentType
  <2>2. consignments' \in [Quotes -> ConsignmentType] /\ fills' \in [Quotes -> Txids \cup {NoTx}]
    BY <1>3, <2>1 DEF TypeOK
  <2> QED
    BY <1>4, <1>5, <2>2 DEF TypeOK, HandlerVars
<1>7. /\ \A p \in Quotes \ {q} : fills'[p] = fills[p] /\ consignments'[p] = consignments[p]
      /\ fills'[q] \in {NoTx, t}
      /\ pc = "recordFill" => fills'[q] = NoTx
      /\ ~IsBuy(q) /\ consignments'[q] # consignments[q] =>
           consignments'[q].anchor = consignments'[q].witness
  BY <1>2, <1>3 DEF TypeOK
<1>8. StoresSound'
  <2> USE DEF StoresSound
  <2>1. UtxosSound' /\ BuiltSound' /\ OffersSound' /\ CommittedSound' /\ WrittenOffBySpender'
    BY <1>4 DEF UtxosSound, BuiltSound, OffersSound, OfferSound, Spends, CommittedSound, Live,
       WrittenOffBySpender
  <2>2. LiveUnrecorded'
    BY <1>2, <1>4, <1>7 DEF LiveUnrecorded, Live
  <2>3. FillOwnsInputs'
    BY <1>2, <1>4, <1>7 DEF FillOwnsInputs, Owned
  <2>4. SellConsignmentAnchored'
    BY <1>7 DEF SellConsignmentAnchored, IsBuy
  <2> QED
    BY <2>1, <2>2, <2>3, <2>4
<1>9. Steady /\ \A p \in Quotes : Undisturbed(p)
  BY <1>4 DEF Steady, Undisturbed
<1>10. \A d \in Calls \ {c} : calls[d].pc \in Recording => calls[d].quote # q
  BY <1>1, <1>2 DEF Exclusive, Quote
<1>11. CallSound(calls[c])'
  <2>1. ~Live(q)' /\ Owned(t, q)' /\ quoted'[q] = "reserved" /\ t \in offered' /\ built'[t].quote = q
    BY <1>2, <1>4 DEF Live, Owned
  <2> QED
    BY <1>2, <1>5, <1>7, <2>1 DEF CallSound, Quoting, Signing, Recording, IsBuy
<1>12. CallsSound'
  BY <1>5, <1>9, <1>10, <1>11, <1>7, OthersStaySound
<1>13. Exclusive'
  BY <1>1, <1>2, <1>5, StaysExclusive DEF Quoting, Recording
<1> QED
  BY <1>6, <1>8, <1>12, <1>13

-----------------------------------------------------------------------------
(***************************************************************************)
(* Every reachable state                                                   *)
(***************************************************************************)

\* The steps that are not calm: each commits or records something.
Reserves == \E c \in Calls : ReserveCoins(c)
Commits == \E c \in Calls : MarkPending(c) /\ Live(calls[c].quote)
Settles == \E q \in Quotes : Sweep(q)
Records == \E c \in Calls : SaveConsignment(c) \/ RecordFill(c)

\* Every other step of the engine is calm.
LEMMA StepKinds ==
  ASSUME IInv, [Next]_vars
  PROVE  (IInv' /\ Calm) \/ Reserves \/ Commits \/ Settles \/ Records
<1> DEFINE Goal == (IInv' /\ Calm) \/ Reserves \/ Commits \/ Settles \/ Records
<1>1. ASSUME NEW c \in Calls, NEW q \in Quotes, Request(c, q) PROVE Goal
  BY <1>1, RequestQuoteKeepsIInv, LaterRequestsKeepIInv, SubmitKeepsIInv DEF Request
<1>2. ASSUME NEW c \in Calls, QuoteStep(c) PROVE Goal
  BY <1>2, QuotingKeepsIInv DEF QuoteStep, Reserves
<1>3. ASSUME NEW c \in Calls, AcceptStep(c) PROVE Goal
  BY <1>3, FindingKeepsIInv, ListingKeepsIInv, BuildKeepsIInv, ExtendKeepsIInv, AnswersKeepIInv
     DEF AcceptStep
<1>4. ASSUME NEW c \in Calls, DeliverStep(c) PROVE Goal
  BY <1>4, FindingKeepsIInv, ListingKeepsIInv, PlanKeepsIInv, BuildKeepsIInv, ExtendKeepsIInv,
     AnswersKeepIInv DEF DeliverStep
<1>5. ASSUME NEW c \in Calls, SignStep(c) PROVE Goal
  BY <1>5, ReadForSignKeepsIInv, FindingKeepsIInv, BroadcastKeepsIInv, LateMarkKeepsIInv
     DEF SignStep, Commits, Records
<1>6. ASSUME NEW c \in Calls, Proceed(c) PROVE Goal
  BY <1>2, <1>3, <1>4, <1>5, <1>6, EndingsKeepIInv DEF Proceed
<1>7. CASE UNCHANGED vars
  <2>1. \A d \in Calls : Resumes(calls[d], calls'[d])
    BY <1>7 DEF vars, Resumes
  <2>2. Lapses(utxos, utxos')
    BY <1>7, StutterLapses DEF vars, IInv, TypeOK, StoresSound, UtxosSound
  <2> QED
    BY <1>7, <2>1, <2>2, QuietStep DEF vars, IInv, TypeOK
<1> QED
  BY <1>1, <1>6, <1>7, CleanupKeepsIInv, TickKeepsIInv, OutsideKeepsIInv DEF Next, Settles

\* No step of the engine leaves the invariant.
LEMMA StepKeepsIInv ==
  ASSUME IInv, [Next]_vars
  PROVE  IInv'
BY StepKinds, ReserveCoinsKeepsIInv, CommitKeepsIInv, SweepKeepsIInv, RecordingKeepsIInv
   DEF Reserves, Commits, Settles, Records

\* The invariant holds in every reachable state, whatever the requests, the order of
\* the handlers' steps and the faults: what the theorems below rest on.
THEOREM EngineSound == Spec => []IInv
<1>1. Init => IInv
  BY InitIInv
<1>2. IInv /\ [Next]_vars => IInv'
  BY StepKeepsIInv
<1> QED
  BY <1>1, <1>2, PTL DEF Spec

\* Types: the engine never leaves the states its data structures can hold.
THEOREM MakerTypes == Spec => []TypeOK
<1>1. IInv => TypeOK
  BY DEF IInv
<1> QED
  BY <1>1, EngineSound, PTL

\* What the maker counts as gone went to a transaction the network has seen and that
\* spends it (mark_pending_bitcoin_confirm and mark_spent are reached only so).
THEOREM WrittenOff == Spec => []WrittenOffBySpender
<1>1. IInv => WrittenOffBySpender
  BY DEF IInv, StoresSound
<1> QED
  BY <1>1, EngineSound, PTL

\* A PSBT a taker holds spends something, and exactly the reservation of its quote while
\* that lives, however accepts, deliveries, expiries and releases interleave.
THEOREM OffersSpend == Spec => []OfferedSpendsReservation
<1>1. IInv => OfferedSpendsReservation
  BY DEF IInv, StoresSound, OffersSound, OfferSound, Spends, OfferedSpendsReservation
<1> QED
  BY <1>1, EngineSound, PTL

\* A recorded fill has every input of its transaction to itself, with all faults.
THEOREM FillsOwn == Spec => []FillOwnsInputs
<1>1. IInv => FillOwnsInputs
  BY DEF IInv, StoresSound
<1> QED
  BY <1>1, EngineSound, PTL

\* A sell's consignment is filed under the transaction it is anchored to.
THEOREM SellsAnchored == Spec => []SellConsignmentAnchored
<1>1. IInv => SellConsignmentAnchored
  BY DEF IInv, StoresSound
<1> QED
  BY <1>1, EngineSound, PTL

\* Of the calls that race to record for one quote, one does: its fill and its consignment
\* stay as they are.
THEOREM RecordsOnce == Spec => RecordedOnce
<1> DEFINE Kept == \A q \in Quotes :
                     /\ fills[q] # NoTx => fills'[q] = fills[q]
                     /\ fills[q] # NoTx => consignments'[q] = consignments[q]
<1>1. ASSUME IInv, [Next]_vars PROVE Kept
  <2>1. CASE Records
    <3>1. PICK c \in Calls : SaveConsignment(c) \/ RecordFill(c)
      BY <2>1 DEF Records
    <3>2. fills[Quote(c)] = NoTx
      BY <1>1, <3>1 DEF IInv, CallsSound, CallSound, SaveConsignment, RecordFill, At, Recording, Quote
    <3> QED
      BY <1>1, <3>1, <3>2 DEF SaveConsignment, RecordFill, IInv, TypeOK
  <2>2. CASE ~Records
    <3>1. UNCHANGED <<fills, consignments>>
      BY <1>1, <2>2, StepKinds DEF Calm, Reserves, ReserveCoins, Commits, MarkPending, Settles, Sweep
    <3> QED
      BY <3>1
  <2> QED
    BY <2>1, <2>2
<1> QED
  BY <1>1, EngineSound, PTL DEF Spec, RecordedOnce

-----------------------------------------------------------------------------
(***************************************************************************)
(* The engine implements the swap lifecycle                                *)
(***************************************************************************)

\* What a quote's rows are, besides each other: one reservation is in one stage, a
\* settled one is not reserved again, and rows of a quote mean that it was answered.
LEMMA StagesApart ==
  ASSUME IInv, NEW q \in Quotes
  PROVE  /\ Live(q) => ConfirmingFor(utxos, q) = {} /\ SpentFor(q) = {}
         /\ Backing(q) # {} => quoted[q] = "reserved"
<1> USE DEF IInv, StoresSound, NamesReservation
<1>1. Live(q) => ConfirmingFor(utxos, q) = {}
  BY DEF Live, HeldFor, ConfirmingFor, UtxosSound, ReservationsMoveTogether
<1>2. Live(q) => SpentFor(q) = {}
  BY DEF SpentFor, CommittedSound
<1>3. HeldFor(utxos, q) # {} \/ ConfirmingFor(utxos, q) # {} => quoted[q] = "reserved"
  BY DEF HeldFor, ConfirmingFor, UtxosSound
<1>4. ASSUME NEW o \in SpentFor(q) PROVE quoted[q] = "reserved"
  <2>1. utxos[o].tx \in Txids /\ built[utxos[o].tx] # Unbuilt /\ built[utxos[o].tx].quote = q
    BY DEF SpentFor, WrittenOffBySpender, Unbuilt, TypeOK, Inventories, Status, Absent, Available,
           Invalid
  <2> QED
    BY <2>1 DEF BuiltSound
<1> QED
  BY <1>1, <1>2, <1>3, <1>4 DEF Backing

\* A step that leaves a quote's rows and answer alone leaves its stage alone.
LEMMA StageStays ==
  ASSUME NEW q \in Quotes,
         quoted'[q] = "reserved" <=> quoted[q] = "reserved",
         HeldFor(utxos, q)' = HeldFor(utxos, q),
         ConfirmingFor(utxos, q)' = ConfirmingFor(utxos, q),
         SpentFor(q)' = SpentFor(q)
  PROVE  Stage(q)' = Stage(q) /\ Backing(q)' = Backing(q)
<1>1. Live(q)' = Live(q)
  BY DEF Live
<1>2. Stage(q)' = Stage(q)
  BY <1>1 DEF Stage
<1> QED
  BY <1>2 DEF Backing

\* A calm step releases the quotes whose reservation lapses with it.
LEMMA CalmReleases ==
  ASSUME IInv, IInv', Calm, NEW q \in Quotes
  PROVE  IF Live(q) /\ ~Live(q)'
         THEN Stage(q) = "held" /\ Stage(q)' = "released" /\ Backing(q)' = {}
         ELSE Stage(q)' = Stage(q) /\ Backing(q)' = Backing(q)
<1> USE DEF IInv
<1>1. ConfirmingFor(utxos, q)' = ConfirmingFor(utxos, q)
  BY CalmRows DEF ConfirmingFor
<1>2. SpentFor(q)' = SpentFor(q)
  <2>1. ASSUME NEW o \in Outpoints, utxos[o].st = "Spent"
        PROVE  built'[utxos[o].tx] = built[utxos[o].tx]
    <3>1. utxos[o].tx \in Txids /\ built[utxos[o].tx] # Unbuilt
      BY <2>1 DEF StoresSound, WrittenOffBySpender, Unbuilt, TypeOK, Inventories, Status, Absent,
                  Available, Invalid
    <3> QED
      BY <3>1, BuiltStays
  <2> QED
    BY <2>1, CalmRows DEF SpentFor
<1>3. quoted'[q] = "reserved" <=> quoted[q] = "reserved"
  BY DEF Calm
<1>4. CASE Live(q) /\ ~Live(q)'
  <2>1. quoted[q] = "reserved" /\ ConfirmingFor(utxos, q) = {} /\ SpentFor(q) = {}
    BY <1>4, StagesApart, LiveQuotes DEF StoresSound
  <2>2. HeldFor(utxos, q)' = {}
    BY <1>4 DEF Live
  <2>3. Stage(q) = "held"
    BY <1>4, <2>1 DEF Stage
  <2>4. Stage(q)' = "released"
    BY <1>1, <1>2, <1>3, <1>4, <2>1 DEF Stage
  <2>5. Backing(q)' = {}
    BY <1>1, <1>2, <2>1, <2>2 DEF Backing
  <2> QED
    BY <1>4, <2>3, <2>4, <2>5
<1>5. CASE ~(Live(q) /\ ~Live(q)')
  <2>1. HeldFor(utxos, q)' = HeldFor(utxos, q)
    BY <1>5, LapsedOrSame DEF Live
  <2> QED
    BY <1>1, <1>2, <1>3, <1>5, <2>1, StageStays
<1> QED
  BY <1>4, <1>5

\* Reserving holds a quote over outpoints that back no quote.
LEMMA ReserveHolds ==
  ASSUME IInv, NEW c \in Calls, ReserveCoins(c)
  PROVE  \E q \in Quotes :
           /\ Stage(q) = "unquoted" /\ Stage(q)' = "held"
           /\ Backing(q)' # {} /\ Backing(q)' \subseteq Outpoints
           /\ \A p \in Quotes : Backing(q)' \cap Backing(p) = {}
           /\ \A p \in Quotes \ {q} : Stage(p)' = Stage(p) /\ Backing(p)' = Backing(p)
<1> USE DEF IInv, Available, Reserved
<1>1. PICK q \in Quotes, S \in SUBSET Outpoints :
        /\ q = calls[c].quote /\ quoted[q] = "asked"
        /\ S = calls[c].rows /\ S \in Covering[q]
  <2>1. calls[c] \in CallType /\ CallSound(calls[c]) /\ calls[c].pc = "reserve"
    BY DEF TypeOK, CallsSound, ReserveCoins, At
  <2>2. calls[c].rows \in SUBSET Outpoints
    BY <2>1 DEF CallType
  <2> QED
    BY <2>1, <2>2 DEF CallSound, Quoting
<1>2. S # {}
  BY <1>1, MakerAssumption
<1>3. /\ utxos' = ReserveUtxos(utxos, S, q, calls[c].left)
      /\ \A o \in S : utxos[o] = Available
      /\ quoted' = [quoted EXCEPT ![q] = "reserved"]
      /\ built' = built
  BY <1>1 DEF ReserveCoins, CanReserve, Quote
<1>4. \A o \in Outpoints :
        IF o \in S THEN utxos'[o].st = "Reserved" /\ utxos'[o].quote = q
        ELSE utxos'[o] = utxos[o]
  BY <1>3 DEF ReserveUtxos, Rewrite
<1>5. Backing(q) = {}
  BY <1>1, StagesApart
<1>6. HeldFor(utxos, q) = {} /\ ConfirmingFor(utxos, q) = {} /\ SpentFor(q) = {}
  BY <1>5 DEF Backing
<1>7. HeldFor(utxos, q)' = S
  BY <1>4, <1>6 DEF HeldFor
<1>8. \A p \in Quotes : ConfirmingFor(utxos, p)' = ConfirmingFor(utxos, p)
  BY <1>3, <1>4 DEF ConfirmingFor
<1>9. \A p \in Quotes : SpentFor(p)' = SpentFor(p)
  BY <1>3, <1>4 DEF SpentFor
<1>10. \A p \in Quotes \ {q} : HeldFor(utxos, p)' = HeldFor(utxos, p)
  BY <1>3, <1>4 DEF HeldFor
<1>11. Stage(q) = "unquoted"
  BY <1>1 DEF Stage
<1>12. Stage(q)' = "held"
  <2>1. quoted'[q] = "reserved" /\ Live(q)'
    BY <1>2, <1>3, <1>7 DEF TypeOK, Live
  <2> QED
    BY <2>1 DEF Stage
<1>13. Backing(q)' = S
  BY <1>6, <1>7, <1>8, <1>9 DEF Backing
<1>14. \A p \in Quotes : S \cap Backing(p) = {}
  BY <1>3 DEF Backing, HeldFor, ConfirmingFor, SpentFor
<1>15. ASSUME NEW p \in Quotes \ {q} PROVE Stage(p)' = Stage(p) /\ Backing(p)' = Backing(p)
  <2>1. quoted'[p] = quoted[p]
    BY <1>3 DEF TypeOK
  <2> QED
    BY <1>8, <1>9, <1>10, <2>1, StageStays
<1> QED
  BY <1>2, <1>11, <1>12, <1>13, <1>14, <1>15

\* The mark after the broadcast commits all that is held.
LEMMA MarkCommits ==
  ASSUME IInv, NEW c \in Calls, MarkPending(c), Live(calls[c].quote)
  PROVE  \E q \in Quotes :
           /\ Stage(q) = "held" /\ Stage(q)' = "committed" /\ Backing(q)' = Backing(q)
           /\ \A p \in Quotes \ {q} : Stage(p)' = Stage(p) /\ Backing(p)' = Backing(p)
<1> USE DEF IInv, PendingConfirm
<1>1. PICK q \in Quotes, t \in Txids : q = calls[c].quote /\ t = calls[c].tx /\ Live(q)
  <2>1. CallSound(calls[c]) /\ calls[c].pc = "markPending"
    BY DEF CallsSound, MarkPending, At
  <2> QED
    BY <2>1 DEF CallSound, Signing, TypeOK
<1>2. utxos' = MarkPendingConfirm(utxos, q, t) /\ built' = built /\ quoted' = quoted
  BY <1>1 DEF MarkPending, Quote
<1>3. \A o \in Outpoints :
        utxos'[o] = IF o \in HeldFor(utxos, q) THEN PendingConfirm(q, t) ELSE utxos[o]
  BY <1>2 DEF MarkPendingConfirm, Rewrite
<1>4. ConfirmingFor(utxos, q) = {} /\ SpentFor(q) = {} /\ quoted[q] = "reserved"
  BY <1>1, StagesApart, LiveQuotes DEF StoresSound
<1>5. HeldFor(utxos, q)' = {}
  BY <1>3 DEF HeldFor
<1>6. ConfirmingFor(utxos, q)' = HeldFor(utxos, q)
  BY <1>3, <1>4 DEF ConfirmingFor, HeldFor
<1>7. \A p \in Quotes : SpentFor(p)' = SpentFor(p)
  BY <1>2, <1>3 DEF SpentFor, HeldFor
<1>8. \A p \in Quotes \ {q} : HeldFor(utxos, p)' = HeldFor(utxos, p)
  BY <1>3 DEF HeldFor
<1>9. \A p \in Quotes \ {q} : ConfirmingFor(utxos, p)' = ConfirmingFor(utxos, p)
  BY <1>3 DEF ConfirmingFor, HeldFor
<1>10. Stage(q) = "held"
  BY <1>1, <1>4 DEF Stage
<1>11. Stage(q)' = "committed"
  <2>1. ~Live(q)' /\ ConfirmingFor(utxos, q)' # {} /\ quoted'[q] = "reserved"
    BY <1>1, <1>2, <1>4, <1>5, <1>6 DEF Live
  <2> QED
    BY <2>1 DEF Stage
<1>12. Backing(q)' = Backing(q)
  BY <1>4, <1>5, <1>6, <1>7 DEF Backing
<1>13. \A p \in Quotes \ {q} : Stage(p)' = Stage(p) /\ Backing(p)' = Backing(p)
  BY <1>2, <1>7, <1>8, <1>9, StageStays
<1> QED
  BY <1>10, <1>11, <1>12, <1>13

\* The sweep settles all that is committed.
LEMMA SweepSettles ==
  ASSUME IInv, NEW q \in Quotes, Sweep(q)
  PROVE  /\ Stage(q) = "committed" /\ Stage(q)' = "settled" /\ Backing(q)' = Backing(q)
         /\ \A p \in Quotes \ {q} : Stage(p)' = Stage(p) /\ Backing(p)' = Backing(p)
<1> USE DEF IInv, PendingConfirm, Spent, NamesReservation
<1>1. PICK w \in Outpoints :
        w \in ConfirmingFor(utxos, q) /\ utxos' = MarkSpent(utxos, q, utxos[w].tx)
  BY DEF Sweep, ConfirmingFor
<1>2. PICK t \in Txids : utxos[w] = PendingConfirm(q, t)
  BY <1>1 DEF ConfirmingFor, TypeOK, Inventories, Status, Absent, Available, Invalid
<1>3. \A o \in NamedBy(utxos, q) : utxos[o] = PendingConfirm(q, t)
  <2>1. NamesReservation(utxos[w]) /\ utxos[w].quote = q
    BY <1>2
  <2> QED
    BY <1>2, <2>1 DEF NamedBy, StoresSound, UtxosSound, ReservationsMoveTogether
<1>4. \A o \in Outpoints :
        utxos'[o] = IF utxos[o] = PendingConfirm(q, t) THEN Spent(t) ELSE utxos[o]
  BY <1>1, <1>2, <1>3 DEF MarkSpent, Rewrite, NamedBy
<1>5. built' = built /\ quoted' = quoted
  BY DEF Sweep
<1>6. built[t].quote = q /\ quoted[q] = "reserved"
  BY <1>2 DEF StoresSound, CommittedSound, UtxosSound
<1>7. \A p \in Quotes : HeldFor(utxos, p)' = HeldFor(utxos, p)
  BY <1>4 DEF HeldFor
<1>8. HeldFor(utxos, q) = {}
  BY <1>3 DEF HeldFor, NamedBy
<1>9. ConfirmingFor(utxos, q)' = {}
  BY <1>3, <1>4 DEF ConfirmingFor, NamedBy
<1>10. SpentFor(q)' = SpentFor(q) \cup ConfirmingFor(utxos, q)
  <2>1. ASSUME NEW o \in Outpoints
        PROVE  utxos[o] = PendingConfirm(q, t) <=> o \in ConfirmingFor(utxos, q)
    BY <1>3 DEF ConfirmingFor, NamedBy
  <2> QED
    BY <1>4, <1>5, <1>6, <2>1 DEF SpentFor, ConfirmingFor
<1>11. \A p \in Quotes \ {q} : ConfirmingFor(utxos, p)' = ConfirmingFor(utxos, p)
  BY <1>4 DEF ConfirmingFor
<1>12. \A p \in Quotes \ {q} : SpentFor(p)' = SpentFor(p)
  BY <1>4, <1>5, <1>6 DEF SpentFor
<1>13. Stage(q) = "committed"
  BY <1>1, <1>6, <1>8 DEF Stage, Live
<1>14. Stage(q)' = "settled"
  <2>1. ~Live(q)' /\ SpentFor(q)' # {} /\ quoted'[q] = "reserved"
    BY <1>1, <1>5, <1>6, <1>7, <1>8, <1>10 DEF Live
  <2> QED
    BY <1>9, <2>1 DEF Stage
<1>15. Backing(q)' = Backing(q)
  BY <1>7, <1>8, <1>9, <1>10 DEF Backing
<1>16. \A p \in Quotes \ {q} : Stage(p)' = Stage(p) /\ Backing(p)' = Backing(p)
  BY <1>5, <1>7, <1>11, <1>12, StageStays
<1> QED
  BY <1>13, <1>14, <1>15, <1>16

\* The engine starts where the lifecycle starts.
LEMMA StartsUnquoted ==
  ASSUME Init
  PROVE  Swap!SwapInit
<1>1. \A q \in Quotes : Stage(q) = "unquoted"
  BY DEF Init, Stage
<1>2. \A q \in Quotes : Backing(q) = {}
  BY DEF Init, Backing, HeldFor, ConfirmingFor, SpentFor, Available
<1> QED
  BY <1>1, <1>2 DEF Swap!SwapInit

\* Each step of the engine is a step of the lifecycle, or none.
LEMMA StepsOfTheLifecycle ==
  ASSUME IInv, IInv', [Next]_vars
  PROVE  [Swap!SwapNext]_(Swap!swapVars)
<1> DEFINE stage == [q \in Quotes |-> Stage(q)]
           backing == [q \in Quotes |-> Backing(q)]
<1>1. CASE Calm
  <2> DEFINE R == {q \in Quotes : Live(q) /\ ~Live(q)'}
  <2>1. \A q \in Quotes :
          /\ q \in R => Stage(q) = "held" /\ Stage(q)' = "released" /\ Backing(q)' = {}
          /\ q \notin R => Stage(q)' = Stage(q) /\ Backing(q)' = Backing(q)
    BY <1>1, CalmReleases
  <2> HIDE DEF R
  <2>2. /\ stage' = [q \in Quotes |-> IF q \in R THEN "released" ELSE stage[q]]
        /\ backing' = [q \in Quotes |-> IF q \in R THEN {} ELSE backing[q]]
    BY <2>1
  <2>3. CASE R = {}
    BY <2>2, <2>3 DEF Swap!swapVars
  <2>4. CASE R # {}
    <3>1. R \in (SUBSET Quotes) \ {{}}
      BY <2>4 DEF R
    <3>2. Swap!Release(R)
      BY <2>1, <2>2, <3>1 DEF Swap!Release
    <3> QED
      BY <3>1, <3>2 DEF Swap!SwapNext
  <2> QED
    BY <2>3, <2>4
<1>2. CASE Reserves
  <2>1. PICK q \in Quotes :
          /\ Stage(q) = "unquoted" /\ Stage(q)' = "held"
          /\ Backing(q)' # {} /\ Backing(q)' \subseteq Outpoints
          /\ \A p \in Quotes : Backing(q)' \cap Backing(p) = {}
          /\ \A p \in Quotes \ {q} : Stage(p)' = Stage(p) /\ Backing(p)' = Backing(p)
    BY <1>2, ReserveHolds DEF Reserves
  <2>2. stage' = [stage EXCEPT ![q] = "held"]
    BY <2>1
  <2>3. PICK S : S = Backing(q)'
    OBVIOUS
  <2>4. backing' = [backing EXCEPT ![q] = S]
    BY <2>1, <2>3
  <2>5. S \in SUBSET (Outpoints \ Swap!Backed) /\ S # {}
    BY <2>1, <2>3 DEF Swap!Backed
  <2>6. Swap!Hold(q)
    BY <2>1, <2>2, <2>4, <2>5 DEF Swap!Hold
  <2> QED
    BY <2>6 DEF Swap!SwapNext
<1>3. CASE Commits
  <2>1. PICK q \in Quotes :
          /\ Stage(q) = "held" /\ Stage(q)' = "committed" /\ Backing(q)' = Backing(q)
          /\ \A p \in Quotes \ {q} : Stage(p)' = Stage(p) /\ Backing(p)' = Backing(p)
    BY <1>3, MarkCommits DEF Commits
  <2>2. stage' = [stage EXCEPT ![q] = "committed"] /\ backing' = backing
    BY <2>1
  <2>3. Swap!Commit(q)
    BY <2>1, <2>2 DEF Swap!Commit
  <2> QED
    BY <2>3 DEF Swap!SwapNext
<1>4. CASE Settles
  <2>1. PICK q \in Quotes :
          /\ Stage(q) = "committed" /\ Stage(q)' = "settled" /\ Backing(q)' = Backing(q)
          /\ \A p \in Quotes \ {q} : Stage(p)' = Stage(p) /\ Backing(p)' = Backing(p)
    BY <1>4, SweepSettles DEF Settles
  <2>2. stage' = [stage EXCEPT ![q] = "settled"] /\ backing' = backing
    BY <2>1
  <2>3. Swap!Settle(q)
    BY <2>1, <2>2 DEF Swap!Settle
  <2> QED
    BY <2>3 DEF Swap!SwapNext
<1>5. CASE Records
  <2>1. UNCHANGED <<utxos, quoted, built>>
    BY <1>5 DEF Records, SaveConsignment, RecordFill
  <2>2. \A q \in Quotes : Stage(q)' = Stage(q) /\ Backing(q)' = Backing(q)
    BY <2>1 DEF Stage, Backing, Live, HeldFor, ConfirmingFor, SpentFor
  <2> QED
    BY <2>2 DEF Swap!swapVars
<1> QED
  BY <1>1, <1>2, <1>3, <1>4, <1>5, StepKinds

\* The engine implements the swap lifecycle: whatever the interleaving and the faults,
\* a quote is held, then released or committed and settled, by outpoints that back no
\* other quote.
THEOREM ImplementsLifecycle == Spec => ImplementsSwapLifecycle
<1>1. Init => Swap!SwapInit
  BY StartsUnquoted
<1>2. IInv /\ IInv' /\ [Next]_vars => [Swap!SwapNext]_(Swap!swapVars)
  BY StepsOfTheLifecycle
<1> QED
  BY <1>1, <1>2, EngineSound, PTL DEF Spec, ImplementsSwapLifecycle, Swap!SwapSpec

-----------------------------------------------------------------------------
(***************************************************************************)
(* The pending entries of live reservations                                *)
(***************************************************************************)

\* Between the read of the entry and the answer of a delivery.
Delivering ==
  {"deliverFind", "deliverRows", "planRungs", "buildSell", "extendDeliver", "recordPsbt"}

\* A call that will drop the entry has outlived the reservation; one that delivers found
\* the entry, which stays while the reservation lives.
EntrySound(k) ==
  /\ k.pc \in {"drop", "finish"} => ~Live(k.quote)
  /\ k.pc \in Delivering /\ Live(k.quote) => pending[k.quote] # NoPending

\* What OfferFindsEntry needs to be inductive: entries, and the quotes the cleanup loop
\* is about to prune, are of quotes that were answered, and no quote is reserved twice.
EntryInv ==
  /\ \A q \in Quotes : pending[q] # NoPending => quoted[q] = "reserved"
  /\ \A q \in stale : ~Live(q) /\ quoted[q] = "reserved"
  /\ \A c \in Calls : EntrySound(calls[c])
  /\ OfferFindsEntry

\* A quote that was answered stays so, its reservation does not come back, and a built
\* transaction stays as it is.
LEMMA NothingRevives ==
  ASSUME IInv, [Next]_vars
  PROVE  /\ \A q \in Quotes :
              quoted[q] = "reserved" => quoted'[q] = "reserved" /\ (Live(q)' => Live(q))
         /\ \A t \in Txids : built[t] # Unbuilt => built'[t] = built[t]
<1> USE DEF IInv
<1>1. CASE Calm
  BY <1>1, LapsedOrSame, BuiltStays DEF Calm
<1>2. CASE Reserves
  <2>1. PICK c \in Calls : ReserveCoins(c)
    BY <1>2 DEF Reserves
  <2>2. PICK q \in Quotes : q = calls[c].quote /\ quoted[q] = "asked"
    BY <2>1 DEF CallsSound, CallSound, ReserveCoins, At, Quoting
  <2>3. ASSUME NEW p \in Quotes \ {q} PROVE Live(p)' => Live(p)
    BY <2>1, <2>2 DEF Live, HeldFor, ReserveCoins, ReserveUtxos, Rewrite, Reserved, Quote
  <2> QED
    BY <2>1, <2>2, <2>3 DEF ReserveCoins, Quote, TypeOK
<1>3. CASE Commits \/ Settles
  <2>1. \A o \in Outpoints : utxos'[o].st = "Reserved" => utxos'[o] = utxos[o]
    BY <1>3 DEF Commits, MarkPending, MarkPendingConfirm, Settles, Sweep, MarkSpent, Rewrite,
           PendingConfirm, Spent
  <2>2. \A q \in Quotes : Live(q)' => Live(q)
    BY <2>1 DEF Live, HeldFor
  <2> QED
    BY <1>3, <2>2 DEF Commits, MarkPending, Settles, Sweep
<1>4. CASE Records
  BY <1>4 DEF Records, SaveConsignment, RecordFill, Live, HeldFor
<1> QED
  BY <1>1, <1>2, <1>3, <1>4, StepKinds

\* The steps that keep the entries: an entry is dropped only when its reservation is
\* gone, and what is offered has one.
LEMMA EntryStep ==
  ASSUME IInv, [Next]_vars, EntryInv,
         \A q \in Quotes : pending[q] # NoPending /\ Live(q) => pending'[q] # NoPending,
         \A q \in Quotes :
           pending'[q] # NoPending => pending[q] # NoPending \/ quoted[q] = "reserved",
         \A q \in stale' : q \in stale \/ (q \in Quotes /\ pending[q] # NoPending /\ ~Live(q)),
         \A t \in offered' \ offered, q \in Quotes :
           built'[t].quote = q /\ Live(q)' => pending'[q] # NoPending,
         \A d \in Calls : Resumes(calls[d], calls'[d]) \/ EntrySound(calls[d])'
  PROVE  EntryInv'
<1> USE DEF IInv, EntryInv
<1>1. \A q \in Quotes : pending'[q] # NoPending => quoted'[q] = "reserved"
  BY NothingRevives
<1>2. \A q \in stale' : ~Live(q)' /\ quoted'[q] = "reserved"
  <2> SUFFICES ASSUME NEW q \in stale' PROVE ~Live(q)' /\ quoted'[q] = "reserved"
    OBVIOUS
  <2>1. q \in Quotes /\ ~Live(q) /\ quoted[q] = "reserved"
    BY DEF TypeOK
  <2> QED
    BY <2>1, NothingRevives
<1>3. ASSUME NEW d \in Calls, Resumes(calls[d], calls'[d]), calls'[d].pc # "idle"
      PROVE  EntrySound(calls[d])'
  <2>1. PICK q \in Quotes : q = calls[d].quote /\ q = calls'[d].quote /\ calls'[d].pc = calls[d].pc
    BY <1>3 DEF Resumes, CallsSound, CallSound
  <2>2. CASE calls[d].pc \in {"drop", "finish"} \cup Delivering
    <3>1. quoted[q] = "reserved"
      BY <1>3, <2>1, <2>2 DEF CallsSound, CallSound, Quoting, Delivering
    <3>2. Live(q)' => Live(q)
      BY <3>1, NothingRevives
    <3> QED
      BY <2>1, <3>2 DEF EntrySound
  <2>3. CASE calls[d].pc \notin {"drop", "finish"} \cup Delivering
    BY <2>1, <2>3 DEF EntrySound
  <2> QED
    BY <2>2, <2>3
<1>4. ASSUME NEW d \in Calls, calls'[d].pc = "idle" PROVE EntrySound(calls[d])'
  BY <1>4 DEF EntrySound, Delivering
<1>5. OfferFindsEntry'
  <2>0. IInv'
    BY StepKeepsIInv
  <2> SUFFICES ASSUME NEW t \in offered', NEW q \in Quotes, q = built'[t].quote, Live(q)',
                      t \in offered
               PROVE  pending'[q] # NoPending
    BY <2>0 DEF OfferFindsEntry, StoresSound, OffersSound, OfferSound, Spends, BuiltSound, TypeOK
  <2>1. t \in Txids /\ built[t] # Unbuilt /\ q \in Quotes /\ built[t].quote = q
        /\ quoted[q] = "reserved"
    BY NothingRevives DEF TypeOK, StoresSound, OffersSound, OfferSound, Spends, BuiltSound
  <2> QED
    BY <2>1, NothingRevives DEF OfferFindsEntry
<1> QED
  BY <1>1, <1>2, <1>3, <1>4, <1>5

\* A step of one call that touches no entry: it does not enter the positions that rely
\* on the entry, or enters them soundly.
LEMMA EntryCallStep ==
  ASSUME IInv, [Next]_vars, EntryInv, NEW c \in Calls,
         UNCHANGED <<pending, stale, offered>>,
         \A d \in Calls \ {c} : calls'[d] = calls[d],
         \/ calls'[c].pc \notin {"drop", "finish"} \cup Delivering
         \/ /\ calls'[c].pc \in Delivering /\ calls[c].pc \in Delivering
            /\ calls'[c].quote = calls[c].quote
         \/ \E q \in Quotes :
              /\ calls'[c].quote = q
              /\ ~Live(q)' \/ (calls'[c].pc \in Delivering /\ pending[q] # NoPending)
  PROVE  EntryInv'
<1>1. ASSUME calls'[c].pc \in Delivering, calls[c].pc \in Delivering,
             calls'[c].quote = calls[c].quote
      PROVE  EntrySound(calls[c])'
  <2>1. PICK q \in Quotes : q = calls[c].quote /\ quoted[q] = "reserved"
    BY <1>1 DEF IInv, CallsSound, CallSound, Delivering, Quoting
  <2>2. Live(q)' => Live(q)
    BY <2>1, NothingRevives
  <2> QED
    BY <1>1, <2>1, <2>2 DEF EntryInv, EntrySound, Delivering
<1>2. ASSUME NEW q \in Quotes, calls'[c].quote = q,
             ~Live(q)' \/ (calls'[c].pc \in Delivering /\ pending[q] # NoPending)
      PROVE  EntrySound(calls[c])'
  BY <1>2 DEF EntrySound, Delivering
<1>3. ASSUME calls'[c].pc \notin {"drop", "finish"} \cup Delivering
      PROVE  EntrySound(calls[c])'
  BY <1>3 DEF EntrySound
<1>4. \A d \in Calls : Resumes(calls[d], calls'[d]) \/ EntrySound(calls[d])'
  BY <1>1, <1>2, <1>3 DEF Resumes
<1> QED
  BY <1>4, EntryStep DEF EntryInv

\* A handler moves on without touching an entry.
LEMMA EntryGoto ==
  ASSUME IInv, [Next]_vars, EntryInv, NEW c \in Calls, UNCHANGED <<pending, stale, offered>>,
         NEW pc \in PcType, Goto(c, pc),
         \/ pc \notin {"drop", "finish"} \cup Delivering
         \/ pc \in Delivering /\ calls[c].pc \in Delivering
         \/ calls[c].quote \in Quotes /\ quoted[calls[c].quote] = "reserved" /\ ~Live(calls[c].quote)
         \/ pc \in Delivering /\ calls[c].quote \in Quotes /\ pending[calls[c].quote] # NoPending
  PROVE  EntryInv'
<1>1. /\ calls'[c].pc = pc /\ calls'[c].quote = calls[c].quote
      /\ \A d \in Calls \ {c} : calls'[d] = calls[d]
  BY GotoFields DEF IInv
<1>2. ASSUME calls[c].quote \in Quotes, quoted[calls[c].quote] = "reserved",
             ~Live(calls[c].quote)
      PROVE  \E q \in Quotes : calls'[c].quote = q /\ ~Live(q)'
  BY <1>1, <1>2, NothingRevives
<1> QED
  BY <1>1, <1>2, EntryCallStep

\* A handler returns without touching an entry.
LEMMA EntryReturn ==
  ASSUME IInv, [Next]_vars, EntryInv, NEW c \in Calls, UNCHANGED <<pending, stale, offered>>,
         Return(c)
  PROVE  EntryInv'
BY ReturnFields, EntryCallStep DEF IInv, Delivering

\* A request arrives.
LEMMA RequestKeepsEntries ==
  ASSUME IInv, [Next]_vars, EntryInv, NEW c \in Calls, NEW q \in Quotes, Request(c, q)
  PROVE  EntryInv'
<1> USE DEF IInv
<1>1. /\ UNCHANGED <<pending, stale, offered>>
      /\ \A d \in Calls \ {c} : calls'[d] = calls[d]
  BY DEF Request, RequestQuote, AcceptQuote, DeliverConsignment, SubmitSignedPsbt, HandlerVars,
     Arrive, TypeOK
<1>2. calls'[c].pc \in {"select", "accept", "deliver", "sign"}
  <2>1. \A pc \in {"select", "sign"}, t \in Txids \cup {NoTx}, n \in Nat :
          /\ [Idle EXCEPT !.pc = pc, !.quote = q, !.left = n].pc = pc
          /\ [Idle EXCEPT !.pc = pc, !.quote = q, !.tx = t].pc = pc
    BY DEF Idle
  <2>2. CASE AcceptQuote(c, q) \/ DeliverConsignment(c, q)
    BY <2>2, ArriveFields DEF AcceptQuote, DeliverConsignment, PcType
  <2>3. CASE RequestQuote(c, q)
    BY <2>1, <2>3, MakerAssumption DEF RequestQuote, TypeOK
  <2>4. CASE SubmitSignedPsbt(c, q)
    BY <2>1, <2>4 DEF SubmitSignedPsbt, TypeOK
  <2> QED
    BY <2>2, <2>3, <2>4 DEF Request
<1> QED
  BY <1>1, <1>2, EntryCallStep DEF Delivering

\* A handler of a quote request runs on.
LEMMA QuoteStepKeepsEntries ==
  ASSUME IInv, [Next]_vars, EntryInv, NEW c \in Calls, QuoteStep(c)
  PROVE  EntryInv'
<1> USE DEF IInv
<1>1. UNCHANGED <<pending, stale, offered>>
  BY DEF QuoteStep, SelectCoins, DeclineQuote, ReserveCoins, ReserveContended, OnlyCallsChange,
     HandlerVars
<1>2. CASE Return(c)
  BY <1>1, <1>2, EntryReturn
<1>3. CASE ~Return(c)
  <2>1. /\ \A d \in Calls \ {c} : calls'[d] = calls[d]
        /\ calls'[c].pc \in {"select", "reserve"}
    <3>1. calls[c] \in CallType
      BY DEF TypeOK
    <3>2. CASE SelectCoins(c)
      <4>1. PICK S : calls' = [calls EXCEPT ![c].pc = "reserve", ![c].rows = S,
                                            ![c].attempts = @ + 1]
        BY <3>2 DEF SelectCoins
      <4> QED
        BY <3>1, <4>1 DEF TypeOK, CallType
    <3>3. CASE ReserveContended(c)
      <4>1. calls' = [calls EXCEPT ![c].pc = "select", ![c].rows = {},
                                   ![c].excluded = @ \cup calls[c].rows]
        BY <1>3, <3>3 DEF ReserveContended
      <4> QED
        BY <3>1, <4>1 DEF TypeOK, CallType
    <3> QED
      BY <1>3, <3>2, <3>3 DEF QuoteStep, DeclineQuote, ReserveCoins
  <2> QED
    BY <1>1, <2>1, EntryCallStep DEF Delivering
<1> QED
  BY <1>2, <1>3

\* A new transaction moves its call on.
LEMMA BuildKeepsEntries ==
  ASSUME IInv, [Next]_vars, EntryInv, NEW c \in Calls, BuildBuyPsbt(c) \/ BuildSellPsbt(c)
  PROVE  EntryInv'
<1>1. calls[c] \in CallType
  BY DEF IInv, TypeOK
<1>2. PICK to \in {"extendAccept", "extendDeliver"}, t \in Txids :
        /\ calls' = [calls EXCEPT ![c].pc = to, ![c].tx = t]
        /\ calls[c].pc = IF to = "extendAccept" THEN "buildBuy" ELSE "buildSell"
  BY DEF BuildBuyPsbt, BuildSellPsbt, BuildPsbt, At
<1>3. /\ calls'[c].pc = to /\ calls'[c].quote = calls[c].quote
      /\ \A d \in Calls \ {c} : calls'[d] = calls[d]
  BY <1>1, <1>2 DEF IInv, TypeOK, CallType
<1>4. UNCHANGED <<pending, stale, offered>>
  BY DEF BuildBuyPsbt, BuildSellPsbt, BuildPsbt, HandlerVars
<1> QED
  BY <1>2, <1>3, <1>4, EntryCallStep DEF Delivering

\* The rows are listed.
LEMMA ListingKeepsEntries ==
  ASSUME IInv, [Next]_vars, EntryInv, NEW c \in Calls, ListForAccept(c) \/ ListForDeliver(c)
  PROVE  EntryInv'
<1>1. calls[c] \in CallType
  BY DEF IInv, TypeOK
<1>2. PICK to \in {"buildBuy", "planRungs"} :
        /\ calls' = [calls EXCEPT ![c].pc = to, ![c].rows = HeldFor(utxos, Quote(c))]
        /\ calls[c].pc = IF to = "buildBuy" THEN "acceptRows" ELSE "deliverRows"
  BY DEF ListForAccept, ListForDeliver, ListReserved, At
<1>3. /\ calls'[c].pc = to /\ calls'[c].quote = calls[c].quote
      /\ \A d \in Calls \ {c} : calls'[d] = calls[d]
  BY <1>1, <1>2 DEF IInv, TypeOK, CallType
<1>4. UNCHANGED <<pending, stale, offered>>
  BY DEF ListForAccept, ListForDeliver, ListReserved, OnlyCallsChange, HandlerVars
<1> QED
  BY <1>2, <1>3, <1>4, EntryCallStep DEF Delivering

\* The buy intent, the sell intent or the PSBT is answered, with an entry if the
\* reservation lives.
LEMMA AnswersKeepEntries ==
  ASSUME IInv, [Next]_vars, EntryInv, NEW c \in Calls, ParkPending(c) \/ RecordPsbt(c)
  PROVE  EntryInv'
<1> USE DEF IInv
<1>1. calls[c].pc \in {"park", "recordPsbt"} /\ CallSound(calls[c])
  BY DEF CallsSound, ParkPending, RecordPsbt, At
<1>2. PICK q \in Quotes, t \in Txids \cup {NoTx} :
        q = calls[c].quote /\ t = calls[c].tx /\ quoted[q] = "reserved"
  <2>1. calls[c].tx \in Txids \cup {NoTx}
    BY DEF TypeOK, CallType
  <2> QED
    BY <1>1, <2>1 DEF CallSound, Quoting
<1>3. /\ \A d \in Calls \ {c} : calls'[d] = calls[d]
      /\ calls'[c].pc = "idle"
  BY ReturnFields DEF ParkPending, RecordPsbt
<1>4. stale' = stale /\ built' = built /\ utxos' = utxos
  BY DEF ParkPending, RecordPsbt, HandlerVars
<1>5. /\ offered' \ offered \subseteq {t}
      /\ offered' # offered => t \in Txids /\ built[t].quote = q
  BY <1>1, <1>2 DEF ParkPending, RecordPsbt, At, Quote, CallSound, Spends
<1>6. /\ \A p \in Quotes \ {q} : pending'[p] = pending[p]
      /\ pending[q] # NoPending => pending'[q] # NoPending
      /\ ParkPending(c) => pending'[q] # NoPending
  <2>1. IsBuy(q) /\ ParkPending(c) => t \in Txids
    BY <1>1, <1>2 DEF ParkPending, At, CallSound
  <2>2. RecordPsbt(c) => t \in Txids
    BY <1>1, <1>2 DEF RecordPsbt, At, CallSound
  <2> QED
    BY <1>2, <2>1, <2>2, MakerAssumption DEF ParkPending, RecordPsbt, Quote, TypeOK
<1>7. RecordPsbt(c) /\ Live(q) => pending[q] # NoPending
  BY <1>2 DEF RecordPsbt, At, EntryInv, EntrySound, Delivering
<1>8. Live(q)' <=> Live(q)
  BY <1>4 DEF Live, HeldFor
<1>9. \A u \in offered' \ offered, p \in Quotes :
        built'[u].quote = p /\ Live(p)' => pending'[p] # NoPending
  BY <1>4, <1>5, <1>6, <1>7, <1>8
<1>10. \A d \in Calls : Resumes(calls[d], calls'[d])
  BY <1>3 DEF Resumes
<1> QED
  BY <1>2, <1>4, <1>6, <1>9, <1>10, EntryStep

\* The reservation is looked up, extended, planned for, or given up.
LEMMA PositionsKeepEntries ==
  ASSUME IInv, [Next]_vars, EntryInv, NEW c \in Calls,
         \/ FindForAccept(c) \/ AcceptFails(c) \/ ExtendForAccept(c)
         \/ ReadForDeliver(c) \/ FindForDeliver(c) \/ DeliverFails(c) \/ PlanChangeRungs(c)
         \/ ExtendForDeliver(c)
  PROVE  EntryInv'
<1> USE DEF IInv
<1>1. UNCHANGED <<pending, stale, offered>>
  BY DEF FindForAccept, AcceptFails, ExtendForAccept, ReadForDeliver, FindForDeliver,
     DeliverFails, PlanChangeRungs, ExtendForDeliver, Extend, FindLive, OnlyCallsChange, HandlerVars
<1>2. calls[c].pc \notin {"idle"} \cup Quoting
  BY DEF FindForAccept, AcceptFails, ExtendForAccept, ReadForDeliver, FindForDeliver,
     DeliverFails, PlanChangeRungs, ExtendForDeliver, Extend, FindLive, At, Quoting
<1>3. calls[c].quote \in Quotes /\ quoted[calls[c].quote] = "reserved"
  BY <1>2 DEF CallsSound, CallSound
<1>4. CASE Return(c)
  BY <1>1, <1>4, EntryReturn
<1>5. CASE /\ ~Return(c)
           /\ FindForAccept(c) \/ AcceptFails(c) \/ ExtendForAccept(c) \/ DeliverFails(c)
  <2>1. PICK pc \in {"acceptRows", "extendAccept", "release", "park", "releaseAndDrop"} : Goto(c, pc)
    BY <1>5 DEF FindForAccept, AcceptFails, ExtendForAccept, DeliverFails, Extend
  <2> QED
    BY <1>1, <2>1, EntryGoto DEF PcType, Delivering
<1>6. CASE ~Return(c) /\ ReadForDeliver(c)
  BY <1>1, <1>3, <1>6, EntryGoto DEF ReadForDeliver, PcType, Delivering, Quote
<1>7. CASE FindForDeliver(c)
  <2>1. calls[c].pc \in Delivering
    BY <1>7 DEF FindForDeliver, FindLive, At, Delivering
  <2>2. Goto(c, "deliverRows") \/ (Goto(c, "drop") /\ ~Live(calls[c].quote))
    BY <1>7 DEF FindForDeliver, FindLive, Quote
  <2>3. CASE Goto(c, "deliverRows")
    BY <1>1, <2>1, <2>3, EntryGoto DEF PcType, Delivering
  <2>4. CASE Goto(c, "drop") /\ ~Live(calls[c].quote)
    BY <1>1, <1>3, <2>4, EntryGoto DEF PcType
  <2> QED
    BY <2>2, <2>3, <2>4
<1>8. CASE ~Return(c) /\ (PlanChangeRungs(c) \/ ExtendForDeliver(c))
  <2>1. calls[c].pc \in Delivering
    BY <1>8 DEF PlanChangeRungs, ExtendForDeliver, Extend, At, Delivering
  <2>2. Goto(c, "buildSell") \/ Goto(c, "recordPsbt")
    BY <1>8 DEF PlanChangeRungs, ExtendForDeliver, Extend
  <2> QED
    BY <1>1, <2>1, <2>2, EntryGoto DEF PcType, Delivering
<1> QED
  BY <1>4, <1>5, <1>6, <1>7, <1>8

\* A handler of /sign runs on: it finishes only once the reservation is committed.
LEMMA SignStepKeepsEntries ==
  ASSUME IInv, [Next]_vars, EntryInv, NEW c \in Calls, SignStep(c)
  PROVE  EntryInv'
<1> USE DEF IInv
<1>1. UNCHANGED <<pending, stale, offered>>
  BY DEF SignStep, ReadForSign, FindForSign, FindLive, Finalize, FinalizeFails,
     BroadcastAccepted, BroadcastRefused, BroadcastReplyLost, MarkPending, SaveConsignment,
     RecordFill, OnlyCallsChange, HandlerVars
<1>2. calls[c].pc \in Signing /\ CallSound(calls[c])
  BY DEF SignStep, ReadForSign, FindForSign, FindLive, Finalize, FinalizeFails,
     BroadcastAccepted, BroadcastRefused, BroadcastReplyLost, MarkPending, SaveConsignment,
     RecordFill, At, Signing, Recording, CallsSound
<1>3. calls[c].quote \in Quotes /\ quoted[calls[c].quote] = "reserved"
  BY <1>2 DEF CallSound, Signing, Recording, Quoting
<1>4. CASE Return(c)
  BY <1>1, <1>4, EntryReturn
<1>5. CASE ~Return(c) /\ ReadForSign(c)
  <2>1. calls[c] \in CallType
    BY DEF TypeOK
  <2>2. calls'[c].pc = "signFind" /\ \A d \in Calls \ {c} : calls'[d] = calls[d]
    BY <1>5, <2>1 DEF ReadForSign, TypeOK, CallType
  <2> QED
    BY <1>1, <2>2, EntryCallStep DEF Delivering
<1>6. CASE FindForSign(c)
  <2>1. Goto(c, "finalize") \/ (Goto(c, "drop") /\ ~Live(calls[c].quote))
    BY <1>6 DEF FindForSign, FindLive, Quote
  <2>2. CASE Goto(c, "finalize")
    BY <1>1, <2>2, EntryGoto DEF PcType, Delivering
  <2>3. CASE Goto(c, "drop") /\ ~Live(calls[c].quote)
    BY <1>1, <1>3, <2>3, EntryGoto DEF PcType
  <2> QED
    BY <2>1, <2>2, <2>3
<1>7. CASE RecordFill(c)
  <2>1. Goto(c, "finish") /\ ~Live(calls[c].quote)
    BY <1>2, <1>7 DEF RecordFill, At, CallSound, Recording
  <2> QED
    BY <1>1, <1>3, <2>1, EntryGoto DEF PcType
<1>8. CASE ~Return(c) /\ ~ReadForSign(c) /\ ~FindForSign(c) /\ ~RecordFill(c)
  <2>1. PICK pc \in {"broadcast", "releaseAndDrop", "markPending", "saveConsignment", "recordFill"} :
          Goto(c, pc)
    BY <1>8 DEF SignStep, Finalize, FinalizeFails, BroadcastAccepted, BroadcastRefused,
       BroadcastReplyLost, MarkPending, SaveConsignment
  <2> QED
    BY <1>1, <2>1, EntryGoto DEF PcType, Delivering
<1> QED
  BY <1>4, <1>5, <1>6, <1>7, <1>8

\* The entry is dropped, or the reservation given back, once the reservation is gone.
LEMMA EndingsKeepEntries ==
  ASSUME IInv, [Next]_vars, EntryInv, NEW c \in Calls, DropEntry(c) \/ GiveBack(c)
  PROVE  EntryInv'
<1> USE DEF IInv
<1>1. PICK q \in Quotes : q = calls[c].quote /\ quoted[q] = "reserved"
  <2>1. calls[c].pc \in {"finish", "drop", "release", "releaseAndDrop"}
    BY DEF DropEntry, GiveBack, At
  <2> QED
    BY <2>1 DEF CallsSound, CallSound, Quoting
<1>2. CASE DropEntry(c)
  <2>1. ~Live(q)
    BY <1>1, <1>2 DEF DropEntry, At, EntryInv, EntrySound
  <2>2. \A p \in Quotes \ {q} : pending'[p] = pending[p]
    BY <1>1, <1>2 DEF DropEntry, TypeOK, Quote
  <2>3. pending'[q] = NoPending /\ stale' = stale /\ offered' = offered
    BY <1>1, <1>2 DEF DropEntry, TypeOK, Quote, HandlerVars
  <2>4. \A d \in Calls : Resumes(calls[d], calls'[d])
    BY <1>2, Waiting DEF DropEntry
  <2> QED
    BY <2>1, <2>2, <2>3, <2>4, EntryStep
<1>3. CASE GiveBack(c)
  <2>1. UNCHANGED <<pending, stale, offered>>
    BY <1>3 DEF GiveBack, HandlerVars
  <2>2. CASE Return(c)
    BY <2>1, <2>2, EntryReturn
  <2>3. CASE Goto(c, "drop")
    <3>1. ~Live(q)'
      BY <1>1, <1>3 DEF GiveBack, ReleaseReservation, Rewrite, Live, HeldFor, Quote, Available
    <3>2. calls'[c].quote = q /\ \A d \in Calls \ {c} : calls'[d] = calls[d]
      BY <1>1, <2>3, GotoFields DEF PcType
    <3> QED
      BY <2>1, <3>1, <3>2, EntryCallStep
  <2> QED
    BY <1>3, <2>2, <2>3 DEF GiveBack
<1> QED
  BY <1>2, <1>3

\* The loops, the network, time and the faults; a restart would empty the map.
LEMMA SurroundingsKeepEntries ==
  ASSUME IInv, [Next]_vars, EntryInv, "crash" \notin FaultKinds,
         \/ Cleanup \/ Tick \/ Crash
         \/ \E q \in Quotes : Sweep(q)
         \/ \E t \in Txids : Mine(t) \/ Evict(t)
         \/ \E c \in Calls : DropCall(c)
         \/ UNCHANGED vars
  PROVE  EntryInv'
<1> USE DEF IInv
<1>1. ~Crash
  BY DEF Crash, Fault
<1>2. offered' = offered
  BY <1>1 DEF Cleanup, CleanupRelease, CleanupScan, CleanupPrune, Tick, Sweep, Mine, Evict,
     DropCall, vars
<1>3. \A d \in Calls : Resumes(calls[d], calls'[d])
  <2>1. CASE Tick
    <3>1. ASSUME NEW d \in Calls PROVE Resumes(calls[d], calls'[d])
      <4>1. calls[d] \in CallType
        BY DEF TypeOK
      <4> QED
        BY <2>1, <4>1 DEF Tick, CallType, Resumes
    <3> QED
      BY <3>1
  <2>2. CASE ~Tick
    <3>1. calls' = calls \/ \E c \in Calls : Return(c)
      BY <1>1, <2>2 DEF Cleanup, CleanupRelease, CleanupScan, CleanupPrune, Sweep, Mine, Evict,
         DropCall, vars
    <3> QED
      BY <3>1, Waiting
  <2> QED
    BY <2>1, <2>2
<1>4. \A q \in Quotes :
        /\ pending'[q] # NoPending => pending'[q] = pending[q]
        /\ pending[q] # NoPending /\ Live(q) => pending'[q] # NoPending
  BY <1>1 DEF Cleanup, CleanupRelease, CleanupScan, CleanupPrune, Tick, Sweep, Mine, Evict,
     DropCall, vars, EntryInv, TypeOK
<1>5. \A q \in stale' : q \in stale \/ (q \in Quotes /\ pending[q] # NoPending /\ ~Live(q))
  BY <1>1 DEF Cleanup, CleanupRelease, CleanupScan, CleanupPrune, Tick, Sweep, Mine, Evict,
     DropCall, vars
<1> QED
  BY <1>2, <1>3, <1>4, <1>5, EntryStep

\* Without restarts no step loses the entry of a live reservation.
LEMMA StepKeepsEntries ==
  ASSUME IInv, [Next]_vars, EntryInv, "crash" \notin FaultKinds
  PROVE  EntryInv'
<1>1. ASSUME NEW c \in Calls, Proceed(c) PROVE EntryInv'
  BY <1>1, QuoteStepKeepsEntries, PositionsKeepEntries, ListingKeepsEntries, BuildKeepsEntries,
     AnswersKeepEntries, SignStepKeepsEntries, EndingsKeepEntries
     DEF Proceed, AcceptStep, DeliverStep
<1> QED
  BY <1>1, RequestKeepsEntries, SurroundingsKeepEntries DEF Next

\* As long as the daemon does not restart, neither the cleanup loop nor an error path
\* drops the entry of a live reservation whose PSBT a taker holds, even when handlers are
\* dropped, replies are lost and transactions evicted.
THEOREM OffersFindEntries ==
  ASSUME "crash" \notin FaultKinds
  PROVE  Spec => []OfferFindsEntry
<1>1. Init => EntryInv
  <2>1. Init => \A c \in Calls : calls[c].pc = "idle"
    BY DEF Init, Idle
  <2> QED
    BY <2>1 DEF Init, EntryInv, EntrySound, Delivering, OfferFindsEntry
<1>2. IInv /\ EntryInv /\ [Next]_vars => EntryInv'
  BY StepKeepsEntries
<1>3. EntryInv => OfferFindsEntry
  BY DEF EntryInv
<1> QED
  BY <1>1, <1>2, <1>3, EngineSound, PTL DEF Spec
=============================================================================
