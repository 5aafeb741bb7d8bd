---------------------------- MODULE Treasury_proofs ----------------------------
(***************************************************************************)
(* What the pools offer is there to be spent: for any coins, contracts,    *)
(* swaps, ladders, commands and faults, an offered coin was spent by       *)
(* nothing but a transaction the pools were not told of, and a coin        *)
(* offered as plain BTC carries no allocation of a registered contract.    *)
(* What the planner and the composers compute plays no part in it: they    *)
(* are used by name.                                                       *)
(***************************************************************************)
EXTENDS Treasury, SequenceTheorems, TLAPS

\* What one reservation holds in a pool, and what the pool will not offer again.
HeldBy(pool, id) == {op \in DOMAIN pool : pool[op].status = "reserved" /\ pool[op].by = id}
Gone(pool) == {op \in DOMAIN pool : pool[op].status \in {"pending", "spent"}}

HeldInPools(id) == HeldBy(rgbPool, id) \cup HeldBy(btcPool, id)
GoneFromPools == Gone(rgbPool) \cup Gone(btcPool)

-----------------------------------------------------------------------------
(***************************************************************************)
(* The inductive invariant                                                 *)
(***************************************************************************)

\* The history is a sequence of transactions, the pools hold entries.
IsTx(x) == {"kind", "ins", "taker", "outs", "live"} \subseteq DOMAIN x /\ x.live \in BOOLEAN
IsHistory(s) == s \in Seq(Range(s)) /\ \A t \in DOMAIN s : IsTx(s[t])
IsEntry(x) == /\ {"status", "by"} \subseteq DOMAIN x
              /\ x.status \in {"available", "reserved", "pending", "spent"}
IsPool(pool) == \A op \in DOMAIN pool : IsEntry(pool[op])

SwapType == [pc : {"none", "quoted", "built", "sent", "settled", "dropped"}, tx : Nat]

Shapes ==
  /\ IsHistory(txs)
  /\ IsPool(rgbPool) /\ IsPool(btcPool)
  /\ swaps \in [Offers -> SwapType]
  /\ {"pc", "id", "plan", "todo", "tx"} \subseteq DOMAIN exec
  /\ exec.pc \in {"idle", "reserve", "built", "mark"}
  /\ faults \in Nat

\* What the cache and the pools name is an output of the history: it stays what it is.
CoinsAreKnown ==
  \A op \in cache \cup DOMAIN rgbPool \cup DOMAIN btcPool : op[1] \in DOMAIN txs

\* Allocations are in the one pool, plain coins in the other.
PoolsAreApart ==
  /\ \A op \in DOMAIN rgbPool : \E a \in Range(Traded) : Carries(a, op)
  /\ \A op \in DOMAIN btcPool : \A a \in Range(Traded) : ~Carries(a, op)

\* What a swap has composed is reserved for it until it is marked; a swap whose
\* reservation goes back before that is not one any more.
SwapsHoldInputs ==
  \A o \in Offers : swaps[o].pc \in {"built", "sent"} =>
    swaps[o].tx \in DOMAIN txs /\ txs[swaps[o].tx].ins \subseteq HeldInPools(SwapId(o))

\* So is what the executor has claimed and composed, until it is marked.
SplitIds == {<<"split", n>> : n \in Nat}

PassHoldsInputs ==
  /\ exec.pc # "idle" => exec.id \in SplitIds
  /\ exec.pc = "reserve" => Inputs(exec.plan) \ exec.todo \subseteq HeldInPools(exec.id)
  /\ exec.pc \in {"built", "mark"} =>
       exec.tx \in DOMAIN txs /\ txs[exec.tx].ins \subseteq HeldInPools(exec.id)

\* What a transaction spends the pools will not offer again, unless they never hear of
\* it, or it is about to be marked.
SpentIsGone ==
  \A t \in Live \ unacked :
    \/ txs[t].ins \subseteq GoneFromPools
    \/ exec.pc = "mark" /\ exec.tx = t
    \/ \E o \in Offers : swaps[o].pc = "sent" /\ swaps[o].tx = t

IInv == /\ Shapes /\ CoinsAreKnown /\ PoolsAreApart
        /\ SwapsHoldInputs /\ PassHoldsInputs /\ SpentIsGone

-----------------------------------------------------------------------------
(***************************************************************************)
(* The pools' operators                                                    *)
(***************************************************************************)

\* A pool that still has every coin, has lost none of those that are gone, and holds
\* what these reservations held.
Keeps(p, q, ids) ==
  /\ IsPool(q) /\ DOMAIN q = DOMAIN p
  /\ Gone(p) \subseteq Gone(q)
  /\ \A id \in ids : HeldBy(p, id) \subseteq HeldBy(q, id)

\* Claiming what is available disturbs nobody.
LEMMA ClaimKeeps ==
  ASSUME NEW p, IsPool(p), NEW ops, NEW id,
         \A op \in ops : op \in DOMAIN p => p[op].status = "available"
  PROVE  /\ \A ids : Keeps(p, Claim(p, ops, id), ids)
         /\ ops \cap DOMAIN p \subseteq HeldBy(Claim(p, ops, id), id)
<1> DEFINE q == Claim(p, ops, id)
<1>1. /\ DOMAIN q = DOMAIN p
      /\ \A op \in DOMAIN p :
           IF op \in ops THEN IsEntry(q[op]) /\ q[op].status = "reserved" /\ q[op].by = id
           ELSE q[op] = p[op]
  BY DEF Claim, IsPool, IsEntry
<1> HIDE DEF q
<1>2. IsPool(q) /\ Gone(p) \subseteq Gone(q) /\ ops \cap DOMAIN p \subseteq HeldBy(q, id)
  BY <1>1 DEF IsPool, Gone, HeldBy
<1>3. \A d : HeldBy(p, d) \subseteq HeldBy(q, d)
  BY <1>1 DEF HeldBy
<1> QED
  BY <1>1, <1>2, <1>3 DEF Keeps, q

\* A release or a mark moves what its own reservation holds, and nothing else.
LEMMA MoveKeeps ==
  ASSUME NEW p, IsPool(p), NEW id, NEW to \in {"available", "pending"}, NEW ids, id \notin ids
  PROVE  /\ Keeps(p, Move(p, id, "reserved", to), ids)
         /\ to = "pending" => HeldBy(p, id) \subseteq Gone(Move(p, id, "reserved", to))
<1> DEFINE q == Move(p, id, "reserved", to)
<1>1. /\ DOMAIN q = DOMAIN p
      /\ \A op \in DOMAIN p :
           IF p[op].by = id /\ p[op].status = "reserved"
           THEN IsEntry(q[op]) /\ q[op].status = to
           ELSE q[op] = p[op]
  BY DEF Move, IsPool, IsEntry
<1> HIDE DEF q
<1>2. /\ IsPool(q) /\ Gone(p) \subseteq Gone(q)
      /\ to = "pending" => HeldBy(p, id) \subseteq Gone(q)
  BY <1>1 DEF IsPool, Gone, HeldBy
<1>3. \A d \in ids : HeldBy(p, d) \subseteq HeldBy(q, d)
  BY <1>1 DEF HeldBy
<1> QED
  BY <1>1, <1>2, <1>3 DEF Keeps, q

\* A sweep retires what is pending: it was gone before.
LEMMA SweepKeeps ==
  ASSUME NEW p, IsPool(p)
  PROVE  \A ids : Keeps(p, SweepPool(p), ids)
<1> DEFINE q == SweepPool(p)
<1>1. /\ DOMAIN q = DOMAIN p
      /\ \A op \in DOMAIN p :
           IF p[op].status = "pending"
           THEN IsEntry(q[op]) /\ q[op].status = "spent"
           ELSE q[op] = p[op]
  BY DEF SweepPool, IsPool, IsEntry
<1> HIDE DEF q
<1>2. /\ IsPool(q) /\ Gone(p) \subseteq Gone(q)
      /\ \A d : HeldBy(p, d) \subseteq HeldBy(q, d)
  BY <1>1 DEF IsPool, Gone, HeldBy
<1> QED
  BY <1>1, <1>2 DEF Keeps, q

\* Only the reservations that nobody owns any more run out.
LEMMA ExpireKeeps ==
  ASSUME NEW p, IsPool(p)
  PROVE  Keeps(p, Expire(p), Owners)
<1> DEFINE q == Expire(p)
<1>1. /\ DOMAIN q = DOMAIN p
      /\ \A op \in DOMAIN p :
           IF p[op].status = "reserved" /\ p[op].by \notin Owners
           THEN IsEntry(q[op])
           ELSE q[op] = p[op]
  BY DEF Expire, IsPool, IsEntry
<1> HIDE DEF q
<1>2. /\ IsPool(q) /\ Gone(p) \subseteq Gone(q)
      /\ \A d \in Owners : HeldBy(p, d) \subseteq HeldBy(q, d)
  BY <1>1 DEF IsPool, Gone, HeldBy
<1> QED
  BY <1>1, <1>2 DEF Keeps, q

\* What comes in is available and new; what the pool has stays as it is.
LEMMA IngestKeeps ==
  ASSUME NEW p, IsPool(p), NEW entries, IsPool(entries)
  PROVE  /\ IsPool(Ingest(p, entries))
         /\ DOMAIN Ingest(p, entries) = DOMAIN p \cup DOMAIN entries
         /\ Gone(p) \subseteq Gone(Ingest(p, entries))
         /\ \A id : HeldBy(p, id) \subseteq HeldBy(Ingest(p, entries), id)
<1> DEFINE q == Ingest(p, entries)
<1>1. /\ DOMAIN q = DOMAIN p \cup DOMAIN entries
      /\ \A op \in DOMAIN p : q[op] = p[op]
      /\ \A op \in DOMAIN entries \ DOMAIN p : q[op] = entries[op]
  BY DEF Ingest, Unknown
<1> HIDE DEF q
<1>2. /\ IsPool(q) /\ Gone(p) \subseteq Gone(q)
      /\ \A d : HeldBy(p, d) \subseteq HeldBy(q, d)
  BY <1>1 DEF IsPool, Gone, HeldBy
<1> QED
  BY <1>1, <1>2 DEF q

-----------------------------------------------------------------------------
(***************************************************************************)
(* The history's operators                                                 *)
(***************************************************************************)

LiveIn(s) == {t \in DOMAIN s : s[t].live}

\* Nothing that was composed is composed anew.
Prolongs(s, r) ==
  /\ DOMAIN s \subseteq DOMAIN r
  /\ \A t \in DOMAIN s : r[t].ins = s[t].ins /\ r[t].outs = s[t].outs

\* A sequence that takes values of any kind is a sequence of its own elements.
LEMMA AppendIsSequence ==
  ASSUME NEW s, s \in Seq(Range(s)), NEW x
  PROVE  /\ Append(s, x) \in Seq(Range(Append(s, x)))
         /\ DOMAIN s = 1..Len(s) /\ Len(s) \in Nat
         /\ DOMAIN Append(s, x) = 1..(Len(s) + 1) /\ Len(Append(s, x)) = Len(s) + 1
         /\ \A i \in 1..Len(s) : Append(s, x)[i] = s[i]
         /\ Append(s, x)[Len(s) + 1] = x
<1> DEFINE S == Range(s) \cup {x}
<1>1. s \in Seq(S) /\ x \in S
  BY SeqMonotonic
<1> HIDE DEF S
<1>2. /\ Append(s, x) \in Seq(S) /\ Len(Append(s, x)) = Len(s) + 1
      /\ \A i \in 1..Len(s) : Append(s, x)[i] = s[i]
      /\ Append(s, x)[Len(s) + 1] = x
  BY <1>1, AppendProperties
<1>3. Append(s, x) \in Seq(Range(Append(s, x)))
  BY <1>2, SeqOfRange
<1>4. /\ DOMAIN s = 1..Len(s) /\ Len(s) \in Nat
      /\ DOMAIN Append(s, x) = 1..Len(Append(s, x))
  BY <1>1, <1>2, LenProperties
<1> QED
  BY <1>2, <1>3, <1>4

\* A transaction composed is one more, and nobody has it yet.
LEMMA ComposeProlongs ==
  ASSUME IsHistory(txs), NEW kind, NEW ins, NEW taker, NEW outs, NEW r,
         r = Compose(kind, ins, taker, outs)
  PROVE  /\ IsHistory(r) /\ Prolongs(txs, r)
         /\ Len(r) = Len(txs) + 1 /\ Len(r) \in DOMAIN r /\ Len(r) \in Nat
         /\ Len(r) \notin DOMAIN txs
         /\ r[Len(r)].ins = ins
         /\ LiveIn(r) = LiveIn(txs)
<1> DEFINE x == [kind |-> kind, ins |-> ins, taker |-> taker, outs |-> outs, live |-> FALSE]
<1>1. IsTx(x) /\ x.ins = ins /\ x.live = FALSE
  BY DEF IsTx
<1>2. r = Append(txs, x)
  BY DEF Compose
<1> HIDE DEF x
<1>3. /\ r \in Seq(Range(r)) /\ DOMAIN txs = 1..Len(txs) /\ Len(txs) \in Nat
      /\ DOMAIN r = 1..(Len(txs) + 1) /\ Len(r) = Len(txs) + 1
      /\ \A i \in 1..Len(txs) : r[i] = txs[i]
      /\ r[Len(txs) + 1] = x
  BY <1>2, AppendIsSequence DEF IsHistory
<1>4. IsHistory(r)
  BY <1>1, <1>3 DEF IsHistory
<1>5. LiveIn(r) = LiveIn(txs)
  BY <1>1, <1>3 DEF LiveIn
<1> QED
  BY <1>1, <1>3, <1>4, <1>5 DEF Prolongs

\* A transaction sent is one that everybody has.
LEMMA PublishProlongs ==
  ASSUME NEW s, IsHistory(s), NEW t \in DOMAIN s
  PROVE  /\ IsHistory(Publish(s, t)) /\ Prolongs(s, Publish(s, t))
         /\ DOMAIN Publish(s, t) = DOMAIN s
         /\ LiveIn(Publish(s, t)) = LiveIn(s) \cup {t}
<1> DEFINE x == [s[t] EXCEPT !.live = TRUE]
           r == [s EXCEPT ![t] = x]
<1>1. IsTx(x) /\ x.ins = s[t].ins /\ x.outs = s[t].outs /\ x.live = TRUE
  BY DEF IsHistory, IsTx
<1>2. Publish(s, t) = r
  BY DEF Publish
<1> HIDE DEF x
<1>3. DOMAIN r = DOMAIN s /\ r[t] = x /\ \A i \in DOMAIN s : i # t => r[i] = s[i]
  OBVIOUS
<1>4. r \in Seq(Range(r))
  <2> DEFINE S == Range(s) \cup {x}
  <2>1. s \in Seq(S) /\ x \in S /\ t \in 1..Len(s)
    BY SeqMonotonic, LenProperties DEF IsHistory
  <2> HIDE DEF S
  <2>2. r \in Seq(S)
    BY <2>1, ExceptSeq
  <2> QED
    BY <2>2, SeqOfRange
<1> HIDE DEF r
<1>5. IsHistory(r)
  BY <1>1, <1>3, <1>4 DEF IsHistory
<1>6. LiveIn(r) = LiveIn(s) \cup {t}
  BY <1>1, <1>3 DEF LiveIn
<1> QED
  BY <1>1, <1>2, <1>3, <1>5, <1>6 DEF Prolongs

\* A coin of the history stays what it is.
LEMMA CoinsStay ==
  ASSUME Prolongs(txs, txs')
  PROVE  \A op : op[1] \in DOMAIN txs => \A a : Carries(a, op)' = Carries(a, op)
  BY DEF Prolongs, Carries, Coin

-----------------------------------------------------------------------------
(***************************************************************************)
(* What a step must leave alone, conjunct by conjunct                      *)
(***************************************************************************)

\* A pool takes in what the cache has, the one allocations and the other plain coins.
LEMMA CoinsFrame ==
  ASSUME IInv, Prolongs(txs, txs'),
         \A op \in cache' : op[1] \in DOMAIN txs',
         \A op \in DOMAIN rgbPool' : \/ op \in DOMAIN rgbPool
                                     \/ op \in cache /\ \E a \in Range(Traded) : Carries(a, op),
         \A op \in DOMAIN btcPool' : \/ op \in DOMAIN btcPool
                                     \/ op \in cache /\ \A a \in Range(Traded) : ~Carries(a, op)
  PROVE  CoinsAreKnown' /\ PoolsAreApart'
<1>1. \A op \in cache \cup DOMAIN rgbPool \cup DOMAIN btcPool :
        op[1] \in DOMAIN txs /\ op[1] \in DOMAIN txs'
        /\ \A a : Carries(a, op)' = Carries(a, op)
  BY CoinsStay DEF IInv, CoinsAreKnown, Prolongs
<1>2. CoinsAreKnown'
  BY <1>1 DEF CoinsAreKnown
<1>3. PoolsAreApart'
  BY <1>1 DEF IInv, PoolsAreApart
<1> QED
  BY <1>2, <1>3

\* A swap keeps what it composed, and what it composed from.
LEMMA SwapsFrame ==
  ASSUME IInv, Prolongs(txs, txs'),
         \A o \in Offers : swaps'[o].pc \in {"built", "sent"} =>
           swaps'[o] = swaps[o] /\ HeldInPools(SwapId(o)) \subseteq HeldInPools(SwapId(o))'
  PROVE  SwapsHoldInputs'
  BY DEF IInv, SwapsHoldInputs, Prolongs

\* So does the pass of the executor.
LEMMA PassFrame ==
  ASSUME IInv, Prolongs(txs, txs'), exec' = exec,
         NEW id, id = exec.id,
         exec.pc # "idle" => HeldInPools(id) \subseteq HeldInPools(id)'
  PROVE  PassHoldsInputs'
<1>1. HeldInPools(exec.id)' = HeldInPools(id)' /\ HeldInPools(exec.id) = HeldInPools(id)
  BY DEF HeldInPools
<1> QED
  BY <1>1 DEF IInv, PassHoldsInputs, Prolongs

\* Nothing is spent that was not, and what is gone is gone.
LEMMA SpentFrame ==
  ASSUME IInv, Prolongs(txs, txs'), Live' \ unacked' \subseteq Live \ unacked,
         GoneFromPools \subseteq GoneFromPools',
         exec.pc = "mark" => exec' = exec \/ exec.tx \in unacked',
         \A o \in Offers : swaps[o].pc = "sent" => swaps'[o] = swaps[o] \/ swaps[o].tx \in unacked'
  PROVE  SpentIsGone'
  BY DEF IInv, SpentIsGone, Prolongs, Live

\* What keeps each pool keeps the two.
LEMMA PoolsFrame ==
  ASSUME NEW ids, Keeps(rgbPool, rgbPool', ids), Keeps(btcPool, btcPool', ids)
  PROVE  /\ IsPool(rgbPool') /\ IsPool(btcPool')
         /\ DOMAIN rgbPool' = DOMAIN rgbPool /\ DOMAIN btcPool' = DOMAIN btcPool
         /\ GoneFromPools \subseteq GoneFromPools'
         /\ \A id \in ids : HeldInPools(id) \subseteq HeldInPools(id)'
  BY DEF Keeps, GoneFromPools, HeldInPools

\* A pool left alone is kept.
LEMMA SameKeeps ==
  ASSUME NEW p, IsPool(p), NEW ids
  PROVE  Keeps(p, p, ids)
  BY DEF Keeps

\* A history left alone is prolonged.
LEMMA SameProlongs ==
  ASSUME UNCHANGED txs, IInv
  PROVE  /\ Prolongs(txs, txs') /\ IsHistory(txs')
         /\ LiveIn(txs') = LiveIn(txs) /\ Live = LiveIn(txs) /\ Live' = LiveIn(txs')
  BY DEF Prolongs, IInv, Shapes, LiveIn, Live

\* What a scan brings into the cache are outputs of the history.
LEMMA ScansAreKnown ==
  /\ \A op \in Synced : op[1] \in DOMAIN txs
  /\ \A op \in Rescanned : op[1] \in DOMAIN txs
<1>1. \A op \in Unspent : op[1] \in DOMAIN txs
  BY DEF Unspent, Live
<1> QED
  BY <1>1 DEF Synced, Rescanned

\* The RGB inventory takes coins of the cache that carry a contract of the registry.
LEMMA IngestRgbKeeps ==
  ASSUME NEW p, IsPool(p), NEW c, NEW heard, heard \subseteq Range(Traded), NEW q,
         q = IngestAllRgb(p, c, heard)
  PROVE  /\ IsPool(q) /\ Gone(p) \subseteq Gone(q)
         /\ \A id : HeldBy(p, id) \subseteq HeldBy(q, id)
         /\ \A op \in DOMAIN q : \/ op \in DOMAIN p
                                 \/ op \in c /\ \E a \in Range(Traded) : Carries(a, op)
<1> DEFINE Held(op) == {i \in DOMAIN Traded : Traded[i] \in heard /\ op \in RgbUtxos(c, Traded[i])}
           entries == [op \in {o \in c : Held(o) # {}} |-> Entry(Traded[Min(Held(op))], op)]
<1>1. q = Ingest(p, entries)
  BY DEF IngestAllRgb
<1>2. IsPool(entries)
  BY DEF IsPool, IsEntry, Entry
<1>3. \A op \in DOMAIN entries : op \in c /\ \E a \in Range(Traded) : Carries(a, op)
  BY DEF RgbUtxos
<1> HIDE DEF entries
<1>4. /\ IsPool(q) /\ DOMAIN q = DOMAIN p \cup DOMAIN entries
      /\ Gone(p) \subseteq Gone(q)
      /\ \A id : HeldBy(p, id) \subseteq HeldBy(q, id)
  BY <1>1, <1>2, IngestKeeps
<1> QED
  BY <1>3, <1>4

\* The BTC inventory takes those that carry none.
LEMMA IngestBtcKeeps ==
  ASSUME NEW p, IsPool(p), NEW c, NEW q, q = IngestBtc(p, c)
  PROVE  /\ IsPool(q) /\ Gone(p) \subseteq Gone(q)
         /\ \A id : HeldBy(p, id) \subseteq HeldBy(q, id)
         /\ \A op \in DOMAIN q : \/ op \in DOMAIN p
                                 \/ op \in c /\ \A a \in Range(Traded) : ~Carries(a, op)
<1> DEFINE entries == [op \in BtcOnly(c, Range(Traded)) |-> BtcEntry(op)]
<1>1. q = Ingest(p, entries)
  BY DEF IngestBtc
<1>2. IsPool(entries)
  BY DEF IsPool, IsEntry, BtcEntry
<1>3. \A op \in DOMAIN entries : op \in c /\ \A a \in Range(Traded) : ~Carries(a, op)
  BY DEF BtcOnly
<1> HIDE DEF entries
<1>4. /\ IsPool(q) /\ DOMAIN q = DOMAIN p \cup DOMAIN entries
      /\ Gone(p) \subseteq Gone(q)
      /\ \A id : HeldBy(p, id) \subseteq HeldBy(q, id)
  BY <1>1, <1>2, IngestKeeps
<1> QED
  BY <1>3, <1>4

-----------------------------------------------------------------------------
(***************************************************************************)
(* The executor (rebalance_once)                                           *)
(***************************************************************************)

AllIds == {SwapId(o) : o \in Offers} \cup SplitIds

\* Every reservation is a swap's or a pass's, and no two swaps share one.
LEMMA IdsDiffer ==
  /\ \A o, p \in Offers : o # p => SwapId(o) # SwapId(p)
  /\ \A o \in Offers : SwapId(o) \in AllIds /\ SwapId(o) \notin SplitIds
  /\ SplitIds \subseteq AllIds
<1>1. \A o, p : SwapId(o) = SwapId(p) => o = p
  BY DEF SwapId
<1>2. \A o, n : SwapId(o) # <<"split", n>>
  BY DEF SwapId
<1> QED
  BY <1>1, <1>2 DEF AllIds, SplitIds

\* A pass is begun with nothing claimed.
LEMMA PlanKeeps ==
  ASSUME IInv, Plan
  PROVE  IInv'
<1>1. /\ UNCHANGED <<txs, cache, rgbPool, btcPool, swaps, faults, unacked>>
      /\ exec.pc = "idle"
  BY DEF Plan
<1>2. PICK plan : exec' = [Idle EXCEPT !.pc = "reserve", !.id = SplitId, !.plan = plan,
                                      !.todo = Inputs(plan)]
  BY DEF Plan
<1>3. /\ {"pc", "id", "plan", "todo", "tx"} \subseteq DOMAIN exec'
      /\ exec'.pc = "reserve" /\ exec'.id = SplitId /\ exec'.plan = plan
      /\ exec'.todo = Inputs(plan)
  BY <1>2 DEF Idle
<1>4. SplitId \in SplitIds
  BY DEF IInv, Shapes, SplitId, SplitIds
<1>5. Inputs(exec.plan)' = Inputs(plan)
  BY <1>3 DEF Inputs, Sources
<1>6. PassHoldsInputs'
  BY <1>3, <1>4, <1>5 DEF PassHoldsInputs, SplitIds
<1>7. Shapes'
  BY <1>1, <1>3 DEF IInv, Shapes
<1>8. CoinsAreKnown' /\ PoolsAreApart'
  BY <1>1 DEF IInv, CoinsAreKnown, PoolsAreApart, Carries, Coin
<1>9. SwapsHoldInputs'
  BY <1>1 DEF IInv, SwapsHoldInputs, HeldInPools
<1>10. SpentIsGone'
  BY <1>1 DEF IInv, SpentIsGone, Live, GoneFromPools
<1> QED
  BY <1>6, <1>7, <1>8, <1>9, <1>10 DEF IInv

\* A pass that fails gives back what it has, and nobody else's.
LEMMA GiveUpKeeps ==
  ASSUME IInv, GiveUp, exec.pc \in {"reserve", "built"},
         IsHistory(txs'), Prolongs(txs, txs'), Live' \ unacked' \subseteq Live \ unacked,
         UNCHANGED <<swaps, cache>>, faults' \in Nat
  PROVE  IInv'
<1> PICK id \in SplitIds : id = exec.id
  BY DEF IInv, PassHoldsInputs
<1> DEFINE ids == {SwapId(o) : o \in Offers}
<1>1. id \notin ids
  BY IdsDiffer
<1>2. rgbPool' = Move(rgbPool, id, "reserved", "available")
      /\ btcPool' = Move(btcPool, id, "reserved", "available")
  BY DEF GiveUp, Release
<1>3. Keeps(rgbPool, rgbPool', ids) /\ Keeps(btcPool, btcPool', ids)
  <2> HIDE DEF ids
  <2> QED
    BY <1>1, <1>2, MoveKeeps DEF IInv, Shapes
<1>4. /\ IsPool(rgbPool') /\ IsPool(btcPool')
      /\ DOMAIN rgbPool' = DOMAIN rgbPool /\ DOMAIN btcPool' = DOMAIN btcPool
      /\ GoneFromPools \subseteq GoneFromPools'
      /\ \A d \in ids : HeldInPools(d) \subseteq HeldInPools(d)'
  <2> HIDE DEF ids
  <2> QED
    BY <1>3, PoolsFrame
<1>5. exec' = Idle
  BY DEF GiveUp
<1>6. Shapes'
  BY <1>4, <1>5 DEF IInv, Shapes, Idle
<1>7. \A op \in cache' : op[1] \in DOMAIN txs'
  BY DEF IInv, CoinsAreKnown, Prolongs
<1>8. CoinsAreKnown' /\ PoolsAreApart'
  BY <1>4, <1>7, CoinsFrame
<1>9. SwapsHoldInputs'
  BY <1>4, SwapsFrame
<1>10. PassHoldsInputs'
  BY <1>5 DEF PassHoldsInputs, Idle
<1>11. SpentIsGone'
  BY <1>4, SpentFrame
<1> QED
  BY <1>6, <1>8, <1>9, <1>10, <1>11 DEF IInv

\* A source is claimed when its pool offers it: what it was is nobody's.
LEMMA Reserve1Keeps ==
  ASSUME IInv, Reserve1
  PROVE  IInv'
<1>1. /\ UNCHANGED <<txs, cache, swaps, faults, unacked>> /\ exec.pc = "reserve"
  BY DEF Reserve1
<1>2. /\ Prolongs(txs, txs') /\ IsHistory(txs') /\ Live' = Live
  BY <1>1, SameProlongs
<1>3. CASE GiveUp
  BY <1>1, <1>2, <1>3, GiveUpKeeps DEF IInv, Shapes
<1>4. CASE ~GiveUp
  <2> DEFINE rgb(op) == op \in Sources(exec.plan)
             free(op) == IF rgb(op) THEN UNION {AvailableRgb(a) : a \in Contracts} ELSE AvailableBtc
  <2>1. PICK op : /\ op \in free(op)
                  /\ rgbPool' = (IF rgb(op) THEN Claim(rgbPool, {op}, exec.id) ELSE rgbPool)
                  /\ btcPool' = (IF rgb(op) THEN btcPool ELSE Claim(btcPool, {op}, exec.id))
                  /\ exec' = [exec EXCEPT !.todo = @ \ {op}]
    BY <1>4 DEF Reserve1
  <2>2. PICK id \in SplitIds : id = exec.id
    BY <1>1 DEF IInv, PassHoldsInputs
  <2>3. /\ rgb(op) => op \in DOMAIN rgbPool /\ rgbPool[op].status = "available"
        /\ ~rgb(op) => op \in DOMAIN btcPool /\ btcPool[op].status = "available"
    BY <2>1 DEF AvailableRgb, AvailableBtc
  <2>4. /\ Keeps(rgbPool, rgbPool', AllIds) /\ Keeps(btcPool, btcPool', AllIds)
        /\ op \in HeldBy(rgbPool', id) \cup HeldBy(btcPool', id)
    <3>1. CASE rgb(op)
      <4>1. rgbPool' = Claim(rgbPool, {op}, id) /\ btcPool' = btcPool
        BY <2>1, <2>2, <3>1
      <4>2. /\ Keeps(rgbPool, rgbPool', AllIds)
            /\ {op} \cap DOMAIN rgbPool \subseteq HeldBy(rgbPool', id)
        BY <2>3, <3>1, <4>1, ClaimKeeps DEF IInv, Shapes
      <4>3. Keeps(btcPool, btcPool', AllIds)
        BY <4>1, SameKeeps DEF IInv, Shapes
      <4> QED
        BY <2>3, <3>1, <4>2, <4>3
    <3>2. CASE ~rgb(op)
      <4>1. btcPool' = Claim(btcPool, {op}, id) /\ rgbPool' = rgbPool
        BY <2>1, <2>2, <3>2
      <4>2. /\ Keeps(btcPool, btcPool', AllIds)
            /\ {op} \cap DOMAIN btcPool \subseteq HeldBy(btcPool', id)
        BY <2>3, <3>2, <4>1, ClaimKeeps DEF IInv, Shapes
      <4>3. Keeps(rgbPool, rgbPool', AllIds)
        BY <4>1, SameKeeps DEF IInv, Shapes
      <4> QED
        BY <2>3, <3>2, <4>2, <4>3
    <3> QED
      BY <3>1, <3>2
  <2>5. /\ IsPool(rgbPool') /\ IsPool(btcPool')
        /\ DOMAIN rgbPool' = DOMAIN rgbPool /\ DOMAIN btcPool' = DOMAIN btcPool
        /\ GoneFromPools \subseteq GoneFromPools'
        /\ \A d \in AllIds : HeldInPools(d) \subseteq HeldInPools(d)'
    BY <2>4, PoolsFrame
  <2>6. /\ {"pc", "id", "plan", "todo", "tx"} \subseteq DOMAIN exec'
        /\ exec'.pc = "reserve" /\ exec'.id = id /\ exec'.plan = exec.plan
        /\ exec'.todo = exec.todo \ {op}
    BY <1>1, <2>1, <2>2 DEF IInv, Shapes
  <2>7. Shapes'
    BY <1>1, <1>2, <2>5, <2>6 DEF IInv, Shapes
  <2>8. CoinsAreKnown' /\ PoolsAreApart'
    <3>1. \A coin \in cache' : coin[1] \in DOMAIN txs'
      BY <1>1 DEF IInv, CoinsAreKnown
    <3> QED
      BY <1>2, <2>5, <3>1, CoinsFrame
  <2>9. SwapsHoldInputs'
    BY <1>1, <1>2, <2>5, SwapsFrame, IdsDiffer
  <2>10. PassHoldsInputs'
    <3>1. Inputs(exec.plan)' = Inputs(exec.plan)
      <4>1. PICK plan : plan = exec.plan
        OBVIOUS
      <4>2. Inputs(exec.plan)' = Inputs(plan)' /\ Inputs(exec.plan) = Inputs(plan)
        BY <2>6, <4>1 DEF Inputs, Sources
      <4> QED
        BY <4>2 DEF Inputs, Sources
    <3>2. Inputs(exec.plan) \ exec.todo \subseteq HeldInPools(id)
      BY <1>1, <2>2 DEF IInv, PassHoldsInputs, HeldInPools
    <3>3. HeldInPools(id) \subseteq HeldInPools(id)' /\ op \in HeldInPools(id)'
      BY <2>2, <2>4, <2>5, IdsDiffer DEF HeldInPools
    <3>4. HeldInPools(exec.id)' = HeldInPools(id)'
      BY <2>6 DEF HeldInPools
    <3>5. Inputs(exec.plan)' \ exec'.todo \subseteq HeldInPools(exec.id)'
      BY <2>6, <3>1, <3>2, <3>3, <3>4
    <3> QED
      BY <2>6, <3>5 DEF PassHoldsInputs
  <2>11. SpentIsGone'
    BY <1>1, <1>2, <2>5, SpentFrame
  <2> QED
    BY <2>7, <2>8, <2>9, <2>10, <2>11 DEF IInv
<1> QED
  BY <1>3, <1>4

\* A step that composes a transaction or sends one, and leaves the pools alone.
LEMMA HistoryStep ==
  ASSUME IInv, IsHistory(txs'), Prolongs(txs, txs'), UNCHANGED pools,
         \A op \in cache' : op[1] \in DOMAIN txs'
  PROVE  /\ CoinsAreKnown' /\ PoolsAreApart'
         /\ GoneFromPools' = GoneFromPools
         /\ \A id : HeldInPools(id)' = HeldInPools(id)
<1>1. rgbPool' = rgbPool /\ btcPool' = btcPool
  BY DEF pools
<1>2. CoinsAreKnown' /\ PoolsAreApart'
  BY <1>1, CoinsFrame
<1> QED
  BY <1>1, <1>2 DEF GoneFromPools, HeldInPools

\* A split is composed when everything has been claimed.
LEMMA BuildSplitKeeps ==
  ASSUME IInv, BuildSplit
  PROVE  IInv'
<1>1. /\ UNCHANGED <<cache, swaps, faults, unacked>>
      /\ exec.pc = "reserve" /\ exec.todo = {}
  BY DEF BuildSplit
<1>2. CASE GiveUp /\ UNCHANGED txs
  <2>1. /\ Prolongs(txs, txs') /\ IsHistory(txs') /\ Live' = Live
    BY <1>2, SameProlongs
  <2> QED
    BY <1>1, <1>2, <2>1, GiveUpKeeps DEF IInv, Shapes
<1>3. CASE ~(GiveUp /\ UNCHANGED txs)
  <2>1. PICK ins, outs :
          /\ ins = Inputs(exec.plan)
          /\ txs' = Compose("split", ins, <<>>, outs)
          /\ exec' = [exec EXCEPT !.pc = "built", !.tx = Len(txs')]
          /\ UNCHANGED pools
    BY <1>3 DEF BuildSplit
  <2>2. PICK r, n : r = txs' /\ n = Len(r)
    OBVIOUS
  <2>3. /\ IsHistory(r) /\ Prolongs(txs, r) /\ n \in DOMAIN r /\ r[n].ins = ins
        /\ LiveIn(r) = LiveIn(txs)
    BY <2>1, <2>2, ComposeProlongs DEF IInv, Shapes
  <2>4. Live' = Live
    BY <2>2, <2>3 DEF Live, LiveIn
  <2>5. PICK id \in SplitIds : id = exec.id
    BY <1>1 DEF IInv, PassHoldsInputs
  <2>6. /\ {"pc", "id", "plan", "todo", "tx"} \subseteq DOMAIN exec'
        /\ exec'.pc = "built" /\ exec'.tx = n /\ exec'.id = id
    BY <2>1, <2>2, <2>5 DEF IInv, Shapes
  <2>7. \A op \in cache' : op[1] \in DOMAIN txs'
    BY <1>1, <2>2, <2>3 DEF IInv, CoinsAreKnown, Prolongs
  <2>8. /\ CoinsAreKnown' /\ PoolsAreApart' /\ GoneFromPools' = GoneFromPools
        /\ \A d : HeldInPools(d)' = HeldInPools(d)
    BY <2>1, <2>2, <2>3, <2>7, HistoryStep
  <2>9. Shapes'
    BY <1>1, <2>1, <2>2, <2>3, <2>6 DEF IInv, Shapes, pools
  <2>10. SwapsHoldInputs'
    BY <1>1, <2>2, <2>3, <2>8, SwapsFrame
  <2>11. PassHoldsInputs'
    <3>1. ins \subseteq HeldInPools(id)
      BY <1>1, <2>1, <2>5 DEF IInv, PassHoldsInputs, HeldInPools
    <3>2. HeldInPools(exec.id)' = HeldInPools(id)'
      BY <2>6 DEF HeldInPools
    <3>3. txs'[exec'.tx].ins \subseteq HeldInPools(exec.id)'
      BY <2>2, <2>3, <2>6, <2>8, <3>1, <3>2
    <3> QED
      BY <2>2, <2>3, <2>6, <3>3 DEF PassHoldsInputs
  <2>12. SpentIsGone'
    BY <1>1, <2>2, <2>3, <2>4, <2>8, SpentFrame
  <2> QED
    BY <2>8, <2>9, <2>10, <2>11, <2>12 DEF IInv
<1> QED
  BY <1>2, <1>3

\* The executor's transaction is taken: it spends what the pass still holds.
LEMMA SentSplitKeeps ==
  ASSUME IInv, exec.pc = "built", txs' = Publish(txs, exec.tx),
         exec' = [exec EXCEPT !.pc = "mark"],
         UNCHANGED <<cache, rgbPool, btcPool, swaps, faults, unacked>>
  PROVE  IInv'
<1>1. PICK n \in DOMAIN txs : n = exec.tx
  BY DEF IInv, PassHoldsInputs
<1>2. PICK r : r = txs'
  OBVIOUS
<1>3. /\ IsHistory(r) /\ Prolongs(txs, r) /\ DOMAIN r = DOMAIN txs
      /\ LiveIn(r) = LiveIn(txs) \cup {n}
  BY <1>1, <1>2, PublishProlongs DEF IInv, Shapes
<1>4. PICK id \in SplitIds : id = exec.id
  BY DEF IInv, PassHoldsInputs
<1>5. /\ {"pc", "id", "plan", "todo", "tx"} \subseteq DOMAIN exec'
      /\ exec'.pc = "mark" /\ exec'.tx = n /\ exec'.id = id
  BY <1>1, <1>4 DEF IInv, Shapes
<1>6. \A op \in cache' : op[1] \in DOMAIN txs'
  BY <1>2, <1>3 DEF IInv, CoinsAreKnown
<1>7. /\ CoinsAreKnown' /\ PoolsAreApart' /\ GoneFromPools' = GoneFromPools
      /\ \A d : HeldInPools(d)' = HeldInPools(d)
  BY <1>2, <1>3, <1>6, HistoryStep DEF pools
<1>8. Shapes'
  BY <1>2, <1>3, <1>5 DEF IInv, Shapes
<1>9. SwapsHoldInputs'
  BY <1>2, <1>3, <1>7, SwapsFrame
<1>10. PassHoldsInputs'
  <2>1. txs[n].ins \subseteq HeldInPools(id)
    BY <1>1, <1>4 DEF IInv, PassHoldsInputs, HeldInPools
  <2>2. HeldInPools(exec.id)' = HeldInPools(id)'
    BY <1>5 DEF HeldInPools
  <2>3. txs'[exec'.tx].ins \subseteq HeldInPools(exec.id)'
    BY <1>2, <1>3, <1>5, <1>7, <2>1, <2>2 DEF Prolongs
  <2> QED
    BY <1>2, <1>3, <1>5, <2>3 DEF PassHoldsInputs
<1>11. SpentIsGone'
  <2>1. Live' = Live \cup {n}
    BY <1>2, <1>3 DEF Live, LiveIn
  <2> QED
    BY <1>2, <1>3, <1>5, <1>7, <2>1 DEF IInv, SpentIsGone, Prolongs, Live
<1> QED
  BY <1>7, <1>8, <1>9, <1>10, <1>11 DEF IInv

\* Broadcast: taken, refused, or taken without an answer, and then the pools are
\* told the wrong thing and the transaction is among the unacknowledged.
LEMMA BroadcastSplitKeeps ==
  ASSUME IInv, BroadcastSplit
  PROVE  IInv'
<1>1. UNCHANGED <<cache, swaps>> /\ exec.pc = "built"
  BY DEF BroadcastSplit
<1>2. \/ /\ txs' = Publish(txs, exec.tx) /\ exec' = [exec EXCEPT !.pc = "mark"]
         /\ UNCHANGED <<pools, faults, unacked>>
      \/ GiveUp /\ UNCHANGED <<txs, faults, unacked>>
      \/ /\ txs' = Publish(txs, exec.tx) /\ GiveUp
         /\ faults' = faults + 1 /\ unacked' = unacked \cup {exec.tx}
  BY DEF BroadcastSplit
<1>3. CASE /\ txs' = Publish(txs, exec.tx) /\ exec' = [exec EXCEPT !.pc = "mark"]
           /\ UNCHANGED <<pools, faults, unacked>>
  BY <1>1, <1>3, SentSplitKeeps DEF pools
<1>4. CASE GiveUp /\ UNCHANGED <<txs, faults, unacked>>
  <2>1. /\ Prolongs(txs, txs') /\ IsHistory(txs') /\ Live' = Live
    BY <1>4, SameProlongs
  <2> QED
    BY <1>1, <1>4, <2>1, GiveUpKeeps DEF IInv, Shapes
<1>5. CASE /\ txs' = Publish(txs, exec.tx) /\ GiveUp
           /\ faults' = faults + 1 /\ unacked' = unacked \cup {exec.tx}
  <2>1. exec.tx \in DOMAIN txs
    BY <1>1 DEF IInv, PassHoldsInputs
  <2>2. /\ IsHistory(txs') /\ Prolongs(txs, txs') /\ LiveIn(txs') = LiveIn(txs) \cup {exec.tx}
    BY <1>5, <2>1, PublishProlongs DEF IInv, Shapes
  <2>3. Live' \ unacked' \subseteq Live \ unacked
    BY <1>5, <2>2 DEF Live, LiveIn
  <2> QED
    BY <1>1, <1>5, <2>2, <2>3, GiveUpKeeps DEF IInv, Shapes
<1> QED
  BY <1>2, <1>3, <1>4, <1>5

\* Marked pending, what the split spent is gone.
LEMMA MarkSplitKeeps ==
  ASSUME IInv, MarkSplit
  PROVE  IInv'
<1>1. /\ UNCHANGED <<txs, cache, swaps, faults, unacked>>
      /\ exec.pc = "mark" /\ exec' = Idle
  BY DEF MarkSplit
<1>2. /\ Prolongs(txs, txs') /\ IsHistory(txs') /\ Live' = Live
  BY <1>1, SameProlongs
<1>3. PICK id \in SplitIds : id = exec.id
  BY <1>1 DEF IInv, PassHoldsInputs
<1> DEFINE ids == {SwapId(o) : o \in Offers}
<1>4. id \notin ids
  BY IdsDiffer
<1> HIDE DEF ids
<1>5. rgbPool' = Move(rgbPool, id, "reserved", "pending")
      /\ btcPool' = Move(btcPool, id, "reserved", "pending")
  BY <1>3 DEF MarkSplit, MarkPending
<1>6. /\ Keeps(rgbPool, rgbPool', ids) /\ HeldBy(rgbPool, id) \subseteq Gone(rgbPool')
      /\ Keeps(btcPool, btcPool', ids) /\ HeldBy(btcPool, id) \subseteq Gone(btcPool')
  BY <1>4, <1>5, MoveKeeps DEF IInv, Shapes
<1>7. /\ IsPool(rgbPool') /\ IsPool(btcPool')
      /\ DOMAIN rgbPool' = DOMAIN rgbPool /\ DOMAIN btcPool' = DOMAIN btcPool
      /\ GoneFromPools \subseteq GoneFromPools'
      /\ \A d \in ids : HeldInPools(d) \subseteq HeldInPools(d)'
  BY <1>6, PoolsFrame
<1>8. Shapes'
  BY <1>1, <1>2, <1>7 DEF IInv, Shapes, Idle
<1>9. CoinsAreKnown' /\ PoolsAreApart'
  <2>1. \A coin \in cache' : coin[1] \in DOMAIN txs'
    BY <1>1 DEF IInv, CoinsAreKnown
  <2> QED
    BY <1>2, <1>7, <2>1, CoinsFrame
<1>10. SwapsHoldInputs'
  BY <1>1, <1>2, <1>7, SwapsFrame DEF ids
<1>11. PassHoldsInputs'
  BY <1>1 DEF PassHoldsInputs, Idle
<1>12. SpentIsGone'
  <2>1. txs[exec.tx].ins \subseteq HeldInPools(id)
    BY <1>1, <1>3 DEF IInv, PassHoldsInputs, HeldInPools
  <2>2. HeldInPools(id) \subseteq GoneFromPools'
    BY <1>6 DEF HeldInPools, GoneFromPools
  <2> QED
    BY <1>1, <1>2, <1>7, <2>1, <2>2 DEF IInv, SpentIsGone
<1> QED
  BY <1>8, <1>9, <1>10, <1>11, <1>12 DEF IInv

-----------------------------------------------------------------------------
(***************************************************************************)
(* Swaps (request_quote, accept_quote, sign, release_expired)              *)
(***************************************************************************)

\* A quote claims coins that are offered, so it takes them from nobody.
LEMMA QuoteKeeps ==
  ASSUME IInv, NEW o \in Offers, QuoteBuy(o) \/ QuoteSell(o)
  PROVE  IInv'
<1>1. /\ UNCHANGED <<txs, cache, exec, faults, unacked>> /\ swaps[o].pc = "none"
      /\ swaps' = [swaps EXCEPT ![o].pc = "quoted"]
  BY DEF QuoteBuy, QuoteSell, Quoted
<1>2. /\ Prolongs(txs, txs') /\ IsHistory(txs') /\ Live' = Live
  BY <1>1, SameProlongs
<1>3. Keeps(rgbPool, rgbPool', AllIds) /\ Keeps(btcPool, btcPool', AllIds)
  <2>1. CASE QuoteBuy(o)
    <3>1. PICK ops \in SUBSET AvailableRgb(o.asset) : rgbPool' = Claim(rgbPool, ops, SwapId(o))
      BY <2>1 DEF QuoteBuy
    <3>2. Keeps(rgbPool, rgbPool', AllIds)
      BY <3>1, ClaimKeeps DEF AvailableRgb, IInv, Shapes
    <3> QED
      BY <2>1, <3>2, SameKeeps DEF QuoteBuy, IInv, Shapes
  <2>2. CASE QuoteSell(o)
    <3>1. PICK ops \in SUBSET AvailableBtc : btcPool' = Claim(btcPool, ops, SwapId(o))
      BY <2>2 DEF QuoteSell
    <3>2. Keeps(btcPool, btcPool', AllIds)
      BY <3>1, ClaimKeeps DEF AvailableBtc, IInv, Shapes
    <3> QED
      BY <2>2, <3>2, SameKeeps DEF QuoteSell, IInv, Shapes
  <2> QED
    BY <2>1, <2>2
<1>4. /\ IsPool(rgbPool') /\ IsPool(btcPool')
      /\ DOMAIN rgbPool' = DOMAIN rgbPool /\ DOMAIN btcPool' = DOMAIN btcPool
      /\ GoneFromPools \subseteq GoneFromPools'
      /\ \A d \in AllIds : HeldInPools(d) \subseteq HeldInPools(d)'
  BY <1>3, PoolsFrame
<1>5. /\ swaps' \in [Offers -> SwapType] /\ swaps'[o].pc = "quoted"
      /\ \A p \in Offers : p # o => swaps'[p] = swaps[p]
  BY <1>1 DEF IInv, Shapes, SwapType
<1>6. Shapes'
  BY <1>1, <1>2, <1>4, <1>5 DEF IInv, Shapes
<1>7. CoinsAreKnown' /\ PoolsAreApart'
  <2>1. \A coin \in cache' : coin[1] \in DOMAIN txs'
    BY <1>1 DEF IInv, CoinsAreKnown
  <2> QED
    BY <1>2, <1>4, <2>1, CoinsFrame
<1>8. SwapsHoldInputs'
  BY <1>2, <1>4, <1>5, SwapsFrame, IdsDiffer
<1>9. PassHoldsInputs'
  <2>1. PICK id : id = exec.id
    OBVIOUS
  <2>2. exec.pc # "idle" => id \in AllIds
    BY <2>1, IdsDiffer DEF IInv, PassHoldsInputs
  <2> QED
    BY <1>1, <1>2, <1>4, <2>1, <2>2, PassFrame
<1>10. SpentIsGone'
  BY <1>1, <1>2, <1>4, <1>5, SpentFrame
<1> QED
  BY <1>6, <1>7, <1>8, <1>9, <1>10 DEF IInv

\* A swap dropped gives back what it has, and nobody else's.  What it sent before is
\* what the pools never hear of.
LEMMA DropKeeps ==
  ASSUME IInv, NEW o \in Offers, DropSwap(o),
         IsHistory(txs'), Prolongs(txs, txs'), Live' \ unacked' \subseteq Live \ unacked,
         UNCHANGED exec, faults' \in Nat,
         swaps[o].pc = "sent" => swaps[o].tx \in unacked',
         \A op \in cache' : op[1] \in DOMAIN txs
  PROVE  IInv'
<1> DEFINE ids == AllIds \ {SwapId(o)}
<1>1. SwapId(o) \notin ids
  OBVIOUS
<1>2. /\ \A p \in Offers : p # o => SwapId(p) \in ids
      /\ SplitIds \subseteq ids
  BY IdsDiffer
<1> HIDE DEF ids
<1>3. rgbPool' = Move(rgbPool, SwapId(o), "reserved", "available")
      /\ btcPool' = Move(btcPool, SwapId(o), "reserved", "available")
  BY DEF DropSwap, Release
<1>4. Keeps(rgbPool, rgbPool', ids) /\ Keeps(btcPool, btcPool', ids)
  BY <1>1, <1>3, MoveKeeps DEF IInv, Shapes
<1>5. /\ IsPool(rgbPool') /\ IsPool(btcPool')
      /\ DOMAIN rgbPool' = DOMAIN rgbPool /\ DOMAIN btcPool' = DOMAIN btcPool
      /\ GoneFromPools \subseteq GoneFromPools'
      /\ \A d \in ids : HeldInPools(d) \subseteq HeldInPools(d)'
  BY <1>4, PoolsFrame
<1>6. /\ swaps' \in [Offers -> SwapType] /\ swaps'[o].pc = "dropped"
      /\ \A p \in Offers : p # o => swaps'[p] = swaps[p]
  BY DEF DropSwap, IInv, Shapes, SwapType
<1>7. Shapes'
  BY <1>5, <1>6 DEF IInv, Shapes
<1>8. CoinsAreKnown' /\ PoolsAreApart'
  BY <1>5, CoinsFrame DEF Prolongs
<1>9. SwapsHoldInputs'
  BY <1>2, <1>5, <1>6, SwapsFrame
<1>10. PassHoldsInputs'
  <2>1. PICK id : id = exec.id
    OBVIOUS
  <2>2. exec.pc # "idle" => id \in ids
    BY <1>2, <2>1 DEF IInv, PassHoldsInputs
  <2> QED
    BY <1>5, <2>1, <2>2, PassFrame
<1>11. SpentIsGone'
  BY <1>5, <1>6, SpentFrame
<1> QED
  BY <1>7, <1>8, <1>9, <1>10, <1>11 DEF IInv

\* A swap is composed from what it has reserved.
LEMMA BuiltKeeps ==
  ASSUME IInv, NEW o \in Offers, swaps[o].pc = "quoted", NEW outs, Built(o, ReservedBy(SwapId(o)), outs),
         UNCHANGED <<exec, faults, unacked>>, \A op \in cache' : op[1] \in DOMAIN txs
  PROVE  IInv'
<1>1. PICK ins : ins = ReservedBy(SwapId(o))
  OBVIOUS
<1>2. PICK r, n : r = txs' /\ n = Len(r)
  OBVIOUS
<1>3. /\ r = Compose(o.side, ins, o.taker, outs) /\ UNCHANGED pools
      /\ swaps' = [swaps EXCEPT ![o] = [pc |-> "built", tx |-> n]]
  BY <1>1, <1>2 DEF Built
<1>4. /\ IsHistory(r) /\ Prolongs(txs, r) /\ n \in DOMAIN r /\ n \in Nat /\ r[n].ins = ins
      /\ LiveIn(r) = LiveIn(txs)
  BY <1>2, <1>3, ComposeProlongs DEF IInv, Shapes
<1>5. Live' = Live
  BY <1>2, <1>4 DEF Live, LiveIn
<1>6. \A op \in cache' : op[1] \in DOMAIN txs'
  BY <1>2, <1>4 DEF Prolongs
<1>7. /\ CoinsAreKnown' /\ PoolsAreApart' /\ GoneFromPools' = GoneFromPools
      /\ \A d : HeldInPools(d)' = HeldInPools(d)
  BY <1>2, <1>3, <1>4, <1>6, HistoryStep
<1>8. /\ swaps' \in [Offers -> SwapType] /\ swaps'[o] = [pc |-> "built", tx |-> n]
      /\ \A p \in Offers : p # o => swaps'[p] = swaps[p]
  BY <1>3, <1>4 DEF IInv, Shapes, SwapType
<1>9. Shapes'
  BY <1>2, <1>3, <1>4, <1>8 DEF IInv, Shapes, pools
<1>10. SwapsHoldInputs'
  <2>1. ins \subseteq HeldInPools(SwapId(o))
    BY <1>1 DEF ReservedBy, HeldInPools, HeldBy
  <2> QED
    BY <1>2, <1>4, <1>7, <1>8, <2>1 DEF IInv, SwapsHoldInputs, Prolongs
<1>11. PassHoldsInputs'
  <2>1. PICK id : id = exec.id
    OBVIOUS
  <2> QED
    BY <1>2, <1>4, <1>7, <2>1, PassFrame
<1>12. SpentIsGone'
  BY <1>2, <1>4, <1>5, <1>7, <1>8, SpentFrame
<1> QED
  BY <1>7, <1>9, <1>10, <1>11, <1>12 DEF IInv

\* Built from the cache, or from what a rescan found; or dropped.
LEMMA BuildSwapKeeps ==
  ASSUME IInv, NEW o \in Offers, BuildBuy(o) \/ BuildSell(o)
  PROVE  IInv'
<1>1. /\ UNCHANGED <<exec, faults, unacked>> /\ cache' \in {cache, Rescanned}
      /\ swaps[o].pc = "quoted"
  BY DEF BuildBuy, BuildSell
<1>2. \A op \in cache' : op[1] \in DOMAIN txs
  BY <1>1, ScansAreKnown DEF IInv, CoinsAreKnown
<1>3. \/ \E outs : Built(o, ReservedBy(SwapId(o)), outs)
      \/ DropSwap(o) /\ UNCHANGED txs
  BY DEF BuildBuy, BuildSell
<1>4. CASE DropSwap(o) /\ UNCHANGED txs
  BY <1>1, <1>2, <1>4, DropKeeps, SameProlongs DEF IInv, Shapes
<1> QED
  BY <1>1, <1>2, <1>3, <1>4, BuiltKeeps

\* A swap sent holds what it spends.
LEMMA SentSwapKeeps ==
  ASSUME IInv, NEW o \in Offers, swaps[o].pc = "built",
         txs' = Publish(txs, swaps[o].tx), swaps' = [swaps EXCEPT ![o].pc = "sent"],
         UNCHANGED <<cache, rgbPool, btcPool, exec, faults, unacked>>
  PROVE  IInv'
<1>1. PICK n \in DOMAIN txs : n = swaps[o].tx
  BY DEF IInv, SwapsHoldInputs
<1>2. PICK r : r = txs'
  OBVIOUS
<1>3. /\ IsHistory(r) /\ Prolongs(txs, r) /\ DOMAIN r = DOMAIN txs
      /\ LiveIn(r) = LiveIn(txs) \cup {n}
  BY <1>1, <1>2, PublishProlongs DEF IInv, Shapes
<1>4. /\ swaps' \in [Offers -> SwapType] /\ swaps'[o] = [swaps[o] EXCEPT !.pc = "sent"]
      /\ \A p \in Offers : p # o => swaps'[p] = swaps[p]
  BY DEF IInv, Shapes, SwapType
<1>5. swaps'[o].pc = "sent" /\ swaps'[o].tx = n
  BY <1>1, <1>4 DEF IInv, Shapes, SwapType
<1>6. \A op \in cache' : op[1] \in DOMAIN txs'
  BY <1>2, <1>3 DEF IInv, CoinsAreKnown
<1>7. /\ CoinsAreKnown' /\ PoolsAreApart' /\ GoneFromPools' = GoneFromPools
      /\ \A d : HeldInPools(d)' = HeldInPools(d)
  BY <1>2, <1>3, <1>6, HistoryStep DEF pools
<1>8. Shapes'
  BY <1>2, <1>3, <1>4 DEF IInv, Shapes
<1>9. SwapsHoldInputs'
  BY <1>1, <1>2, <1>3, <1>4, <1>5, <1>7 DEF IInv, SwapsHoldInputs, Prolongs
<1>10. PassHoldsInputs'
  <2>1. PICK id : id = exec.id
    OBVIOUS
  <2> QED
    BY <1>2, <1>3, <1>7, <2>1, PassFrame
<1>11. SpentIsGone'
  <2>1. Live' = Live \cup {n}
    BY <1>2, <1>3 DEF Live, LiveIn
  <2> QED
    BY <1>2, <1>3, <1>4, <1>5, <1>7, <2>1 DEF IInv, SpentIsGone, Prolongs, Live
<1> QED
  BY <1>7, <1>8, <1>9, <1>10, <1>11 DEF IInv

\* A swap taken by the network, refused by it, or taken with no answer.
LEMMA BroadcastSwapKeeps ==
  ASSUME IInv, NEW o \in Offers, BroadcastSwap(o)
  PROVE  IInv'
<1>1. UNCHANGED <<cache, exec>> /\ swaps[o].pc = "built"
  BY DEF BroadcastSwap
<1>2. \A op \in cache' : op[1] \in DOMAIN txs
  BY <1>1 DEF IInv, CoinsAreKnown
<1>3. CASE txs' = Publish(txs, swaps[o].tx) /\ swaps' = [swaps EXCEPT ![o].pc = "sent"]
           /\ UNCHANGED <<pools, faults, unacked>>
  BY <1>1, <1>3, SentSwapKeeps DEF pools
<1>4. CASE DropSwap(o) /\ UNCHANGED <<txs, faults, unacked>>
  BY <1>1, <1>2, <1>4, SameProlongs, DropKeeps DEF IInv, Shapes
<1>5. CASE txs' = Publish(txs, swaps[o].tx) /\ faults' = faults + 1
           /\ unacked' = unacked \cup {swaps[o].tx} /\ DropSwap(o)
  <2>1. PICK n \in DOMAIN txs : n = swaps[o].tx
    BY <1>1 DEF IInv, SwapsHoldInputs
  <2>2. PICK r : r = txs'
    OBVIOUS
  <2>3. IsHistory(r) /\ Prolongs(txs, r) /\ LiveIn(r) = LiveIn(txs) \cup {n}
    BY <1>5, <2>1, <2>2, PublishProlongs DEF IInv, Shapes
  <2>4. Live' \ unacked' \subseteq Live \ unacked
    BY <1>5, <2>1, <2>2, <2>3 DEF Live, LiveIn
  <2>5. faults' \in Nat
    BY <1>5 DEF IInv, Shapes
  <2> QED
    BY <1>1, <1>2, <1>5, <2>2, <2>3, <2>4, <2>5, DropKeeps
<1> QED
  BY <1>3, <1>4, <1>5 DEF BroadcastSwap

\* A swap marked: what it spends is gone from the pools.
LEMMA MarkSwapKeeps ==
  ASSUME IInv, NEW o \in Offers, MarkSwap(o)
  PROVE  IInv'
<1>1. /\ swaps[o].pc = "sent" /\ UNCHANGED <<txs, cache, exec, faults, unacked>>
      /\ rgbPool' = MarkPending(rgbPool, SwapId(o)) /\ btcPool' = MarkPending(btcPool, SwapId(o))
      /\ swaps' = [swaps EXCEPT ![o].pc = "settled"]
  BY DEF MarkSwap
<1>2. /\ Prolongs(txs, txs') /\ IsHistory(txs') /\ Live' = Live
  BY <1>1, SameProlongs
<1> DEFINE ids == AllIds \ {SwapId(o)}
<1>3. SwapId(o) \notin ids
  OBVIOUS
<1>4. /\ \A p \in Offers : p # o => SwapId(p) \in ids
      /\ SplitIds \subseteq ids
  BY IdsDiffer
<1> HIDE DEF ids
<1>5. /\ Keeps(rgbPool, rgbPool', ids) /\ HeldBy(rgbPool, SwapId(o)) \subseteq Gone(rgbPool')
      /\ Keeps(btcPool, btcPool', ids) /\ HeldBy(btcPool, SwapId(o)) \subseteq Gone(btcPool')
  BY <1>1, <1>3, MoveKeeps DEF MarkPending, IInv, Shapes
<1>6. /\ IsPool(rgbPool') /\ IsPool(btcPool')
      /\ DOMAIN rgbPool' = DOMAIN rgbPool /\ DOMAIN btcPool' = DOMAIN btcPool
      /\ GoneFromPools \subseteq GoneFromPools'
      /\ \A d \in ids : HeldInPools(d) \subseteq HeldInPools(d)'
  BY <1>5, PoolsFrame
<1>7. /\ swaps' \in [Offers -> SwapType] /\ swaps'[o].pc = "settled"
      /\ \A p \in Offers : p # o => swaps'[p] = swaps[p]
  BY <1>1 DEF IInv, Shapes, SwapType
<1>8. Shapes'
  BY <1>1, <1>2, <1>6, <1>7 DEF IInv, Shapes
<1>9. CoinsAreKnown' /\ PoolsAreApart'
  <2>1. \A op \in cache' : op[1] \in DOMAIN txs'
    BY <1>1 DEF IInv, CoinsAreKnown
  <2> QED
    BY <1>2, <1>6, <2>1, CoinsFrame
<1>10. SwapsHoldInputs'
  BY <1>2, <1>4, <1>6, <1>7, SwapsFrame
<1>11. PassHoldsInputs'
  <2>1. PICK id : id = exec.id
    OBVIOUS
  <2>2. exec.pc # "idle" => id \in ids
    BY <1>4, <2>1 DEF IInv, PassHoldsInputs
  <2> QED
    BY <1>1, <1>2, <1>6, <2>1, <2>2, PassFrame
<1>12. SpentIsGone'
  <2>1. txs[swaps[o].tx].ins \subseteq GoneFromPools'
    BY <1>1, <1>5 DEF IInv, SwapsHoldInputs, HeldInPools, GoneFromPools
  <2> QED
    BY <1>1, <1>2, <1>6, <1>7, <2>1 DEF IInv, SpentIsGone, Prolongs
<1> QED
  BY <1>8, <1>9, <1>10, <1>11, <1>12 DEF IInv

\* A swap out of time gives everything back, sent or not.
LEMMA LapseSwapKeeps ==
  ASSUME IInv, NEW o \in Offers, LapseSwap(o)
  PROVE  IInv'
<1>1. /\ DropSwap(o) /\ UNCHANGED <<txs, cache, exec, faults>>
      /\ unacked' = unacked \cup Unmarked(o)
  BY DEF LapseSwap
<1>2. \A op \in cache' : op[1] \in DOMAIN txs
  BY <1>1 DEF IInv, CoinsAreKnown
<1>3. /\ IsHistory(txs') /\ Prolongs(txs, txs') /\ Live' \ unacked' \subseteq Live \ unacked
      /\ faults' \in Nat /\ (swaps[o].pc = "sent" => swaps[o].tx \in unacked')
  BY <1>1, SameProlongs DEF Unmarked, IInv, Shapes
<1> QED
  BY <1>1, <1>2, <1>3, DropKeeps

\* Reservations run out that nobody owns: those of swaps and passes that are alive
\* do not.
LEMMA ReleaseExpiredKeeps ==
  ASSUME IInv, ReleaseExpired
  PROVE  IInv'
<1>1. /\ UNCHANGED <<txs, cache, swaps, exec, faults, unacked>>
      /\ rgbPool' = Expire(rgbPool) /\ btcPool' = Expire(btcPool)
  BY DEF ReleaseExpired
<1>2. /\ Prolongs(txs, txs') /\ IsHistory(txs') /\ Live' = Live
  BY <1>1, SameProlongs
<1>3. PICK ids : ids = Owners
  OBVIOUS
<1>4. Keeps(rgbPool, rgbPool', ids) /\ Keeps(btcPool, btcPool', ids)
  BY <1>1, <1>3, ExpireKeeps DEF IInv, Shapes
<1>5. /\ IsPool(rgbPool') /\ IsPool(btcPool')
      /\ DOMAIN rgbPool' = DOMAIN rgbPool /\ DOMAIN btcPool' = DOMAIN btcPool
      /\ GoneFromPools \subseteq GoneFromPools'
      /\ \A d \in ids : HeldInPools(d) \subseteq HeldInPools(d)'
  BY <1>4, PoolsFrame
<1>6. Shapes'
  BY <1>1, <1>2, <1>5 DEF IInv, Shapes
<1>7. CoinsAreKnown' /\ PoolsAreApart'
  <2>1. \A coin \in cache' : coin[1] \in DOMAIN txs'
    BY <1>1 DEF IInv, CoinsAreKnown
  <2> QED
    BY <1>2, <1>5, <2>1, CoinsFrame
<1>8. SwapsHoldInputs'
  <2>1. \A o \in Offers : swaps[o].pc \in {"built", "sent"} => SwapId(o) \in ids
    BY <1>3 DEF Owners, Pending
  <2> QED
    BY <1>1, <1>2, <1>5, <2>1, SwapsFrame
<1>9. PassHoldsInputs'
  <2>1. PICK id : id = exec.id
    OBVIOUS
  <2>2. id \in ids
    BY <1>3, <2>1 DEF Owners
  <2> QED
    BY <1>1, <1>2, <1>5, <2>1, <2>2, PassFrame
<1>10. SpentIsGone'
  BY <1>1, <1>2, <1>5, SpentFrame
<1> QED
  BY <1>6, <1>7, <1>8, <1>9, <1>10 DEF IInv

-----------------------------------------------------------------------------
(***************************************************************************)
(* The observer, and the daemon's runs (spawn_chain_observer_loop)         *)
(***************************************************************************)

\* Coins come into the pools from the cache; what the pools have stays as it is.
LEMMA IngestStep ==
  ASSUME IInv, UNCHANGED <<txs, swaps, exec, unacked>>, faults' \in Nat,
         \A op \in cache' : op[1] \in DOMAIN txs,
         \/ rgbPool' = rgbPool
         \/ \E heard : /\ heard \subseteq Range(Traded)
                       /\ rgbPool' = IngestAllRgb(rgbPool, cache, heard),
         btcPool' \in {btcPool, IngestBtc(btcPool, cache)}
  PROVE  IInv'
<1>1. /\ Prolongs(txs, txs') /\ IsHistory(txs') /\ Live' = Live
  BY SameProlongs
<1>2. /\ IsPool(rgbPool') /\ Gone(rgbPool) \subseteq Gone(rgbPool')
      /\ \A id : HeldBy(rgbPool, id) \subseteq HeldBy(rgbPool', id)
      /\ \A op \in DOMAIN rgbPool' : \/ op \in DOMAIN rgbPool
                                     \/ op \in cache /\ \E a \in Range(Traded) : Carries(a, op)
  BY IngestRgbKeeps DEF IInv, Shapes
<1>3. /\ IsPool(btcPool') /\ Gone(btcPool) \subseteq Gone(btcPool')
      /\ \A id : HeldBy(btcPool, id) \subseteq HeldBy(btcPool', id)
      /\ \A op \in DOMAIN btcPool' : \/ op \in DOMAIN btcPool
                                     \/ op \in cache /\ \A a \in Range(Traded) : ~Carries(a, op)
  BY IngestBtcKeeps DEF IInv, Shapes
<1>4. /\ GoneFromPools \subseteq GoneFromPools'
      /\ \A id : HeldInPools(id) \subseteq HeldInPools(id)'
  BY <1>2, <1>3 DEF GoneFromPools, HeldInPools
<1>5. Shapes'
  BY <1>1, <1>2, <1>3 DEF IInv, Shapes
<1>6. CoinsAreKnown' /\ PoolsAreApart'
  BY <1>1, <1>2, <1>3, CoinsFrame DEF Prolongs
<1>7. SwapsHoldInputs'
  BY <1>1, <1>4, SwapsFrame
<1>8. PassHoldsInputs'
  <2>1. PICK id : id = exec.id
    OBVIOUS
  <2> QED
    BY <1>1, <1>4, <2>1, PassFrame
<1>9. SpentIsGone'
  BY <1>1, <1>4, SpentFrame
<1> QED
  BY <1>5, <1>6, <1>7, <1>8, <1>9 DEF IInv

\* The sweep: what was pending is spent, and gone before and after.
LEMMA SweepStep ==
  ASSUME IInv, rgbPool' = SweepPool(rgbPool), btcPool' = SweepPool(btcPool),
         UNCHANGED <<txs, cache, swaps, exec, faults, unacked>>
  PROVE  IInv'
<1>1. /\ Prolongs(txs, txs') /\ IsHistory(txs') /\ Live' = Live
  BY SameProlongs
<1>2. Keeps(rgbPool, rgbPool', AllIds) /\ Keeps(btcPool, btcPool', AllIds)
  BY SweepKeeps DEF IInv, Shapes
<1>3. /\ IsPool(rgbPool') /\ IsPool(btcPool')
      /\ DOMAIN rgbPool' = DOMAIN rgbPool /\ DOMAIN btcPool' = DOMAIN btcPool
      /\ GoneFromPools \subseteq GoneFromPools'
      /\ \A d \in AllIds : HeldInPools(d) \subseteq HeldInPools(d)'
  BY <1>2, PoolsFrame
<1>4. Shapes'
  BY <1>1, <1>3 DEF IInv, Shapes
<1>5. CoinsAreKnown' /\ PoolsAreApart'
  <2>1. \A coin \in cache' : coin[1] \in DOMAIN txs'
    BY DEF IInv, CoinsAreKnown
  <2> QED
    BY <1>1, <1>3, <2>1, CoinsFrame
<1>6. SwapsHoldInputs'
  BY <1>1, <1>3, SwapsFrame, IdsDiffer
<1>7. PassHoldsInputs'
  <2>1. PICK id : id = exec.id
    OBVIOUS
  <2>2. exec.pc # "idle" => id \in AllIds
    BY <2>1, IdsDiffer DEF IInv, PassHoldsInputs
  <2> QED
    BY <1>1, <1>3, <2>1, <2>2, PassFrame
<1>8. SpentIsGone'
  BY <1>1, <1>3, SpentFrame
<1> QED
  BY <1>4, <1>5, <1>6, <1>7, <1>8 DEF IInv

\* A tick of the observer, whatever it hears.
LEMMA ObserveKeeps ==
  ASSUME IInv, Observe \/ ListingFails
  PROVE  IInv'
<1>1. UNCHANGED <<txs, swaps, exec, unacked>> /\ faults' \in Nat
  BY DEF Observe, ListingFails, IInv, Shapes
<1>2. \A op \in cache : op[1] \in DOMAIN txs
  BY DEF IInv, CoinsAreKnown
<1>3. CASE ListingFails
  <2>1. cache' = cache /\ btcPool' = btcPool
    BY <1>3 DEF ListingFails
  <2>2. \/ rgbPool' = rgbPool
        \/ \E heard : /\ heard \subseteq Range(Traded)
                      /\ rgbPool' = IngestAllRgb(rgbPool, cache, heard)
    BY <1>3 DEF ListingFails
  <2> QED
    BY <1>1, <1>2, <2>1, <2>2, IngestStep
<1>4. CASE Observe
  <2>1. \/ cache' = Synced /\ UNCHANGED pools
        \/ btcPool' = IngestBtc(btcPool, cache) /\ UNCHANGED <<cache, rgbPool>>
        \/ rgbPool' = IngestAllRgb(rgbPool, cache, Range(Traded)) /\ UNCHANGED <<cache, btcPool>>
        \/ rgbPool' = SweepPool(rgbPool) /\ btcPool' = SweepPool(btcPool)
           /\ UNCHANGED <<cache, faults>>
    BY <1>4 DEF Observe
  <2>2. CASE cache' = Synced /\ UNCHANGED pools
    BY <1>1, <2>2, ScansAreKnown, IngestStep DEF pools
  <2>3. CASE btcPool' = IngestBtc(btcPool, cache) /\ UNCHANGED <<cache, rgbPool>>
    BY <1>1, <1>2, <2>3, IngestStep
  <2>4. CASE rgbPool' = IngestAllRgb(rgbPool, cache, Range(Traded)) /\ UNCHANGED <<cache, btcPool>>
    BY <1>1, <1>2, <2>4, IngestStep
  <2>5. CASE rgbPool' = SweepPool(rgbPool) /\ btcPool' = SweepPool(btcPool)
             /\ UNCHANGED <<cache, faults>>
    BY <1>1, <2>5, SweepStep
  <2> QED
    BY <2>1, <2>2, <2>3, <2>4, <2>5
<1> QED
  BY <1>3, <1>4

\* A start takes in what the cache of the day before names.
LEMMA StartKeeps ==
  ASSUME IInv, Start
  PROVE  IInv'
<1>1. UNCHANGED <<txs, cache, swaps, exec, faults, unacked>>
  BY DEF Start
<1>2. /\ rgbPool' = IngestAllRgb(rgbPool, cache, Range(Traded))
      /\ btcPool' = IngestBtc(btcPool, cache)
  BY DEF Start
<1>3. \A op \in cache' : op[1] \in DOMAIN txs
  BY <1>1 DEF IInv, CoinsAreKnown
<1>4. faults' \in Nat
  BY <1>1 DEF IInv, Shapes
<1> QED
  BY <1>1, <1>2, <1>3, <1>4, IngestStep

\* A stop forgets what was in memory.  Of what was sent, it leaves behind the
\* transactions that were not marked yet, of the pass and of the swaps.
LEMMA StopKeeps ==
  ASSUME IInv, Stop
  PROVE  IInv'
<1>1. /\ UNCHANGED <<txs, cache, rgbPool, btcPool>> /\ exec' = Idle /\ faults' = faults + 1
      /\ swaps' = [o \in Offers |-> IF Pending(o) THEN [swaps[o] EXCEPT !.pc = "dropped"]
                                    ELSE swaps[o]]
      /\ unacked' = unacked \cup (IF exec.pc = "mark" THEN {exec.tx} ELSE {})
                            \cup UNION {Unmarked(o) : o \in Offers}
  BY DEF Stop, pools
<1>2. /\ Prolongs(txs, txs') /\ IsHistory(txs') /\ Live' = Live
  BY <1>1, SameProlongs
<1>3. /\ swaps' \in [Offers -> SwapType]
      /\ \A o \in Offers : swaps'[o].pc \notin {"built", "sent"}
  BY <1>1 DEF IInv, Shapes, SwapType, Pending
<1>4. Shapes'
  BY <1>1, <1>2, <1>3 DEF IInv, Shapes, Idle
<1>5. CoinsAreKnown' /\ PoolsAreApart'
  BY <1>1 DEF IInv, CoinsAreKnown, PoolsAreApart, Carries, Coin
<1>6. SwapsHoldInputs'
  BY <1>3 DEF SwapsHoldInputs
<1>7. PassHoldsInputs'
  BY <1>1 DEF PassHoldsInputs, Idle
<1>8. SpentIsGone'
  <2>1. GoneFromPools' = GoneFromPools
    BY <1>1 DEF GoneFromPools
  <2>2. Live' \ unacked' \subseteq Live \ unacked
    BY <1>1, <1>2
  <2>3. exec.pc = "mark" => exec.tx \in unacked'
    BY <1>1
  <2>4. \A o \in Offers : swaps[o].pc = "sent" => swaps[o].tx \in unacked'
    BY <1>1 DEF Unmarked
  <2> QED
    BY <1>2, <2>1, <2>2, <2>3, <2>4, SpentFrame
<1> QED
  BY <1>4, <1>5, <1>6, <1>7, <1>8 DEF IInv

-----------------------------------------------------------------------------
(***************************************************************************)
(* The operator's commands (recover, rebalance)                            *)
(***************************************************************************)

\* A command sends behind the pools' back, and what it sends is counted so.
LEMMA SendKeeps ==
  ASSUME IInv, NEW kind, NEW ins, NEW outs, Send(kind, ins, outs)
  PROVE  IInv'
<1>1. /\ cache' = Synced /\ UNCHANGED <<rgbPool, btcPool, swaps, exec, faults>>
      /\ unacked' = unacked \cup {Len(txs) + 1}
  BY DEF Send, pools
<1>2. PICK c : c = Compose(kind, ins, <<>>, outs)
  OBVIOUS
<1>3. PICK n : n = Len(txs) + 1
  OBVIOUS
<1>4. /\ IsHistory(c) /\ Prolongs(txs, c) /\ n \in DOMAIN c /\ LiveIn(c) = LiveIn(txs)
  BY <1>2, <1>3, ComposeProlongs DEF IInv, Shapes
<1>5. PICK r : r = txs'
  OBVIOUS
<1>6. r = Publish(c, n)
  BY <1>2, <1>3, <1>5 DEF Send
<1>7. /\ IsHistory(r) /\ Prolongs(c, r) /\ LiveIn(r) = LiveIn(c) \cup {n}
  BY <1>4, <1>6, PublishProlongs
<1>8. Prolongs(txs, r)
  BY <1>4, <1>7 DEF Prolongs
<1>9. \A op \in cache' : op[1] \in DOMAIN txs'
  BY <1>1, <1>5, <1>8, ScansAreKnown DEF Prolongs
<1>10. /\ CoinsAreKnown' /\ PoolsAreApart' /\ GoneFromPools' = GoneFromPools
       /\ \A d : HeldInPools(d)' = HeldInPools(d)
  BY <1>1, <1>5, <1>7, <1>8, <1>9, HistoryStep DEF pools
<1>11. Shapes'
  BY <1>1, <1>5, <1>7 DEF IInv, Shapes
<1>12. SwapsHoldInputs'
  BY <1>1, <1>5, <1>8, <1>10, SwapsFrame
<1>13. PassHoldsInputs'
  <2>1. PICK id : id = exec.id
    OBVIOUS
  <2> QED
    BY <1>1, <1>5, <1>8, <1>10, <2>1, PassFrame
<1>14. SpentIsGone'
  <2>1. Live' \ unacked' \subseteq Live \ unacked
    BY <1>1, <1>3, <1>4, <1>5, <1>7 DEF Live, LiveIn
  <2> QED
    BY <1>1, <1>5, <1>8, <1>10, <2>1, SpentFrame
<1> QED
  BY <1>10, <1>11, <1>12, <1>13, <1>14 DEF IInv

-----------------------------------------------------------------------------
(***************************************************************************)
(* The theorems                                                            *)
(***************************************************************************)

\* The first coins are in the history, and in the pool they belong in.
LEMMA InitIInv ==
  ASSUME Init
  PROVE  IInv
<1> DEFINE g == [kind |-> "genesis", ins |-> {}, taker |-> <<>>, outs |-> Genesis, live |-> TRUE]
<1>1. IsTx(g) /\ g.ins = {}
  BY DEF IsTx
<1>2. txs = <<g>>
  BY DEF Init
<1> HIDE DEF g
<1>3. IsHistory(txs)
  <2>1. txs \in Seq({g}) /\ DOMAIN txs = {1} /\ txs[1] = g
    BY <1>2
  <2>2. txs \in Seq(Range(txs))
    BY <2>1, SeqOfRange
  <2> QED
    BY <1>1, <2>1, <2>2 DEF IsHistory
<1>4. PICK none : none = <<>>
  OBVIOUS
<1>5. IsPool(none) /\ DOMAIN none = {} /\ Gone(none) = {}
  BY <1>4 DEF IsPool, Gone
<1>6. /\ rgbPool = IngestAllRgb(none, cache, Range(Traded))
      /\ btcPool = IngestBtc(none, cache)
  BY <1>4 DEF Init
<1>7. /\ IsPool(rgbPool)
      /\ \A op \in DOMAIN rgbPool : op \in cache /\ \E a \in Range(Traded) : Carries(a, op)
  BY <1>5, <1>6, IngestRgbKeeps
<1>8. /\ IsPool(btcPool)
      /\ \A op \in DOMAIN btcPool : op \in cache /\ \A a \in Range(Traded) : ~Carries(a, op)
  BY <1>5, <1>6, IngestBtcKeeps
<1>9. /\ swaps = [o \in Offers |-> [pc |-> "none", tx |-> 0]]
      /\ exec = Idle /\ faults = 0
  BY DEF Init
<1>10. Shapes
  BY <1>3, <1>7, <1>8, <1>9 DEF Shapes, SwapType, Idle
<1>11. \A op \in cache : op[1] \in DOMAIN txs
  BY DEF Init, Unspent, Live
<1>12. CoinsAreKnown /\ PoolsAreApart
  BY <1>7, <1>8, <1>11 DEF CoinsAreKnown, PoolsAreApart
<1>13. SwapsHoldInputs
  BY <1>9 DEF SwapsHoldInputs
<1>14. PassHoldsInputs
  BY <1>9 DEF PassHoldsInputs, Idle
<1>15. SpentIsGone
  <2>1. \A t \in Live : txs[t].ins = {}
    BY <1>1, <1>2 DEF Live
  <2> QED
    BY <2>1 DEF SpentIsGone
<1> QED
  BY <1>10, <1>12, <1>13, <1>14, <1>15 DEF IInv

\* Every step keeps it, one lemma an action.
LEMMA NextKeepsIInv ==
  ASSUME IInv, [Next]_vars
  PROVE  IInv'
<1>1. CASE Executor
  BY <1>1, PlanKeeps, Reserve1Keeps, BuildSplitKeeps, BroadcastSplitKeeps, MarkSplitKeeps
  DEF Executor
<1>2. CASE \E o \in Offers : QuoteBuy(o) \/ QuoteSell(o) \/ BuildBuy(o) \/ BuildSell(o)
                               \/ BroadcastSwap(o) \/ MarkSwap(o) \/ LapseSwap(o)
  BY <1>2, QuoteKeeps, BuildSwapKeeps, BroadcastSwapKeeps, MarkSwapKeeps, LapseSwapKeeps
<1>3. CASE ReleaseExpired
  BY <1>3, ReleaseExpiredKeeps
<1>4. CASE Observe \/ ListingFails
  BY <1>4, ObserveKeeps
<1>5. CASE Stop
  BY <1>5, StopKeeps
<1>6. CASE Start
  BY <1>6, StartKeeps
<1>7. CASE \E a \in Range(Traded) : Recover(a)
  BY <1>7, SendKeeps DEF Recover
<1>8. CASE Rebalance
  BY <1>8, SendKeeps DEF Rebalance
<1>9. CASE UNCHANGED vars
  <2>1. UNCHANGED <<txs, cache, rgbPool, btcPool, swaps, exec, faults, unacked>>
    BY <1>9 DEF vars
  <2>2. /\ \A op \in cache' : op[1] \in DOMAIN txs
        /\ faults' \in Nat
    BY <2>1 DEF IInv, Shapes, CoinsAreKnown
  <2> QED
    BY <2>1, <2>2, IngestStep
<1> QED
  BY <1>1, <1>2, <1>3, <1>4, <1>5, <1>6, <1>7, <1>8, <1>9 DEF Next

\* What the pools hold for a swap or a pass they hold until it is marked or the swap's
\* reservation goes back; and what a transaction spends is never offered again, but for
\* the transactions the pools never hear of.
THEOREM IInvAlways == Spec => []IInv
<1>1. Init => IInv
  BY InitIInv
<1>2. IInv /\ [Next]_vars => IInv'
  BY NextKeepsIInv
<1> QED
  BY <1>1, <1>2, PTL DEF Spec

\* A coin the pools offer was spent by no transaction the network has, unless the
\* pools never hear of it: it was sent by a command, its answer was lost, or a stop
\* or the end of its reservation came between the broadcast and the mark.
THEOREM OffersAreUnspent == Spec => []OfferedIsUnspent
<1>1. IInv => OfferedIsUnspent
  <2> SUFFICES ASSUME IInv,
                      NEW op \in AvailableBtc \cup UNION {AvailableRgb(a) : a \in Contracts},
                      NEW t \in Live, op \in txs[t].ins
               PROVE  t \in unacked
    BY DEF OfferedIsUnspent
  <2>1. \/ op \in DOMAIN btcPool /\ btcPool[op].status = "available"
        \/ op \in DOMAIN rgbPool /\ rgbPool[op].status = "available"
    BY DEF AvailableBtc, AvailableRgb
  <2>2. ~(op \in DOMAIN btcPool /\ op \in DOMAIN rgbPool)
    BY DEF IInv, PoolsAreApart
  <2>3. op \notin GoneFromPools /\ \A id : op \notin HeldInPools(id)
    BY <2>1, <2>2 DEF GoneFromPools, HeldInPools, Gone, HeldBy
  <2> QED
    BY <2>3 DEF IInv, SpentIsGone, PassHoldsInputs, SwapsHoldInputs
<1> QED
  BY <1>1, IInvAlways, PTL

\* If the registry lists every contract there is, a coin offered as plain BTC
\* carries no allocation, although the pool learns of it before the inventory does.
THEOREM BtcPoolIsPlain ==
  ASSUME Contracts \subseteq Range(Traded)
  PROVE  Spec => []BtcPoolHoldsNoRgb
<1>1. IInv => BtcPoolHoldsNoRgb
  BY DEF IInv, PoolsAreApart, BtcPoolHoldsNoRgb, AvailableBtc
<1> QED
  BY <1>1, IInvAlways, PTL
=============================================================================
