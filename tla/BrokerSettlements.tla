--------------------------- MODULE BrokerSettlements ---------------------------
(***************************************************************************)
(* The broker's record of the settlements it relays (services/broker/src   *)
(* /lib.rs over the SettlementStore of rfq-store): /rfq leaves the quotes  *)
(* and the RFQ's statistics in memory, /accept and /sign call the maker    *)
(* and then upsert a row, and the confirmation loop promotes the rows      *)
(* whose witness transaction is deep enough.                               *)
(*                                                                         *)
(* Each action of a handler is the code between two awaits.  The maker is  *)
(* what Maker.tla promises of it and the connection what WsConnector.tla   *)
(* does: a call may fail after the maker acted, or before it does.  A call *)
(* refused before it reaches the maker changes nothing and is left out.    *)
(* The chain only grows; a row's timestamps are the handler that created   *)
(* it.                                                                     *)
(***************************************************************************)
EXTENDS Integers, FiniteSets

CONSTANTS
  Rfqs,
  Makers,
  Calls,       \* bound: /accept and /sign requests served at a time
  Repeats,     \* the quotes whose takers may send a request again
  StatsCap,    \* RFQ_STATS_CAP (50 000)
  MinConfs,    \* BROKER_CONFIRMATIONS
  MaxHeight,   \* bound: the last block
  MaxFaults    \* bound: failed saves and chain queries, dropped calls, crashes

ASSUME BrokerAssumption ==
  /\ Repeats \subseteq Rfqs \X Makers
  /\ {StatsCap, MinConfs} \subseteq Nat \ {0}
  /\ {MaxHeight, MaxFaults} \subseteq Nat
  /\ IsFiniteSet(Rfqs)

VARIABLES
  quotes,   \* the quote store
  stats,    \* the RFQs with statistics waiting
  row,      \* the settlements table
  call,     \* the requests being served
  asked,    \* history: requests takers have sent
  told,     \* history: requests answered with success
  deal,     \* how far each quote's maker has gone
  strays,   \* requests the maker may act on although nobody waits for them
  tip,      \* the chain's height
  mined,    \* the block of each quote's witness transaction, or 0
  loop,     \* the confirmation loop
  faults

vars == <<quotes, stats, row, call, asked, told, deal, strays, tip, mined, loop,
          faults>>

memory == <<quotes, stats>>
takers == <<asked, told>>
makers == <<deal, strays>>
chain == <<tip, mined>>

Quotes == Rfqs \X Makers

RfqOf(q) == q[1]

Ops == {"accept", "sign"}

NoRow == [status |-> "none"]

\* status stands for what the maker's answer says: "opened" for the two statuses
\* /accept can return, "confirming" for PendingBitcoinConfirm.
Row == {NoRow} \cup
       [status : {"opened", "confirming", "settled"}, witness : BOOLEAN,
        height : 0..MaxHeight, stats : BOOLEAN, created : Ops]

Idle == [pc |-> "idle"]

CallType == {Idle} \cup
            [pc : {"maker", "stats", "save"}, op : Ops, quote : Quotes, stats : BOOLEAN]

TypeOK ==
  /\ quotes \subseteq Quotes
  /\ stats \subseteq Rfqs /\ Cardinality(stats) <= StatsCap
  /\ row \in [Quotes -> Row]
  /\ call \in [Calls -> CallType]
  /\ asked \subseteq Ops \X Quotes /\ told \subseteq asked
  /\ deal \in [Quotes -> {"quoted", "accepted", "broadcast"}]
  /\ strays \subseteq Ops \X Quotes
  /\ tip \in 0..MaxHeight
  /\ mined \in [Quotes -> 0..MaxHeight]
  /\ loop \in [pc : {"sleep", "listed", "sweep"}, todo : SUBSET Quotes,
               tip : 0..MaxHeight]
  /\ faults \in 0..MaxFaults

Asleep == [pc |-> "sleep", todo |-> {}, tip |-> 0]

Init ==
  /\ quotes = {}
  /\ stats = {}
  /\ row = [q \in Quotes |-> NoRow]
  /\ call = [c \in Calls |-> Idle]
  /\ asked = {}
  /\ told = {}
  /\ deal = [q \in Quotes |-> "quoted"]
  /\ strays = {}
  /\ tip = 0
  /\ mined = [q \in Quotes |-> 0]
  /\ loop = Asleep
  /\ faults = 0

Fault == faults < MaxFaults /\ faults' = faults + 1

-----------------------------------------------------------------------------
(***************************************************************************)
(* POST /rfq                                                               *)
(***************************************************************************)

\* Slip: the map is cleared with the new RFQ in it.
AddStatsThenClear(r) ==
  stats' = IF Cardinality(stats) >= StatsCap THEN {} ELSE {r} \cup stats

\* The whole map is cleared when it is full.
AddStats(r) ==
  stats' = {r} \cup (IF Cardinality(stats) >= StatsCap THEN {} ELSE stats)

\* fanout_quote: every connected maker is asked at once; those that quote what was
\* asked, in time, are heard.
Fanout == SUBSET Makers

\* Some makers quoted.  The taker learns the quotes when all of it is done.
CreateRfq(r) ==
  /\ \A q \in Quotes : RfqOf(q) = r => q \notin quotes /\ row[q] = NoRow
  /\ \A op \in Ops, q \in Quotes : RfqOf(q) = r => <<op, q>> \notin asked
  /\ \E some \in Fanout \ {{}} : quotes' = quotes \cup ({r} \X some)
  /\ AddStats(r)
  /\ UNCHANGED <<row, call, takers, makers, chain, loop, faults>>

-----------------------------------------------------------------------------
(***************************************************************************)
(* POST /quotes/:id/accept and POST /quotes/:id/sign                       *)
(***************************************************************************)

\* The quote is in the store: the maker is called.  A taker signs what an /accept
\* has returned to it.
Request(c, op, q) ==
  /\ call[c] = Idle
  /\ q \in quotes
  /\ q \in Repeats \/ <<op, q>> \notin asked
  /\ op = "sign" => <<"accept", q>> \in told
  /\ asked' = asked \cup {<<op, q>>}
  /\ call' = [call EXCEPT ![c] = [pc |-> "maker", op |-> op, quote |-> q,
                                  stats |-> FALSE]]
  /\ UNCHANGED <<memory, row, told, makers, chain, loop, faults>>

\* A live quote can be accepted again; it is signed once.
MakerActs(op, q) ==
  \/ op = "accept" /\ deal[q] # "broadcast" /\ deal' = [deal EXCEPT ![q] = "accepted"]
  \/ op = "sign" /\ deal[q] = "accepted" /\ deal' = [deal EXCEPT ![q] = "broadcast"]

MakerAnswers(c) ==
  /\ call[c].pc = "maker"
  /\ MakerActs(call[c].op, call[c].quote)
  /\ call' = [call EXCEPT ![c].pc = IF call[c].op = "accept" THEN "stats" ELSE "save"]
  /\ UNCHANGED <<memory, row, takers, strays, chain, loop, faults>>

MakerRefuses(c) ==
  /\ call[c].pc = "maker"
  /\ call' = [call EXCEPT ![c] = Idle]
  /\ UNCHANGED <<memory, row, takers, makers, chain, loop, faults>>

TakeStats(c) ==
  /\ call[c].pc = "stats"
  /\ LET r == RfqOf(call[c].quote) IN
       /\ call' = [call EXCEPT ![c].pc = "save", ![c].stats = r \in stats]
       /\ stats' = stats \ {r}
  /\ UNCHANGED <<quotes, row, takers, makers, chain, loop, faults>>

\* The row a handler builds from the quote and the maker's answer.
Record(c) ==
  LET signed == call[c].op = "sign" IN
  [status |-> IF signed THEN "confirming" ELSE "opened", witness |-> signed,
   height |-> 0, stats |-> call[c].stats, created |-> call[c].op]

\* Slip: a plain replacement.
Overwrite(old, new) == new

\* The upsert keeps the first creation time, and the statistics of either.
Upsert(old, new) ==
  IF old = NoRow THEN new
  ELSE [new EXCEPT !.created = old.created, !.stats = new.stats \/ old.stats]

Answer(c) ==
  /\ told' = told \cup {<<call[c].op, call[c].quote>>}
  /\ call' = [call EXCEPT ![c] = Idle]

SaveSettlement(c) ==
  /\ call[c].pc = "save"
  /\ row' = [row EXCEPT ![call[c].quote] = Upsert(@, Record(c))]
  /\ Answer(c)
  /\ UNCHANGED <<memory, asked, makers, chain, loop, faults>>

\* A failure is logged and the taker still gets its answer.
SaveFails(c) ==
  /\ call[c].pc = "save"
  /\ Fault
  /\ Answer(c)
  /\ UNCHANGED <<memory, row, asked, makers, chain, loop>>

\* The call to the maker fails with its outcome unknown, or the taker hangs up and
\* the handler is dropped.
LoseCall(c) ==
  /\ call[c] # Idle
  /\ Fault
  /\ strays' = IF call[c].pc = "maker" THEN strays \cup {<<call[c].op, call[c].quote>>}
               ELSE strays
  /\ call' = [call EXCEPT ![c] = Idle]
  /\ UNCHANGED <<memory, row, takers, deal, chain, loop>>

-----------------------------------------------------------------------------
(***************************************************************************)
(* The confirmation loop                                                   *)
(***************************************************************************)

\* Slip: lists the rows whose swap is open.
ListOpened ==
  /\ loop.pc = "sleep"
  /\ loop' = [pc |-> "listed", tip |-> 0,
              todo |-> {q \in Quotes : row[q] # NoRow /\ row[q].status = "opened"}]
  /\ UNCHANGED <<memory, row, call, takers, makers, chain, faults>>

ListPending ==
  /\ loop.pc = "sleep"
  /\ loop' = [pc |-> "listed", tip |-> 0,
              todo |-> {q \in Quotes : row[q] # NoRow /\ row[q].status = "confirming"
                                       /\ row[q].witness}]
  /\ UNCHANGED <<memory, row, call, takers, makers, chain, faults>>

ReadTip ==
  /\ loop.pc = "listed"
  /\ loop' = [loop EXCEPT !.pc = "sweep", !.tip = tip]
  /\ UNCHANGED <<memory, row, call, takers, makers, chain, faults>>

\* An error counts as height 0.
ReadTipFails ==
  /\ loop.pc = "listed"
  /\ Fault
  /\ loop' = [loop EXCEPT !.pc = "sweep", !.tip = 0]
  /\ UNCHANGED <<memory, row, call, takers, makers, chain>>

\* Slip: counts from the block below the transaction's.
ConfsFromParent(h) == (IF loop.tip > h THEN loop.tip - h ELSE 0) + 2

\* saturating_sub, saturating_add.
Confs(h) == (IF loop.tip > h THEN loop.tip - h ELSE 0) + 1

Finish(q) == loop' = [loop EXCEPT !.todo = @ \ {q}]

\* The height the server gives a transaction, 0 while it has none or does not know it.
TxStatus(q) == mined[q]

Deep(q) == TxStatus(q) # 0 /\ Confs(TxStatus(q)) >= MinConfs

\* update_status writes the status and the height of whatever row there is.
Promote(q) ==
  /\ loop.pc = "sweep" /\ q \in loop.todo
  /\ Deep(q)
  /\ row' = [row EXCEPT ![q].status = "settled", ![q].height = TxStatus(q)]
  /\ Finish(q)
  /\ UNCHANGED <<memory, call, takers, makers, chain, faults>>

LeavePending(q) ==
  /\ loop.pc = "sweep" /\ q \in loop.todo
  /\ ~Deep(q)
  /\ Finish(q)
  /\ UNCHANGED <<memory, row, call, takers, makers, chain, faults>>

\* tx_status or update_status fails.
PromoteFails(q) ==
  /\ loop.pc = "sweep" /\ q \in loop.todo
  /\ Fault
  /\ Finish(q)
  /\ UNCHANGED <<memory, row, call, takers, makers, chain>>

Sleep ==
  /\ loop.pc = "sweep" /\ loop.todo = {}
  /\ loop' = Asleep
  /\ UNCHANGED <<memory, row, call, takers, makers, chain, faults>>

-----------------------------------------------------------------------------
(***************************************************************************)
(* Around the broker                                                       *)
(***************************************************************************)

StrayActs ==
  /\ \E s \in strays : MakerActs(s[1], s[2]) /\ strays' = strays \ {s}
  /\ UNCHANGED <<memory, row, call, takers, chain, loop, faults>>

\* The next block carries some of the broadcast transactions.  Within the bound,
\* those that are mined get their confirmations.
NewBlock ==
  /\ tip < MaxHeight
  /\ tip' = tip + 1
  /\ \E in \in SUBSET {q \in Quotes : deal[q] = "broadcast" /\ mined[q] = 0} :
       /\ in # {} => tip' + MinConfs - 1 <= MaxHeight
       /\ mined' = [q \in Quotes |-> IF q \in in THEN tip' ELSE mined[q]]
  /\ UNCHANGED <<memory, row, call, takers, makers, loop, faults>>

\* The table survives; the quotes and the statistics do not.
Restart ==
  /\ Fault
  /\ quotes' = {}
  /\ stats' = {}
  /\ call' = [c \in Calls |-> Idle]
  /\ strays' = strays \cup {<<call[c].op, call[c].quote>> :
                              c \in {d \in Calls : call[d].pc = "maker"}}
  /\ loop' = Asleep
  /\ UNCHANGED <<row, takers, deal, chain>>

-----------------------------------------------------------------------------
(***************************************************************************)
(* Specification                                                           *)
(***************************************************************************)

Handle(c) ==
  \/ \E op \in Ops, q \in Quotes : Request(c, op, q)
  \/ MakerAnswers(c) \/ MakerRefuses(c) \/ TakeStats(c) \/ SaveSettlement(c)
  \/ SaveFails(c) \/ LoseCall(c)

ConfirmationLoop ==
  \/ ListPending \/ ReadTip \/ Sleep
  \/ \E q \in Quotes : Promote(q) \/ LeavePending(q)

Next ==
  \/ \E r \in Rfqs : CreateRfq(r)
  \/ \E c \in Calls : Handle(c)
  \/ ConfirmationLoop
  \/ ReadTipFails
  \/ \E q \in Quotes : PromoteFails(q)
  \/ StrayActs
  \/ NewBlock
  \/ Restart

Spec == Init /\ [][Next]_vars

\* The loop is polled, and blocks are found.
FairSpec == Spec /\ WF_vars(ConfirmationLoop) /\ WF_vars(NewBlock)

-----------------------------------------------------------------------------
(***************************************************************************)
(* Properties                                                              *)
(***************************************************************************)

\* What the explorer shows as settled is that deep on the chain, in the block it
\* names, although the loop works from a listing and a height it read earlier, or
\* failed to read.
SettledIsDeep ==
  \A q \in Quotes :
    row[q].status = "settled" =>
      /\ row[q].height = mined[q]
      /\ mined[q] # 0 /\ tip - mined[q] + 1 >= MinConfs

\* In whatever order the handlers of a quote save, its row keeps the time it was
\* first recorded at and the RFQ statistics once it has them.
FirstRecordStands ==
  [][\A q \in Quotes :
       row[q] # NoRow => /\ row'[q].created = row[q].created
                         /\ row[q].stats => row'[q].stats]_vars

\* Where the statistics of an RFQ are: in the map, with handlers, in rows.
Places(r) ==
  Cardinality(stats \cap {r})
    + Cardinality({c \in Calls : call[c].pc = "save" /\ call[c].stats
                                 /\ RfqOf(call[c].quote) = r})
    + Cardinality({q \in Quotes : RfqOf(q) = r /\ row[q] # NoRow /\ row[q].stats})

NewlyQuoted(r) == \E q \in quotes' \ quotes : RfqOf(q) = r

\* A full map makes room for another RFQ while r is still waiting in it.
ClearedOut(r) == Cardinality(stats) = StatsCap /\ r \in stats /\ stats' \ stats # {}

\* The statistics of an RFQ are never in two places, whichever of its quotes are
\* accepted at once or again and whatever fails.  From its quotes on they are in one,
\* in the end in a row, until something fails or a full map is cleared; and a clear
\* takes none that a handler has or a row holds.
StatsReachOneRow ==
  [][\A r \in Rfqs :
       /\ Places(r)' <= 1
       /\ (Places(r) = 1 \/ NewlyQuoted(r)) /\ faults' = faults =>
            Places(r)' = 1 \/ ClearedOut(r)]_vars

\* With a taker that sends each request once, a swap recorded as broadcast ends as
\* settled once it is mined, whatever queries and updates fail, across restarts, and
\* whatever the takers of other quotes repeat.
MinedSwapSettles ==
  \A q \in Quotes \ Repeats :
    (row[q].status = "confirming" /\ mined[q] # 0) ~> row[q].status = "settled"
=============================================================================
