----------------------- MODULE BrokerSettlements_proofs -----------------------
(***************************************************************************)
(* What the broker shows as settled is settled, a row keeps the time it    *)
(* was first recorded at and its statistics, and an RFQ's statistics are   *)
(* in one place, for any number of RFQs, makers, requests, blocks and      *)
(* faults.                                                                 *)
(***************************************************************************)
EXTENDS BrokerSettlements, FiniteSetTheorems, TLAPS

\* The loop's listing names rows that exist, and the height it goes by is one the
\* chain has passed; so is that of every block a transaction is in.
LoopLagsBehind ==
  /\ \A q \in loop.todo : row[q] # NoRow
  /\ loop.tip <= tip
  /\ \A q \in Quotes : mined[q] <= tip

\* A request being served is one a taker sent.
ServedWereAsked == \A c \in Calls : call[c] # Idle => <<call[c].op, call[c].quote>> \in asked

\* SettledIsDeep is inductive with them.
IInv == TypeOK /\ ServedWereAsked /\ LoopLagsBehind /\ SettledIsDeep

\* Only a bounded map fits: adding to a full one empties it first.
LEMMA AddStatsKeepsBound ==
  ASSUME NEW r \in Rfqs, TypeOK, AddStats(r)
  PROVE  stats' \subseteq Rfqs /\ Cardinality(stats') <= StatsCap
<1>1. IsFiniteSet(stats) /\ Cardinality(stats) \in Nat /\ StatsCap \in Nat \ {0}
  BY BrokerAssumption, FS_Subset, FS_CardinalityType DEF TypeOK
<1>2. CASE Cardinality(stats) >= StatsCap
  <2>1. stats' = {r}
    BY <1>2 DEF AddStats
  <2>2. Cardinality(stats') = 1
    BY <2>1, FS_Singleton
  <2> QED
    BY <1>1, <2>1, <2>2
<1>3. CASE ~(Cardinality(stats) >= StatsCap)
  <2>1. stats' = stats \cup {r}
    BY <1>3 DEF AddStats
  <2>2. Cardinality(stats') <= Cardinality(stats) + 1
    BY <1>1, <2>1, FS_AddElement
  <2>3. Cardinality(stats) + 1 <= StatsCap
    BY <1>1, <1>3
  <2>4. Cardinality(stats') \in Nat
    BY <1>1, <2>1, FS_AddElement, FS_CardinalityType
  <2> QED
    BY <1>1, <2>1, <2>2, <2>3, <2>4 DEF TypeOK
<1> QED
  BY <1>2, <1>3

\* Taking an element out keeps the bound.
LEMMA TakeKeepsBound ==
  ASSUME NEW r, TypeOK
  PROVE  Cardinality(stats \ {r}) <= StatsCap
<1>1. IsFiniteSet(stats)
  BY BrokerAssumption, FS_Subset DEF TypeOK
<1>2. Cardinality(stats \ {r}) <= Cardinality(stats)
  BY <1>1, FS_Subset
<1>3. Cardinality(stats) \in Nat /\ Cardinality(stats \ {r}) \in Nat
  BY <1>1, FS_Subset, FS_CardinalityType
<1> QED
  BY <1>2, <1>3, BrokerAssumption DEF TypeOK

\* The broker starts with nothing recorded and an empty chain.
LEMMA InitIInv == Init => IInv
<1> SUFFICES ASSUME Init PROVE IInv
  OBVIOUS
<1>1. TypeOK
  BY BrokerAssumption, FS_EmptySet DEF Init, TypeOK, Row, NoRow, CallType, Idle, Asleep
<1>2. LoopLagsBehind /\ ServedWereAsked
  BY DEF ServedWereAsked, Init, LoopLagsBehind, Asleep, Quotes
<1>3. SettledIsDeep
  BY DEF Init, SettledIsDeep, NoRow
<1> QED
  BY <1>1, <1>2, <1>3 DEF IInv

\* A row that gives way to a handler's record is a row, not settled.
LEMMA RecordIsRow ==
  ASSUME NEW c \in Calls, call[c] \in CallType, call[c].pc = "save", NEW old \in Row
  PROVE  /\ Record(c) \in Row
         /\ Upsert(old, Record(c)) \in Row \ {NoRow}
         /\ Upsert(old, Record(c)).status # "settled"
         /\ old # NoRow => /\ Upsert(old, Record(c)).created = old.created
                           /\ old.stats => Upsert(old, Record(c)).stats
<1>1. call[c].op \in Ops /\ call[c].stats \in BOOLEAN
  BY DEF CallType, Idle
<1>2. Record(c) \in Row \ {NoRow} /\ Record(c).status \in {"opened", "confirming"}
  BY <1>1, BrokerAssumption DEF Record, Row, NoRow, Ops
<1>3. CASE old = NoRow
  BY <1>2, <1>3 DEF Upsert
<1>4. CASE old # NoRow
  <2>1. old.created \in Ops /\ old.stats \in BOOLEAN /\ Record(c).stats \in BOOLEAN
    BY <1>2, <1>4 DEF Row
  <2> QED
    BY <1>2, <1>4, <2>1 DEF Upsert, Row, NoRow
<1> QED
  BY <1>2, <1>3, <1>4

\* An action of one request that leaves table, loop and chain alone keeps the invariant.
LEMMA HandlerKeepsIInv ==
  ASSUME IInv,
         NEW c \in Calls,
         \E call2 \in CallType :
           /\ call' = [call EXCEPT ![c] = call2]
           /\ call2 # Idle => <<call2.op, call2.quote>> \in asked',
         asked \subseteq asked', asked' \subseteq Ops \X Quotes,
         told' \subseteq asked',
         quotes' \subseteq Quotes, stats' \subseteq Rfqs, Cardinality(stats') <= StatsCap,
         deal' \in [Quotes -> {"quoted", "accepted", "broadcast"}],
         strays' \subseteq Ops \X Quotes, faults' \in 0..MaxFaults,
         UNCHANGED <<row, chain, loop>>
  PROVE  IInv'
<1>1. TypeOK'
  BY DEF IInv, TypeOK, chain
<1>2. ServedWereAsked'
  <2> SUFFICES ASSUME NEW d \in Calls, call'[d] # Idle
               PROVE  <<call'[d].op, call'[d].quote>> \in asked'
    BY DEF ServedWereAsked
  <2>1. CASE d = c
    BY <2>1 DEF IInv, TypeOK
  <2>2. CASE d # c
    BY <2>2 DEF IInv, TypeOK, ServedWereAsked
  <2> QED
    BY <2>1, <2>2
<1>3. LoopLagsBehind' /\ SettledIsDeep'
  BY DEF IInv, LoopLagsBehind, SettledIsDeep, chain
<1> QED
  BY <1>1, <1>2, <1>3 DEF IInv

\* A request taken on has been asked.
LEMMA RequestKeepsIInv ==
  ASSUME IInv, NEW c \in Calls, NEW op \in Ops, NEW q \in Quotes, Request(c, op, q)
  PROVE  IInv'
<1> DEFINE new == [pc |-> "maker", op |-> op, quote |-> q, stats |-> FALSE]
<1>1. new \in CallType /\ call' = [call EXCEPT ![c] = new]
  BY DEF Request, CallType
<1>2. <<new.op, new.quote>> \in asked' /\ asked \subseteq asked'
  BY DEF Request
<1>3. asked' \subseteq Ops \X Quotes /\ told' \subseteq asked'
  BY DEF Request, takers, IInv, TypeOK
<1> QED
  BY <1>1, <1>2, <1>3, HandlerKeepsIInv DEF Request, IInv, TypeOK, memory, makers, chain

\* What the maker does for a request, waited for or not.
LEMMA MakerActsTyped ==
  ASSUME TypeOK, NEW op, NEW q, MakerActs(op, q)
  PROVE  deal' \in [Quotes -> {"quoted", "accepted", "broadcast"}]
  BY DEF MakerActs, TypeOK

\* The maker's answer, its refusal and the statistics touch one request and no row.
LEMMA AnswersKeepIInv ==
  ASSUME IInv, NEW c \in Calls, MakerAnswers(c) \/ MakerRefuses(c) \/ TakeStats(c)
  PROVE  IInv'
<1> DEFINE Busy == [pc : {"maker", "stats", "save"}, op : Ops, quote : Quotes, stats : BOOLEAN]
<1>1. call[c] # Idle => call[c] \in Busy /\ <<call[c].op, call[c].quote>> \in asked
  BY DEF IInv, TypeOK, CallType, ServedWereAsked
<1>2. CASE MakerAnswers(c)
  <2>1. call[c] # Idle
    BY <1>2 DEF MakerAnswers, Idle
  <2> DEFINE new == [call[c] EXCEPT !.pc = IF call[c].op = "accept" THEN "stats" ELSE "save"]
  <2>2. new \in Busy /\ new.op = call[c].op /\ new.quote = call[c].quote
    BY <1>1, <2>1
  <2>5. new \in CallType
    BY <2>2 DEF CallType
  <2>3. call' = [call EXCEPT ![c] = new]
    BY <1>2 DEF MakerAnswers, IInv, TypeOK
  <2>4. deal' \in [Quotes -> {"quoted", "accepted", "broadcast"}]
    BY <1>2, MakerActsTyped DEF MakerAnswers, IInv
  <2> QED
    BY <1>1, <1>2, <2>1, <2>2, <2>3, <2>4, <2>5, HandlerKeepsIInv
       DEF MakerAnswers, IInv, TypeOK, memory, takers, chain
<1>3. CASE MakerRefuses(c)
  <2>1. Idle \in CallType /\ call' = [call EXCEPT ![c] = Idle]
    BY <1>3 DEF MakerRefuses, CallType
  <2> QED
    BY <1>3, <2>1, HandlerKeepsIInv
       DEF MakerRefuses, IInv, TypeOK, memory, takers, makers, chain
<1>4. CASE TakeStats(c)
  <2>1. call[c] # Idle
    BY <1>4 DEF TakeStats, Idle
  <2> DEFINE r == RfqOf(call[c].quote)
             new(b) == [call[c] EXCEPT !.pc = "save", !.stats = b]
  <2>2. stats' = stats \ {r} /\ call' = [call EXCEPT ![c] = new(r \in stats)]
    BY <1>4 DEF TakeStats, IInv, TypeOK
  <2>3. PICK b \in BOOLEAN : call' = [call EXCEPT ![c] = new(b)]
    <3>1. (r \in stats) \in BOOLEAN
      OBVIOUS
    <3> HIDE DEF new, r
    <3> QED
      BY <2>2, <3>1, Zenon
  <2>4. new(b) \in Busy /\ new(b).op = call[c].op /\ new(b).quote = call[c].quote
    BY <1>1, <2>1
  <2>5. new(b) \in CallType /\ <<new(b).op, new(b).quote>> \in asked
    BY <1>1, <2>1, <2>4 DEF CallType
  <2>6. Cardinality(stats') <= StatsCap
    BY <2>2, TakeKeepsBound DEF IInv
  <2>7. /\ stats' \subseteq Rfqs
        /\ UNCHANGED <<quotes, row, takers, makers, chain, loop, faults>>
    BY <1>4, <2>2 DEF TakeStats, IInv, TypeOK
  <2> HIDE DEF new, r
  <2> QED
    BY <2>3, <2>5, <2>6, <2>7, HandlerKeepsIInv DEF IInv, TypeOK, takers, makers, chain
<1> QED
  BY <1>2, <1>3, <1>4

\* A lost call or a failed save leaves its request to nobody.
LEMMA LosesKeepIInv ==
  ASSUME IInv, NEW c \in Calls, SaveFails(c) \/ LoseCall(c)
  PROVE  IInv'
<1>1. call[c] # Idle /\ call' = [call EXCEPT ![c] = Idle] /\ Idle \in CallType
  BY DEF SaveFails, LoseCall, Answer, CallType, Idle
<1>2. <<call[c].op, call[c].quote>> \in asked /\ asked \subseteq Ops \X Quotes
  BY <1>1 DEF IInv, TypeOK, ServedWereAsked
<1>3. faults' \in 0..MaxFaults
  BY BrokerAssumption DEF SaveFails, LoseCall, Fault, IInv, TypeOK
<1>4. /\ told' \subseteq asked' /\ asked' = asked
      /\ strays' \subseteq Ops \X Quotes
  BY <1>2 DEF SaveFails, LoseCall, Answer, takers, makers, IInv, TypeOK
<1> QED
  BY <1>1, <1>2, <1>3, <1>4, HandlerKeepsIInv
     DEF SaveFails, LoseCall, IInv, TypeOK, memory, makers, chain

\* The record saved is never a settled one, and rows stay rows: what the loop listed
\* is still there.
LEMMA SaveKeepsIInv ==
  ASSUME IInv, NEW c \in Calls, SaveSettlement(c)
  PROVE  IInv'
<1> DEFINE q == call[c].quote
<1>1. call[c] # Idle /\ call[c] \in CallType
  BY DEF SaveSettlement, IInv, TypeOK, Idle
<1>2. q \in Quotes /\ <<call[c].op, q>> \in asked
  BY <1>1 DEF CallType, IInv, ServedWereAsked
<1>3. /\ row' = [row EXCEPT ![q] = Upsert(row[q], Record(c))]
      /\ row'[q] \in Row \ {NoRow} /\ row'[q].status # "settled"
  BY <1>1, <1>2, RecordIsRow DEF SaveSettlement, IInv, TypeOK
<1>4. TypeOK'
  BY <1>2, <1>3 DEF SaveSettlement, Answer, IInv, TypeOK, CallType, memory, makers, chain
<1>5. ServedWereAsked'
  BY DEF SaveSettlement, Answer, IInv, TypeOK, ServedWereAsked
<1>6. LoopLagsBehind'
  BY <1>2, <1>3 DEF SaveSettlement, IInv, TypeOK, LoopLagsBehind, chain
<1>7. SettledIsDeep'
  BY <1>2, <1>3 DEF SaveSettlement, IInv, TypeOK, SettledIsDeep, chain
<1> QED
  BY <1>4, <1>5, <1>6, <1>7 DEF IInv

\* Deep by the height the loop goes by is deep.
LEMMA PromoteKeepsIInv ==
  ASSUME IInv, NEW q \in Quotes, Promote(q)
  PROVE  IInv'
<1>1. /\ row[q] \in Row \ {NoRow} /\ mined[q] \in 0..MaxHeight /\ mined[q] <= tip
      /\ loop.tip \in 0..MaxHeight /\ loop.tip <= tip /\ tip \in 0..MaxHeight
      /\ MaxHeight \in Nat /\ MinConfs \in Nat \ {0}
  BY BrokerAssumption DEF Promote, IInv, TypeOK, LoopLagsBehind
<1>2. mined[q] # 0 /\ tip - mined[q] + 1 >= MinConfs
  BY <1>1 DEF Promote, Deep, Confs, TxStatus
<1> DEFINE new == [row[q] EXCEPT !.status = "settled", !.height = mined[q]]
<1>3. new \in Row \ {NoRow} /\ new.height = mined[q]
  BY <1>1 DEF Row, NoRow
<1>4. row' = [row EXCEPT ![q] = new]
  BY DEF Promote, TxStatus, IInv, TypeOK
<1>5. loop'.todo \subseteq loop.todo /\ loop'.tip = loop.tip
      /\ loop' \in [pc : {"sleep", "listed", "sweep"}, todo : SUBSET Quotes,
                    tip : 0..MaxHeight]
  BY DEF Promote, Finish, IInv, TypeOK
<1>6. TypeOK'
  <2>1. row' \in [Quotes -> Row]
    BY <1>3, <1>4 DEF IInv, TypeOK
  <2> QED
    BY <1>5, <2>1 DEF Promote, IInv, TypeOK, memory, takers, makers, chain
<1>7. ServedWereAsked'
  BY DEF Promote, takers, IInv, ServedWereAsked
<1>8. LoopLagsBehind'
  BY <1>3, <1>4, <1>5 DEF Promote, IInv, TypeOK, LoopLagsBehind, chain
<1>9. SettledIsDeep'
  BY <1>2, <1>3, <1>4 DEF Promote, IInv, TypeOK, SettledIsDeep, chain
<1> QED
  BY <1>6, <1>7, <1>8, <1>9 DEF IInv

\* The other steps of the loop write no row, and a height read is not ahead.
LEMMA LoopKeepsIInv ==
  ASSUME IInv,
         \/ ListPending \/ ReadTip \/ ReadTipFails \/ Sleep
         \/ \E q \in Quotes : LeavePending(q) \/ PromoteFails(q)
  PROVE  IInv'
<1>1. /\ UNCHANGED <<memory, row, call, takers, makers, chain>>
      /\ faults' \in 0..MaxFaults
  BY BrokerAssumption DEF ListPending, ReadTip, ReadTipFails, Sleep, LeavePending, PromoteFails,
                          Fault, IInv, TypeOK
<1>2. /\ loop' \in [pc : {"sleep", "listed", "sweep"}, todo : SUBSET Quotes,
                    tip : 0..MaxHeight]
      /\ loop'.tip <= tip
      /\ \A q \in loop'.todo : row[q] # NoRow
  <2>0. loop \in [pc : {"sleep", "listed", "sweep"}, todo : SUBSET Quotes,
                  tip : 0..MaxHeight] /\ tip \in 0..MaxHeight /\ MaxHeight \in Nat
        /\ LoopLagsBehind
    BY BrokerAssumption DEF IInv, TypeOK
  <2>1. CASE ListPending
    BY <2>0, <2>1 DEF ListPending
  <2>2. CASE ReadTip \/ ReadTipFails
    <3>1. PICK h \in {0, tip} : loop' = [loop EXCEPT !.pc = "sweep", !.tip = h]
      BY <2>2 DEF ReadTip, ReadTipFails
    <3>2. h \in 0..MaxHeight /\ h <= tip
      BY <2>0
    <3>3. loop'.todo = loop.todo /\ loop'.tip = h
      BY <2>0, <3>1
    <3> QED
      BY <2>0, <3>1, <3>2, <3>3 DEF LoopLagsBehind
  <2>3. CASE Sleep
    BY <2>0, <2>3 DEF Sleep, Asleep
  <2>4. CASE \E q \in Quotes : LeavePending(q) \/ PromoteFails(q)
    BY <2>0, <2>4 DEF LeavePending, PromoteFails, Finish, LoopLagsBehind
  <2> QED
    BY <2>1, <2>2, <2>3, <2>4
<1>3. TypeOK'
  BY <1>1, <1>2 DEF IInv, TypeOK, memory, takers, makers, chain
<1>4. ServedWereAsked' /\ LoopLagsBehind' /\ SettledIsDeep'
  BY <1>1, <1>2 DEF IInv, ServedWereAsked, LoopLagsBehind, SettledIsDeep, takers, chain
<1> QED
  BY <1>3, <1>4 DEF IInv

\* A new RFQ adds quotes and statistics, and no row.
LEMMA CreateRfqKeepsIInv ==
  ASSUME IInv, NEW r \in Rfqs, CreateRfq(r)
  PROVE  IInv'
<1>1. quotes' \subseteq Quotes
  BY DEF CreateRfq, Fanout, Quotes, IInv, TypeOK
<1>2. stats' \subseteq Rfqs /\ Cardinality(stats') <= StatsCap
  BY AddStatsKeepsBound DEF CreateRfq, IInv
<1>3. TypeOK'
  BY <1>1, <1>2 DEF CreateRfq, IInv, TypeOK, takers, makers, chain
<1> QED
  BY <1>3 DEF CreateRfq, IInv, ServedWereAsked, LoopLagsBehind, SettledIsDeep, takers, chain

\* A maker acting for a request nobody waits for moves its own deal only.
LEMMA StrayKeepsIInv == IInv /\ StrayActs => IInv'
<1> SUFFICES ASSUME IInv, StrayActs PROVE IInv'
  OBVIOUS
<1>1. deal' \in [Quotes -> {"quoted", "accepted", "broadcast"}] /\ strays' \subseteq strays
  BY MakerActsTyped DEF StrayActs, IInv
<1>2. TypeOK'
  BY <1>1 DEF StrayActs, IInv, TypeOK, memory, takers, chain
<1> QED
  BY <1>2 DEF StrayActs, IInv, ServedWereAsked, LoopLagsBehind, SettledIsDeep, takers, chain

\* A block buries what is mined one deeper and takes in only what was not.
LEMMA NewBlockKeepsIInv == IInv /\ NewBlock => IInv'
<1> SUFFICES ASSUME IInv, NewBlock PROVE IInv'
  OBVIOUS
<1>1. /\ tip \in 0..MaxHeight /\ tip' = tip + 1 /\ tip' \in 0..MaxHeight
      /\ MaxHeight \in Nat /\ MinConfs \in Nat \ {0}
  BY BrokerAssumption DEF NewBlock, IInv, TypeOK
<1>2. /\ mined' \in [Quotes -> 0..MaxHeight]
      /\ \A q \in Quotes : mined'[q] <= tip' /\ (mined[q] # 0 => mined'[q] = mined[q])
  <2>1. PICK in \in SUBSET {q \in Quotes : deal[q] = "broadcast" /\ mined[q] = 0} :
          mined' = [q \in Quotes |-> IF q \in in THEN tip' ELSE mined[q]]
    BY DEF NewBlock
  <2> QED
    BY <1>1, <2>1 DEF IInv, TypeOK, LoopLagsBehind
<1>3. TypeOK'
  BY <1>1, <1>2 DEF NewBlock, IInv, TypeOK, memory, takers, makers
<1>4. ServedWereAsked'
  BY DEF NewBlock, takers, IInv, ServedWereAsked
<1>5. LoopLagsBehind'
  BY <1>1, <1>2 DEF NewBlock, IInv, TypeOK, LoopLagsBehind
<1>6. SettledIsDeep'
  <2> SUFFICES ASSUME NEW q \in Quotes, row'[q].status = "settled"
               PROVE  /\ row'[q].height = mined'[q]
                      /\ mined'[q] # 0 /\ tip' - mined'[q] + 1 >= MinConfs
    BY DEF SettledIsDeep
  <2>1. row' = row /\ row[q].height = mined[q] /\ mined[q] # 0 /\ tip - mined[q] + 1 >= MinConfs
    BY DEF NewBlock, IInv, SettledIsDeep
  <2>2. mined'[q] = mined[q] /\ mined[q] \in 0..MaxHeight
    BY <1>2, <2>1 DEF IInv, TypeOK
  <2> QED
    BY <1>1, <2>1, <2>2
<1> QED
  BY <1>3, <1>4, <1>5, <1>6 DEF IInv

\* The table survives a restart, and no listing does.
LEMMA RestartKeepsIInv == IInv /\ Restart => IInv'
<1> SUFFICES ASSUME IInv, Restart PROVE IInv'
  OBVIOUS
<1>1. strays' \subseteq Ops \X Quotes
  <2>1. \A c \in Calls : call[c].pc = "maker" => <<call[c].op, call[c].quote>> \in asked
    BY DEF IInv, ServedWereAsked, Idle
  <2> QED
    BY <2>1 DEF Restart, IInv, TypeOK
<1>2. stats' = {} /\ Cardinality(stats') <= StatsCap
  BY FS_EmptySet, BrokerAssumption DEF Restart
<1>3. faults' \in 0..MaxFaults
  BY BrokerAssumption DEF Restart, Fault, IInv, TypeOK
<1>4. TypeOK'
  BY <1>1, <1>2, <1>3, BrokerAssumption
     DEF Restart, IInv, TypeOK, CallType, Idle, Asleep, takers, chain
<1>5. ServedWereAsked' /\ SettledIsDeep'
  BY DEF Restart, IInv, ServedWereAsked, SettledIsDeep, chain
<1>6. LoopLagsBehind'
  BY DEF Restart, IInv, TypeOK, LoopLagsBehind, Asleep, chain
<1> QED
  BY <1>4, <1>5, <1>6 DEF IInv

\* Every step, and stuttering, keeps the inductive invariant.
LEMMA NextKeepsIInv == IInv /\ [Next]_vars => IInv'
<1> SUFFICES ASSUME IInv, [Next]_vars PROVE IInv'
  OBVIOUS
<1>1. ASSUME NEW c \in Calls, Handle(c) PROVE IInv'
  BY <1>1, RequestKeepsIInv, AnswersKeepIInv, SaveKeepsIInv, LosesKeepIInv DEF Handle
<1>2. CASE ConfirmationLoop \/ ReadTipFails \/ \E q \in Quotes : PromoteFails(q)
  BY <1>2, LoopKeepsIInv, PromoteKeepsIInv DEF ConfirmationLoop
<1>3. CASE UNCHANGED vars
  BY <1>3 DEF vars, memory, takers, makers, chain, IInv, TypeOK, ServedWereAsked,
              LoopLagsBehind, SettledIsDeep
<1> QED
  BY <1>1, <1>2, <1>3, CreateRfqKeepsIInv, StrayKeepsIInv, NewBlockKeepsIInv,
     RestartKeepsIInv DEF Next

\* It holds in every reachable state.
LEMMA IInvAlways == Spec => []IInv
  BY InitIInv, NextKeepsIInv, PTL DEF Spec

\* The state is well-formed: the statistics map keeps its cap, and a taker that was
\* answered had asked.
THEOREM TypeCorrect == Spec => []TypeOK
<1>1. IInv => TypeOK
  BY DEF IInv
<1> QED
  BY <1>1, IInvAlways, PTL

\* What the explorer shows as settled is that deep on the chain, in the block it
\* names, whatever listing, height or error the loop works from (run_confirmation_loop).
THEOREM SettledDeep == Spec => []SettledIsDeep
<1>1. IInv => SettledIsDeep
  BY DEF IInv
<1> QED
  BY <1>1, IInvAlways, PTL

\* No handler, in whatever order it saves, and no promotion takes the first creation
\* time or the statistics from a row (upsert_settlement).
THEOREM RecordStands == Spec => FirstRecordStands
<1>1. ASSUME IInv, [Next]_vars
      PROVE  [\A q \in Quotes :
                row[q] # NoRow => /\ row'[q].created = row[q].created
                                  /\ row[q].stats => row'[q].stats]_vars
  <2> SUFFICES ASSUME NEW q \in Quotes, row[q] # NoRow, row' # row
               PROVE  /\ row'[q].created = row[q].created
                      /\ row[q].stats => row'[q].stats
    OBVIOUS
  <2>1. row \in [Quotes -> Row]
    BY <1>1 DEF IInv, TypeOK
  <2>2. ASSUME NEW c \in Calls, SaveSettlement(c)
        PROVE  /\ row'[q].created = row[q].created
               /\ row[q].stats => row'[q].stats
    <3>1. call[c] \in CallType /\ call[c].pc = "save"
      BY <1>1, <2>2 DEF SaveSettlement, IInv, TypeOK
    <3>2. CASE q = call[c].quote
      BY <2>1, <2>2, <3>1, <3>2, RecordIsRow DEF SaveSettlement
    <3>3. CASE q # call[c].quote
      BY <2>1, <2>2, <3>3 DEF SaveSettlement
    <3> QED
      BY <3>2, <3>3
  <2>3. ASSUME NEW p \in Quotes, Promote(p)
        PROVE  /\ row'[q].created = row[q].created
               /\ row[q].stats => row'[q].stats
    <3>1. row[q] \in Row \ {NoRow}
      BY <2>1
    <3>2. row' = [row EXCEPT ![p].status = "settled", ![p].height = TxStatus(p)]
      BY <2>3 DEF Promote
    <3> QED
      BY <2>1, <3>1, <3>2 DEF Row
  <2>4. \/ \E c \in Calls : SaveSettlement(c)
        \/ \E p \in Quotes : Promote(p)
    BY <1>1 DEF Next, Handle, ConfirmationLoop, CreateRfq, Request, MakerAnswers, MakerRefuses,
                TakeStats, SaveFails, LoseCall, ListPending, ReadTip, Sleep, LeavePending,
                ReadTipFails, PromoteFails, StrayActs, NewBlock, Restart, vars
  <2> QED
    BY <2>2, <2>3, <2>4
<1> QED
  BY <1>1, IInvAlways, PTL DEF Spec, FirstRecordStands
-----------------------------------------------------------------------------
(***************************************************************************)
(* The statistics of an RFQ                                                *)
(***************************************************************************)

\* The handlers that carry the statistics of an RFQ, and the rows that have them.
Carriers(r) ==
  {c \in Calls : call[c].pc = "save" /\ call[c].stats /\ RfqOf(call[c].quote) = r}

Recorders(r) == {q \in Quotes : RfqOf(q) = r /\ row[q] # NoRow /\ row[q].stats}

Quoted(r) == \E q \in quotes : RfqOf(q) = r

\* The statistics are in one place, or in none, said without counting.
HeldOnce(r) ==
  \/ r \in stats /\ Carriers(r) = {} /\ Recorders(r) = {}
  \/ r \notin stats /\ (\E c \in Calls : Carriers(r) = {c}) /\ Recorders(r) = {}
  \/ r \notin stats /\ Carriers(r) = {} /\ (\E q \in Quotes : Recorders(r) = {q})

HeldNowhere(r) == r \notin stats /\ Carriers(r) = {} /\ Recorders(r) = {}

\* A request has no statistics before it took them.
EarlyCallsHaveNone ==
  \A c \in Calls : call[c].pc \in {"maker", "stats"} => call[c].stats = FALSE

\* What nobody has quoted has nothing waiting.
WaitingAreQuoted == \A r \in stats : Quoted(r)

StatsInv == /\ EarlyCallsHaveNone /\ WaitingAreQuoted
            /\ \A r \in Rfqs : HeldOnce(r) \/ HeldNowhere(r)

\* StatsReachOneRow, step by step and without counting.
StatsStep ==
  \A r \in Rfqs :
    (HeldOnce(r) \/ NewlyQuoted(r)) /\ faults' = faults => HeldOnce(r)' \/ ClearedOut(r)

\* Counting says the same.
LEMMA CountWaiting ==
  ASSUME NEW r, NEW waiting
  PROVE  Cardinality(waiting \cap {r}) = IF r \in waiting THEN 1 ELSE 0
<1>1. waiting \cap {r} = IF r \in waiting THEN {r} ELSE {}
  OBVIOUS
<1> QED
  BY <1>1, FS_EmptySet, FS_Singleton

\* A step that leaves both what carries and what records an RFQ's statistics, and
\* where they wait, leaves them where they are.
LEMMA HeldStays ==
  ASSUME NEW r, r \in stats' <=> r \in stats,
         Carriers(r)' = Carriers(r), Recorders(r)' = Recorders(r)
  PROVE  (HeldOnce(r)' <=> HeldOnce(r)) /\ (HeldNowhere(r)' <=> HeldNowhere(r))
  BY DEF HeldOnce, HeldNowhere

\* The table decides what records them, the requests what carries them.
LEMMA SameRecorders ==
  ASSUME NEW r, row' = row
  PROVE  Recorders(r)' = Recorders(r)
  BY DEF Recorders

LEMMA SameCarriers ==
  ASSUME NEW r,
         \A c \in Calls : c \in Carriers(r)' <=> c \in Carriers(r)
  PROVE  Carriers(r)' = Carriers(r)
<1>1. Carriers(r) \subseteq Calls /\ Carriers(r)' \subseteq Calls
  BY DEF Carriers
<1> QED
  BY <1>1

\* A step without a new quote that moves the statistics from place to place.
LEMMA MoveIsStep ==
  ASSUME StatsInv, EarlyCallsHaveNone', quotes' = quotes, stats' \subseteq stats,
         \A r \in Rfqs : /\ HeldOnce(r) => HeldOnce(r)'
                         /\ HeldNowhere(r) => HeldNowhere(r)'
  PROVE  StatsInv' /\ StatsStep
<1>1. \A r : ~NewlyQuoted(r)
  BY DEF NewlyQuoted
<1>2. WaitingAreQuoted'
  BY DEF StatsInv, WaitingAreQuoted, Quoted
<1> QED
  BY <1>1, <1>2 DEF StatsInv, StatsStep

\* A step that fails may lose them; it does not double them.
LEMMA FaultIsStep ==
  ASSUME StatsInv, EarlyCallsHaveNone', WaitingAreQuoted', faults' # faults,
         \A r \in Rfqs : HeldOnce(r) \/ HeldNowhere(r) => HeldOnce(r)' \/ HeldNowhere(r)'
  PROVE  StatsInv' /\ StatsStep
  BY DEF StatsInv, StatsStep

\* A new RFQ has neither a request nor a row: its statistics wait in the map.  Those of
\* the others stay, but for a map that was full, whose place it takes.
LEMMA CreateRfqKeepsStats ==
  ASSUME IInv, StatsInv, NEW s \in Rfqs, CreateRfq(s)
  PROVE  StatsInv' /\ StatsStep
<1>1. /\ \A q \in Quotes : RfqOf(q) = s => q \notin quotes /\ row[q] = NoRow
      /\ \A op \in Ops, q \in Quotes : RfqOf(q) = s => <<op, q>> \notin asked
      /\ UNCHANGED <<row, call>> /\ quotes \subseteq Quotes /\ stats \subseteq Rfqs
      /\ call \in [Calls -> CallType]
  BY DEF CreateRfq, IInv, TypeOK
<1>2. PICK some \in (SUBSET Makers) \ {{}} : quotes' = quotes \cup ({s} \X some)
  BY DEF CreateRfq, Fanout
<1>3. stats' = {s} \cup (IF Cardinality(stats) >= StatsCap THEN {} ELSE stats)
  BY DEF CreateRfq, AddStats
<1>4. Cardinality(stats) >= StatsCap => Cardinality(stats) = StatsCap
  <2>1. IsFiniteSet(stats) /\ Cardinality(stats) \in Nat /\ StatsCap \in Nat
    BY <1>1, BrokerAssumption, FS_Subset, FS_CardinalityType
  <2> QED
    BY <2>1 DEF IInv, TypeOK
<1>5. \A r : Recorders(r)' = Recorders(r) /\ Carriers(r)' = Carriers(r)
  BY <1>1 DEF Recorders, Carriers
<1>6. Recorders(s) = {} /\ Carriers(s) = {}
  <2>1. Recorders(s) = {}
    BY <1>1 DEF Recorders
  <2>2. ASSUME NEW c \in Carriers(s) PROVE FALSE
    <3>1. c \in Calls /\ call[c] # Idle /\ RfqOf(call[c].quote) = s
      BY DEF Carriers, Idle
    <3>2. call[c].op \in Ops /\ call[c].quote \in Quotes
      BY <1>1, <3>1 DEF CallType
    <3> QED
      BY <1>1, <3>1, <3>2 DEF IInv, ServedWereAsked
  <2> QED
    BY <2>1, <2>2
<1>7. s \notin stats
  BY <1>1 DEF StatsInv, WaitingAreQuoted, Quoted
<1>8. HeldOnce(s)'
  BY <1>3, <1>5, <1>6 DEF HeldOnce
<1>9. ASSUME NEW r \in Rfqs, r # s
      PROVE  /\ HeldOnce(r)' \/ HeldNowhere(r)'
             /\ HeldOnce(r) => HeldOnce(r)' \/ ClearedOut(r)
             /\ ~NewlyQuoted(r)
  <2>1. ~NewlyQuoted(r)
    BY <1>2, <1>9 DEF NewlyQuoted, RfqOf
  <2>2. CASE r \in stats' <=> r \in stats
    <3>1. (HeldOnce(r)' <=> HeldOnce(r)) /\ (HeldNowhere(r)' <=> HeldNowhere(r))
      BY <1>5, <2>2, HeldStays
    <3> QED
      BY <2>1, <3>1 DEF StatsInv
  <2>3. CASE ~(r \in stats' <=> r \in stats)
    <3>1. Cardinality(stats) = StatsCap /\ r \in stats /\ r \notin stats'
      BY <1>3, <1>4, <1>9, <2>3
    <3>2. Carriers(r) = {} /\ Recorders(r) = {}
      BY <3>1 DEF StatsInv, HeldOnce, HeldNowhere
    <3>3. HeldNowhere(r)'
      BY <1>5, <3>1, <3>2 DEF HeldNowhere
    <3>4. ClearedOut(r)
      BY <1>3, <1>7, <3>1 DEF ClearedOut
    <3> QED
      BY <2>1, <3>3, <3>4
  <2> QED
    BY <2>2, <2>3
<1>10. EarlyCallsHaveNone'
  BY <1>1 DEF StatsInv, EarlyCallsHaveNone
<1>11. WaitingAreQuoted'
  <2>1. \A r : Quoted(r) => Quoted(r)'
    BY <1>2 DEF Quoted
  <2>2. PICK m \in some : TRUE
    BY <1>2
  <2>3. <<s, m>> \in quotes' /\ RfqOf(<<s, m>>) = s
    BY <1>2, <2>2 DEF RfqOf
  <2> QED
    BY <1>3, <2>1, <2>3 DEF StatsInv, WaitingAreQuoted, Quoted
<1> QED
  BY <1>8, <1>9, <1>10, <1>11 DEF StatsInv, StatsStep

\* A step of one request that neither takes nor writes statistics keeps them in place.
LEMMA CallKeepsStats ==
  ASSUME IInv, StatsInv, NEW c \in Calls,
         UNCHANGED <<quotes, stats, row>>,
         NEW call2 \in CallType,
         call' = [call EXCEPT ![c] = call2],
         call2.pc \in {"maker", "stats"} => call2.stats = FALSE,
         ~(call2.pc = "save" /\ call2.stats),
         ~(call[c].pc = "save" /\ call[c].stats)
  PROVE  StatsInv' /\ StatsStep
<1>1. call'[c] = call2 /\ \A d \in Calls : d # c => call'[d] = call[d]
  BY DEF IInv, TypeOK
<1>2. EarlyCallsHaveNone'
  BY <1>1 DEF StatsInv, EarlyCallsHaveNone
<1>3. ASSUME NEW r \in Rfqs PROVE Carriers(r)' = Carriers(r)
  <2>1. \A d \in Calls : d \in Carriers(r)' <=> d \in Carriers(r)
    BY <1>1 DEF Carriers
  <2> QED
    BY <2>1, SameCarriers
<1>4. \A r \in Rfqs : (HeldOnce(r)' <=> HeldOnce(r)) /\ (HeldNowhere(r)' <=> HeldNowhere(r))
  BY <1>3, SameRecorders, HeldStays
<1> QED
  BY <1>2, <1>4, MoveIsStep

\* A request taken on has no statistics; neither has one that is answered or refused.
LEMMA EarlyCallKeepsStats ==
  ASSUME IInv, StatsInv, NEW c \in Calls,
         \/ \E op \in Ops, q \in Quotes : Request(c, op, q)
         \/ MakerAnswers(c) \/ MakerRefuses(c)
  PROVE  StatsInv' /\ StatsStep
<1>1. UNCHANGED <<quotes, stats, row>>
  BY DEF Request, MakerAnswers, MakerRefuses, memory
<1>2. call[c] \in CallType /\ call \in [Calls -> CallType]
  BY DEF IInv, TypeOK
<1>3. ASSUME NEW op \in Ops, NEW q \in Quotes, Request(c, op, q) PROVE StatsInv' /\ StatsStep
  <2> DEFINE new == [pc |-> "maker", op |-> op, quote |-> q, stats |-> FALSE]
  <2>1. new \in CallType /\ call' = [call EXCEPT ![c] = new]
        /\ new.pc = "maker" /\ new.stats = FALSE
    BY <1>3 DEF Request, CallType
  <2>2. ~(call[c].pc = "save" /\ call[c].stats)
    BY <1>3 DEF Request, Idle
  <2> HIDE DEF new
  <2> QED
    BY <1>1, <2>1, <2>2, CallKeepsStats
<1>4. CASE MakerAnswers(c)
  <2> DEFINE new == [call[c] EXCEPT !.pc = IF call[c].op = "accept" THEN "stats" ELSE "save"]
  <2>1. call[c] \in [pc : {"maker", "stats", "save"}, op : Ops, quote : Quotes, stats : BOOLEAN]
        /\ call[c].pc = "maker"
    BY <1>2, <1>4 DEF MakerAnswers, CallType, Idle
  <2>2. new \in CallType /\ new.stats = call[c].stats
    BY <2>1 DEF CallType
  <2>3. call' = [call EXCEPT ![c] = new]
    BY <1>2, <1>4 DEF MakerAnswers
  <2>4. call[c].stats = FALSE
    BY <2>1 DEF StatsInv, EarlyCallsHaveNone
  <2> HIDE DEF new
  <2> QED
    BY <1>1, <2>1, <2>2, <2>3, <2>4, CallKeepsStats
<1>5. CASE MakerRefuses(c)
  <2>1. call' = [call EXCEPT ![c] = Idle] /\ Idle \in CallType /\ Idle.pc = "idle"
        /\ call[c].pc # "save"
    BY <1>5 DEF MakerRefuses, CallType, Idle
  <2> QED
    BY <1>1, <2>1, CallKeepsStats
<1> QED
  BY <1>3, <1>4, <1>5

\* What the map has moves to the one request that takes it.
LEMMA TakeStatsKeepsStats ==
  ASSUME IInv, StatsInv, NEW c \in Calls, TakeStats(c)
  PROVE  StatsInv' /\ StatsStep
<1>1. PICK q \in Quotes : q = call[c].quote /\ call[c].pc = "stats"
                          /\ call[c] \in [pc : {"maker", "stats", "save"}, op : Ops,
                                          quote : Quotes, stats : BOOLEAN]
  BY DEF TakeStats, IInv, TypeOK, CallType, Idle
<1>2. PICK s \in Rfqs : s = RfqOf(q)
  BY DEF Quotes, RfqOf
<1>3. stats' = stats \ {s} /\ UNCHANGED <<quotes, row>>
  BY <1>1, <1>2 DEF TakeStats
<1> DEFINE new(b) == [call[c] EXCEPT !.pc = "save", !.stats = b]
<1>4. PICK b \in BOOLEAN : call' = [call EXCEPT ![c] = new(b)] /\ (b <=> s \in stats)
  <2>1. call' = [call EXCEPT ![c] = new(s \in stats)]
    BY <1>1, <1>2 DEF TakeStats, IInv, TypeOK
  <2>2. (s \in stats) \in BOOLEAN
    OBVIOUS
  <2> HIDE DEF new
  <2> QED
    BY <2>1, <2>2, Zenon
<1>5. new(b).pc = "save" /\ new(b).quote = q /\ new(b).stats = b
  BY <1>1
<1>6. call'[c] = new(b) /\ \A d \in Calls : d # c => call'[d] = call[d]
  BY <1>4 DEF IInv, TypeOK
<1> HIDE DEF new
<1>7. EarlyCallsHaveNone'
  BY <1>5, <1>6 DEF StatsInv, EarlyCallsHaveNone
<1>8. \A r : c \notin Carriers(r)
  BY <1>1 DEF Carriers
<1>9. \A r, d : d # c => (d \in Carriers(r)' <=> d \in Carriers(r))
  BY <1>6 DEF Carriers
<1>10. \A r : c \in Carriers(r)' <=> r = s /\ s \in stats
  BY <1>2, <1>4, <1>5, <1>6 DEF Carriers
<1>11. ASSUME NEW r \in Rfqs
       PROVE  (HeldOnce(r) => HeldOnce(r)') /\ (HeldNowhere(r) => HeldNowhere(r)')
  <2>1. Recorders(r)' = Recorders(r)
    BY <1>3, SameRecorders
  <2>2. CASE r = s /\ s \in stats
    <3>1. Carriers(s) = {} /\ Recorders(s) = {}
      BY <2>2 DEF StatsInv, HeldOnce, HeldNowhere
    <3>2. Carriers(s)' = {c}
      BY <1>9, <1>10, <2>2, <3>1
    <3> QED
      BY <1>3, <2>1, <2>2, <3>1, <3>2 DEF HeldOnce, HeldNowhere
  <2>3. CASE ~(r = s /\ s \in stats)
    <3>1. Carriers(r)' = Carriers(r)
      BY <1>8, <1>9, <1>10, <2>3, SameCarriers
    <3>2. r \in stats' <=> r \in stats
      BY <1>3, <2>3
    <3> QED
      BY <2>1, <3>1, <3>2, HeldStays
  <2> QED
    BY <2>2, <2>3
<1> QED
  BY <1>3, <1>7, <1>11, MoveIsStep

\* What the request carried is in its row afterwards, and no other row gets any.
LEMMA SaveKeepsStats ==
  ASSUME IInv, StatsInv, NEW c \in Calls, SaveSettlement(c)
  PROVE  StatsInv' /\ StatsStep
<1>1. PICK q \in Quotes : q = call[c].quote /\ call[c].pc = "save"
                          /\ call[c] \in [pc : {"maker", "stats", "save"}, op : Ops,
                                          quote : Quotes, stats : BOOLEAN]
  BY DEF SaveSettlement, IInv, TypeOK, CallType, Idle
<1>2. PICK s \in Rfqs : s = RfqOf(q)
  BY DEF Quotes, RfqOf
<1>3. UNCHANGED <<quotes, stats>> /\ call' = [call EXCEPT ![c] = Idle]
  BY DEF SaveSettlement, Answer, memory
<1>4. call'[c] = Idle /\ \A d \in Calls : d # c => call'[d] = call[d]
  BY <1>3 DEF IInv, TypeOK
<1>5. /\ row' = [row EXCEPT ![q] = Upsert(row[q], Record(c))]
      /\ row[q] \in Row /\ row \in [Quotes -> Row]
  BY <1>1 DEF SaveSettlement, IInv, TypeOK
<1>6. /\ row'[q] # NoRow
      /\ row'[q].stats <=> call[c].stats \/ (row[q] # NoRow /\ row[q].stats)
  <2>1. row'[q] = Upsert(row[q], Record(c))
    BY <1>5
  <2>2. Upsert(row[q], Record(c)) # NoRow
    BY <1>1, <1>5, RecordIsRow DEF IInv, TypeOK
  <2>3. Record(c).stats = call[c].stats /\ call[c].stats \in BOOLEAN
    BY <1>1 DEF Record
  <2>4. CASE row[q] = NoRow
    BY <2>1, <2>2, <2>3, <2>4 DEF Upsert
  <2>5. CASE row[q] # NoRow
    <3>1. row[q].stats \in BOOLEAN
      BY <1>5, <2>5 DEF Row
    <3>2. Upsert(row[q], Record(c)).stats = (Record(c).stats \/ row[q].stats)
      BY <2>5 DEF Upsert, Record
    <3> QED
      BY <2>1, <2>2, <2>3, <2>5, <3>1, <3>2, Zenon
  <2> QED
    BY <2>4, <2>5
<1>7. \A p \in Quotes : p # q => row'[p] = row[p]
  BY <1>5
<1>8. EarlyCallsHaveNone'
  BY <1>4 DEF StatsInv, EarlyCallsHaveNone, Idle
<1>9. \A r, d : d \in Carriers(r)' <=> d \in Carriers(r) /\ d # c
  BY <1>4 DEF Carriers, Idle
<1>10. \A r : c \in Carriers(r) <=> r = s /\ call[c].stats
  BY <1>1, <1>2 DEF Carriers
<1>11. \A r, p : p \in Recorders(r)' <=> p \in Recorders(r) \/ (p = q /\ r = s /\ call[c].stats)
  BY <1>2, <1>6, <1>7 DEF Recorders
<1>12. ASSUME NEW r \in Rfqs
       PROVE  (HeldOnce(r) => HeldOnce(r)') /\ (HeldNowhere(r) => HeldNowhere(r)')
  <2>1. CASE r = s /\ call[c].stats
    <3>1. s \notin stats /\ Carriers(s) = {c} /\ Recorders(s) = {}
      BY <1>10, <2>1 DEF StatsInv, HeldOnce, HeldNowhere
    <3>2. Carriers(s)' = {}
      BY <1>9, <3>1
    <3>3. Recorders(s)' = {q}
      BY <1>11, <2>1, <3>1
    <3> QED
      BY <1>3, <2>1, <3>1, <3>2, <3>3 DEF HeldOnce, HeldNowhere
  <2>2. CASE ~(r = s /\ call[c].stats)
    <3>1. Carriers(r)' = Carriers(r)
      BY <1>9, <1>10, <2>2, SameCarriers
    <3>2. Recorders(r)' = Recorders(r)
      <4>1. \A p : p \in Recorders(r)' <=> p \in Recorders(r)
        BY <1>11, <2>2
      <4>2. Recorders(r) \subseteq Quotes /\ Recorders(r)' \subseteq Quotes
        BY DEF Recorders
      <4> QED
        BY <4>1, <4>2
    <3> QED
      BY <1>3, <3>1, <3>2, HeldStays
  <2> QED
    BY <2>1, <2>2
<1> QED
  BY <1>3, <1>8, <1>12, MoveIsStep

\* A promotion keeps what its row has.
LEMMA PromoteKeepsStats ==
  ASSUME IInv, StatsInv, NEW q \in Quotes, Promote(q)
  PROVE  StatsInv' /\ StatsStep
<1> DEFINE new == [row[q] EXCEPT !.status = "settled", !.height = mined[q]]
<1>1. row[q] \in Row \ {NoRow} /\ row \in [Quotes -> Row]
  BY DEF Promote, IInv, TypeOK, LoopLagsBehind
<1>2. new # NoRow /\ new.stats = row[q].stats
  BY <1>1 DEF Row, NoRow
<1>3. row' = [row EXCEPT ![q] = new] /\ UNCHANGED <<quotes, stats, call>>
  BY <1>1 DEF Promote, TxStatus, memory
<1> HIDE DEF new
<1>4. ASSUME NEW r PROVE Recorders(r)' = Recorders(r)
  <2>1. \A p \in Quotes : p \in Recorders(r)' <=> p \in Recorders(r)
    BY <1>1, <1>2, <1>3 DEF Recorders
  <2>2. Recorders(r) \subseteq Quotes /\ Recorders(r)' \subseteq Quotes
    BY DEF Recorders
  <2> QED
    BY <2>1, <2>2
<1>5. \A r : Carriers(r)' = Carriers(r)
  BY <1>3 DEF Carriers
<1>6. \A r \in Rfqs : (HeldOnce(r)' <=> HeldOnce(r)) /\ (HeldNowhere(r)' <=> HeldNowhere(r))
  BY <1>3, <1>4, <1>5, HeldStays
<1>7. EarlyCallsHaveNone'
  BY <1>3 DEF StatsInv, EarlyCallsHaveNone
<1> QED
  BY <1>3, <1>6, <1>7, MoveIsStep

\* A request that fails loses what it carries, if anything; a restart what waits, too.
LEMMA FaultKeepsStats ==
  ASSUME IInv, StatsInv, faults' = faults + 1, row' = row,
         \/ UNCHANGED memory /\ \E c \in Calls : call' = [call EXCEPT ![c] = Idle]
         \/ UNCHANGED <<quotes, stats, call>>
         \/ stats' = {} /\ call' = [c \in Calls |-> Idle]
  PROVE  StatsInv' /\ StatsStep
<1>1. faults' # faults
  BY BrokerAssumption DEF IInv, TypeOK
<1>2. \A c \in Calls : call'[c] \in {call[c], Idle}
  BY DEF IInv, TypeOK
<1>3. EarlyCallsHaveNone'
  BY <1>2 DEF StatsInv, EarlyCallsHaveNone, Idle
<1>4. WaitingAreQuoted'
  BY DEF StatsInv, WaitingAreQuoted, Quoted, memory
<1>5. ASSUME NEW r \in Rfqs PROVE HeldOnce(r)' \/ HeldNowhere(r)'
  <2>1. Recorders(r)' = Recorders(r)
    BY SameRecorders
  <2>2. Carriers(r)' \subseteq Carriers(r)
    BY <1>2 DEF Carriers, Idle
  <2>3. r \in stats' => r \in stats
    BY DEF memory
  <2> QED
    BY <2>1, <2>2, <2>3 DEF StatsInv, HeldOnce, HeldNowhere
<1> QED
  BY <1>1, <1>3, <1>4, <1>5, FaultIsStep

\* The other steps touch neither statistics, requests nor rows.
LEMMA OtherStepsKeepStats ==
  ASSUME StatsInv, UNCHANGED <<quotes, stats, row, call>>
  PROVE  StatsInv' /\ StatsStep
<1>1. \A r : Carriers(r)' = Carriers(r) /\ Recorders(r)' = Recorders(r)
  BY DEF Carriers, Recorders
<1>2. \A r \in Rfqs : (HeldOnce(r)' <=> HeldOnce(r)) /\ (HeldNowhere(r)' <=> HeldNowhere(r))
  BY <1>1, HeldStays
<1>3. EarlyCallsHaveNone'
  BY DEF StatsInv, EarlyCallsHaveNone
<1> QED
  BY <1>2, <1>3, MoveIsStep

\* Every step keeps the statistics of each RFQ in one place, and loses none but where
\* something fails or the map is full.
LEMMA NextKeepsStats ==
  ASSUME IInv, StatsInv, [Next]_vars
  PROVE  StatsInv' /\ StatsStep
<1>1. ASSUME NEW c \in Calls, Handle(c) PROVE StatsInv' /\ StatsStep
  <2>1. ASSUME SaveFails(c) \/ LoseCall(c)
        PROVE  /\ faults' = faults + 1 /\ row' = row
               /\ UNCHANGED memory /\ call' = [call EXCEPT ![c] = Idle]
    BY <2>1 DEF SaveFails, LoseCall, Fault, Answer
  <2> QED
    BY <1>1, <2>1, EarlyCallKeepsStats, TakeStatsKeepsStats, SaveKeepsStats, FaultKeepsStats
    DEF Handle
<1>2. CASE ConfirmationLoop
  <2>1. ASSUME ListPending \/ ReadTip \/ Sleep \/ \E q \in Quotes : LeavePending(q)
        PROVE  UNCHANGED <<quotes, stats, row, call>>
    BY <2>1 DEF ListPending, ReadTip, Sleep, LeavePending, memory
  <2> QED
    BY <1>2, <2>1, PromoteKeepsStats, OtherStepsKeepStats DEF ConfirmationLoop
<1>3. CASE ReadTipFails \/ \E q \in Quotes : PromoteFails(q)
  <2>1. UNCHANGED <<quotes, stats, row, call>>
    BY <1>3 DEF ReadTipFails, PromoteFails, memory
  <2> QED
    BY <2>1, OtherStepsKeepStats
<1>4. CASE Restart
  <2>1. faults' = faults + 1 /\ row' = row /\ stats' = {} /\ call' = [c \in Calls |-> Idle]
    BY <1>4 DEF Restart, Fault
  <2> QED
    BY <2>1, FaultKeepsStats
<1>5. CASE StrayActs \/ NewBlock \/ UNCHANGED vars
  <2>1. UNCHANGED <<quotes, stats, row, call>>
    BY <1>5 DEF StrayActs, NewBlock, vars, memory
  <2> QED
    BY <2>1, OtherStepsKeepStats
<1> QED
  BY <1>1, <1>2, <1>3, <1>4, <1>5, CreateRfqKeepsStats DEF Next

\* The statistics of an RFQ are never in two places (accept_quote takes them out of the
\* map, upsert_settlement keeps them): of all that accept its quotes, at once or again,
\* one records them.  They are lost only where something fails, or with the map that
\* create_rfq clears when it is full, and then not once a handler has taken them.
THEOREM StatsInOneRow == Spec => StatsReachOneRow
<1>1. Init => StatsInv
  BY DEF Init, StatsInv, EarlyCallsHaveNone, WaitingAreQuoted, HeldNowhere, Carriers,
         Recorders, NoRow, Idle
<1>2. IInv /\ StatsInv /\ [Next]_vars => StatsInv'
  BY NextKeepsStats
<1>3. ASSUME IInv, StatsInv, [Next]_vars, vars' # vars, NEW r \in Rfqs
      PROVE  /\ Places(r)' <= 1
             /\ (Places(r) = 1 \/ NewlyQuoted(r)) /\ faults' = faults =>
                  Places(r)' = 1 \/ ClearedOut(r)
  <2>1. StatsInv' /\ StatsStep
    BY <1>3, NextKeepsStats
  <2>2. ASSUME Places(r) = 1 PROVE HeldOnce(r)
    <3>1. SUFFICES ASSUME HeldNowhere(r) PROVE FALSE
      BY <1>3 DEF StatsInv
    <3>2. Places(r) = Cardinality(stats \cap {r}) + Cardinality({}) + Cardinality({})
      BY <3>1 DEF HeldNowhere, Places, Carriers, Recorders
    <3>3. Cardinality(stats \cap {r}) = 0
      BY <3>1, CountWaiting DEF HeldNowhere
    <3> QED
      BY <2>2, <3>2, <3>3, FS_EmptySet
  <2> DEFINE inMap == Cardinality(stats' \cap {r})
             carried == Cardinality(Carriers(r)')
             recorded == Cardinality(Recorders(r)')
  <2>3. Places(r)' = inMap + carried + recorded
    BY DEF Places, Carriers, Recorders
  <2>4. inMap = IF r \in stats' THEN 1 ELSE 0
    BY CountWaiting
  <2>5. Carriers(r)' = {} => carried = 0
    BY FS_EmptySet
  <2>6. Recorders(r)' = {} => recorded = 0
    BY FS_EmptySet
  <2>7. (\E c \in Calls : Carriers(r)' = {c}) => carried = 1
    BY FS_Singleton
  <2>8. (\E q \in Quotes : Recorders(r)' = {q}) => recorded = 1
    BY FS_Singleton
  <2>9. HeldOnce(r)' => Places(r)' = 1
    <3> HIDE DEF inMap, carried, recorded
    <3> QED
      BY <2>3, <2>4, <2>5, <2>6, <2>7, <2>8 DEF HeldOnce
  <2>10. HeldNowhere(r)' => Places(r)' = 0
    <3> HIDE DEF inMap, carried, recorded
    <3> QED
      BY <2>3, <2>4, <2>5, <2>6 DEF HeldNowhere
  <2> QED
    BY <2>1, <2>2, <2>9, <2>10 DEF StatsInv, StatsStep
<1>4. IInv /\ StatsInv /\ [Next]_vars =>
        [\A r \in Rfqs :
           /\ Places(r)' <= 1
           /\ (Places(r) = 1 \/ NewlyQuoted(r)) /\ faults' = faults =>
                Places(r)' = 1 \/ ClearedOut(r)]_vars
  BY <1>3
<1> QED
  BY <1>1, <1>2, <1>4, IInvAlways, PTL DEF Spec, StatsReachOneRow
=============================================================================
