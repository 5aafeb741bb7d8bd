------------------------- MODULE WsConnector_proofs -------------------------
(***************************************************************************)
(* The connector keeps its safety invariants for every number of calls and *)
(* every size of the queue and of the socket's buffer.                     *)
(***************************************************************************)
EXTENDS WsConnector, TLAPS

In(n, s) == \E i \in DOMAIN s : s[i] = n

-----------------------------------------------------------------------------
(***************************************************************************)
(* Where a request can be after a step of a channel                        *)
(***************************************************************************)

\* What a channel holds after a send: what it held, and the frame sent.
LEMMA InAppend ==
  ASSUME NEW S, NEW s \in Seq(S), NEW e \in S, NEW n
  PROVE  In(n, Append(s, e)) <=> In(n, s) \/ n = e
<1>1. ASSUME In(n, s) PROVE In(n, Append(s, e))
  <2>1. PICK i \in DOMAIN s : s[i] = n
    BY <1>1 DEF In
  <2>2. i \in DOMAIN Append(s, e) /\ Append(s, e)[i] = n
    BY <2>1
  <2> QED BY <2>2 DEF In
<1>2. In(e, Append(s, e))
  <2>1. Len(s) + 1 \in DOMAIN Append(s, e) /\ Append(s, e)[Len(s) + 1] = e
    OBVIOUS
  <2> QED BY <2>1 DEF In
<1>3. ASSUME In(n, Append(s, e)) PROVE In(n, s) \/ n = e
  <2>1. PICK i \in DOMAIN Append(s, e) : Append(s, e)[i] = n
    BY <1>3 DEF In
  <2>2. CASE i = Len(s) + 1
    BY <2>1, <2>2
  <2>3. CASE i # Len(s) + 1
    <3>1. i \in DOMAIN s /\ s[i] = n
      BY <2>1, <2>3
    <3> QED BY <3>1 DEF In
  <2> QED BY <2>2, <2>3
<1> QED BY <1>1, <1>2, <1>3

\* What a channel held before a receive: the frame received, and what it holds.
LEMMA InTail ==
  ASSUME NEW S, NEW s \in Seq(S), s # <<>>, NEW n
  PROVE  /\ Head(s) \in S
         /\ Tail(s) \in Seq(S)
         /\ Len(Tail(s)) = Len(s) - 1
         /\ In(Head(s), s)
         /\ In(n, s) <=> In(n, Tail(s)) \/ n = Head(s)
<1>1. /\ Head(s) \in S
      /\ Tail(s) \in Seq(S)
      /\ Len(Tail(s)) = Len(s) - 1
  OBVIOUS
<1>2. In(Head(s), s)
  <2>1. 1 \in DOMAIN s /\ s[1] = Head(s)
    OBVIOUS
  <2> QED BY <2>1 DEF In
<1>3. ASSUME In(n, s) PROVE In(n, Tail(s)) \/ n = Head(s)
  <2>1. PICK i \in DOMAIN s : s[i] = n
    BY <1>3 DEF In
  <2>2. CASE i = 1
    BY <2>1, <2>2
  <2>3. CASE i # 1
    <3>1. i - 1 \in DOMAIN Tail(s) /\ Tail(s)[i - 1] = n
      BY <2>1, <2>3
    <3> QED BY <3>1 DEF In
  <2> QED BY <2>2, <2>3
<1>4. ASSUME In(n, Tail(s)) PROVE In(n, s)
  <2>1. PICK i \in DOMAIN Tail(s) : Tail(s)[i] = n
    BY <1>4 DEF In
  <2>2. i + 1 \in DOMAIN s /\ s[i + 1] = n
    BY <2>1
  <2> QED BY <2>2 DEF In
<1> QED BY <1>1, <1>2, <1>3, <1>4

\* A connection that breaks keeps a part of what was on its way.
LEMMA InPrefix ==
  ASSUME NEW S, NEW s \in Seq(S), NEW k \in 0..Len(s), NEW n
  PROVE  /\ SubSeq(s, 1, k) \in Seq(S)
         /\ Len(SubSeq(s, 1, k)) <= Len(s)
         /\ In(n, SubSeq(s, 1, k)) => In(n, s)
<1>1. /\ SubSeq(s, 1, k) \in Seq(S)
      /\ Len(SubSeq(s, 1, k)) = k
      /\ \A i \in 1..k : SubSeq(s, 1, k)[i] = s[i]
  OBVIOUS
<1>2. ASSUME In(n, SubSeq(s, 1, k)) PROVE In(n, s)
  <2>1. PICK i \in 1..k : SubSeq(s, 1, k)[i] = n
    BY <1>1, <1>2 DEF In
  <2>2. i \in DOMAIN s /\ s[i] = n
    BY <1>1, <2>1
  <2> QED BY <2>2 DEF In
<1> QED BY <1>1, <1>2

LEMMA InEmpty == ASSUME NEW n PROVE ~In(n, <<>>)
BY DEF In

-----------------------------------------------------------------------------
(***************************************************************************)
(* The inductive invariant                                                 *)
(***************************************************************************)

\* A response is to a request the maker has carried out; what a oneshot holds is
\* the response to its own request.
ResponsesAreOwn ==
  /\ \A n \in Ids : In(n, replies) => n \in executed
  /\ \A n \in Ids : oneshot[n] \in {0, Disconnected} \/ (oneshot[n] = n /\ n \in executed)
  /\ \A n \in Ids : outcome[n] = "ok" => oneshot[n] = n

\* A request is with the maker, or on its way there or back, only once its frame
\* was queued.
UnsentIsNowhere ==
  \A n \in Ids :
    \/ pc[n] \in {"unborn", "insert", "send", "unregister"}
    \/ outcome[n] = "closed"
    => n \notin executed /\ ~OnTheWay(n)

\* From its registration on, a call that still counts on an answer has an entry or
\* a message, never both; it has neither before, and no result before it returns.
CallersAreServed ==
  /\ \A n \in Ids : pc[n] \in {"send", "wait"} => n \in pending \/ oneshot[n] # 0
  /\ \A n \in Ids : n \in pending => oneshot[n] = 0
  /\ \A n \in Ids : pc[n] \in {"unborn", "insert"} => n \notin pending /\ oneshot[n] = 0
  /\ \A n \in Ids : outcome[n] # "none" => pc[n] = "done"

\* The entry of a call that is past its send has its request on the way, unless the
\* connection is down, as it is when the writer has stopped.
EntriesAreAccounted ==
  /\ writer = "stopped" => ~up
  /\ \A n \in Ids : pc[n] = "unregister" => writer = "stopped"
  /\ \A n \in pending \ refused :
       pc[n] \in {"wait", "expired", "done"} => OnTheWay(n) \/ ~up

IInv ==
  TypeOK /\ ResponsesAreOwn /\ UnsentIsNowhere /\ CallersAreServed /\ EntriesAreAccounted

\* OnTheWay in terms of In.
LEMMA OnTheWayIn ==
  ASSUME NEW n
  PROVE  OnTheWay(n) <=> In(n, queue) \/ In(n, wire) \/ In(n, replies) \/ serving = n
BY DEF OnTheWay, In

LEMMA InitIInv == Init => IInv
<1> SUFFICES ASSUME Init PROVE IInv
  OBVIOUS
<1> USE DEF Init
<1>1. TypeOK
  BY WsAssumption DEF TypeOK, Outcomes
<1>2. \A n \in Ids : ~OnTheWay(n)
  BY DEF OnTheWay, Ids
<1>3. ResponsesAreOwn
  BY DEF ResponsesAreOwn, In
<1>4. UnsentIsNowhere /\ CallersAreServed /\ EntriesAreAccounted
  BY <1>2 DEF UnsentIsNowhere, CallersAreServed, EntriesAreAccounted
<1> QED BY <1>1, <1>3, <1>4 DEF IInv

\* A step that moves no frame leaves every request where it was.
LEMMA NothingMoves ==
  ASSUME UNCHANGED <<queue, wire, replies, serving>>
  PROVE  \A n : OnTheWay(n)' = OnTheWay(n) /\ In(n, replies)' = In(n, replies)
BY DEF OnTheWay, In

\* What a caller does but queue its frame keeps the invariant.
LEMMA CallKeeps ==
  ASSUME IInv, NEW k \in Ids,
         \/ Start(k) \/ Insert(k) \/ SendFails(k) \/ Unregister(k)
         \/ Receive(k) \/ TimeOut(k) \/ Expire(k) \/ Abandon(k)
  PROVE  IInv'
<1> USE DEF IInv, Goto, socketVars, makerVars
<1>1. CASE Start(k)
  <2>1. \A n : OnTheWay(n)' = OnTheWay(n) /\ In(n, replies)' = In(n, replies)
    BY <1>1, NothingMoves DEF Start
  <2>2. TypeOK'
    BY <1>1 DEF Start, TypeOK
  <2>3. ResponsesAreOwn'
    BY <1>1, <2>1 DEF Start, ResponsesAreOwn
  <2>4. UnsentIsNowhere'
    BY <1>1, <2>1 DEF Start, UnsentIsNowhere
  <2>5. CallersAreServed'
    BY <1>1 DEF Start, CallersAreServed
  <2>6. EntriesAreAccounted'
    BY <1>1, <2>1 DEF Start, EntriesAreAccounted
  <2> QED BY <2>2, <2>3, <2>4, <2>5, <2>6
<1>2. CASE Insert(k)
  <2>1. \A n : OnTheWay(n)' = OnTheWay(n) /\ In(n, replies)' = In(n, replies)
    BY <1>2, NothingMoves DEF Insert
  <2>2. TypeOK'
    BY <1>2 DEF Insert, TypeOK
  <2>3. ResponsesAreOwn'
    BY <1>2, <2>1 DEF Insert, ResponsesAreOwn
  <2>4. UnsentIsNowhere'
    BY <1>2, <2>1 DEF Insert, UnsentIsNowhere
  <2>5. CallersAreServed'
    BY <1>2 DEF Insert, TypeOK, CallersAreServed
  <2>6. EntriesAreAccounted'
    BY <1>2, <2>1 DEF Insert, EntriesAreAccounted
  <2> QED BY <2>2, <2>3, <2>4, <2>5, <2>6
<1>3. CASE SendFails(k)
  <2>1. \A n : OnTheWay(n)' = OnTheWay(n) /\ In(n, replies)' = In(n, replies)
    BY <1>3, NothingMoves DEF SendFails
  <2>2. TypeOK'
    BY <1>3 DEF SendFails, TypeOK
  <2>3. ResponsesAreOwn'
    BY <1>3, <2>1 DEF SendFails, ResponsesAreOwn
  <2>4. UnsentIsNowhere'
    BY <1>3, <2>1 DEF SendFails, UnsentIsNowhere
  <2>5. CallersAreServed'
    BY <1>3 DEF SendFails, CallersAreServed
  <2>6. EntriesAreAccounted'
    BY <1>3, <2>1 DEF SendFails, EntriesAreAccounted
  <2> QED BY <2>2, <2>3, <2>4, <2>5, <2>6
<1>4. CASE Unregister(k)
  <2>1. \A n : OnTheWay(n)' = OnTheWay(n) /\ In(n, replies)' = In(n, replies)
    BY <1>4, NothingMoves DEF Unregister, Return
  <2>2. TypeOK'
    BY <1>4 DEF Unregister, Return, TypeOK, Outcomes
  <2>3. ResponsesAreOwn'
    BY <1>4, <2>1 DEF Unregister, Return, ResponsesAreOwn
  <2>4. UnsentIsNowhere'
    BY <1>4, <2>1 DEF Unregister, Return, UnsentIsNowhere
  <2>5. CallersAreServed'
    BY <1>4 DEF Unregister, Return, TypeOK, CallersAreServed
  <2>6. EntriesAreAccounted'
    BY <1>4, <2>1 DEF Unregister, Return, EntriesAreAccounted
  <2> QED BY <2>2, <2>3, <2>4, <2>5, <2>6
<1>5. CASE Receive(k)
  <2>1. \A n : OnTheWay(n)' = OnTheWay(n) /\ In(n, replies)' = In(n, replies)
    BY <1>5, NothingMoves DEF Receive, Return
  <2>2. TypeOK'
    BY <1>5 DEF Receive, Return, TypeOK, Outcomes
  <2>3. ResponsesAreOwn'
    BY <1>5, <2>1 DEF Receive, Return, ResponsesAreOwn
  <2>4. UnsentIsNowhere'
    BY <1>5, <2>1 DEF Receive, Return, UnsentIsNowhere
  <2>5. CallersAreServed'
    BY <1>5 DEF Receive, Return, TypeOK, CallersAreServed
  <2>6. EntriesAreAccounted'
    BY <1>5, <2>1 DEF Receive, Return, EntriesAreAccounted
  <2> QED BY <2>2, <2>3, <2>4, <2>5, <2>6
<1>6. CASE TimeOut(k)
  <2>1. \A n : OnTheWay(n)' = OnTheWay(n) /\ In(n, replies)' = In(n, replies)
    BY <1>6, NothingMoves DEF TimeOut
  <2>2. TypeOK'
    BY <1>6 DEF TimeOut, TypeOK
  <2>3. ResponsesAreOwn'
    BY <1>6, <2>1 DEF TimeOut, ResponsesAreOwn
  <2>4. UnsentIsNowhere'
    BY <1>6, <2>1 DEF TimeOut, UnsentIsNowhere
  <2>5. CallersAreServed'
    BY <1>6 DEF TimeOut, CallersAreServed
  <2>6. EntriesAreAccounted'
    BY <1>6, <2>1 DEF TimeOut, EntriesAreAccounted
  <2> QED BY <2>2, <2>3, <2>4, <2>5, <2>6
<1>7. CASE Expire(k)
  <2>1. \A n : OnTheWay(n)' = OnTheWay(n) /\ In(n, replies)' = In(n, replies)
    BY <1>7, NothingMoves DEF Expire, Return
  <2>2. TypeOK'
    BY <1>7 DEF Expire, Return, TypeOK, Outcomes
  <2>3. ResponsesAreOwn'
    BY <1>7, <2>1 DEF Expire, Return, ResponsesAreOwn
  <2>4. UnsentIsNowhere'
    BY <1>7, <2>1 DEF Expire, Return, UnsentIsNowhere
  <2>5. CallersAreServed'
    BY <1>7 DEF Expire, Return, TypeOK, CallersAreServed
  <2>6. EntriesAreAccounted'
    BY <1>7, <2>1 DEF Expire, Return, EntriesAreAccounted
  <2> QED BY <2>2, <2>3, <2>4, <2>5, <2>6
<1>8. CASE Abandon(k)
  <2>1. \A n : OnTheWay(n)' = OnTheWay(n) /\ In(n, replies)' = In(n, replies)
    BY <1>8, NothingMoves DEF Abandon, Return
  <2>2. TypeOK'
    BY <1>8 DEF Abandon, Return, TypeOK, Outcomes
  <2>3. ResponsesAreOwn'
    BY <1>8, <2>1 DEF Abandon, Return, ResponsesAreOwn
  <2>4. UnsentIsNowhere'
    BY <1>8, <2>1 DEF Abandon, Return, UnsentIsNowhere
  <2>5. CallersAreServed'
    BY <1>8 DEF Abandon, Return, TypeOK, CallersAreServed
  <2>6. EntriesAreAccounted'
    BY <1>8, <2>1 DEF Abandon, Return, TypeOK, EntriesAreAccounted, CallersAreServed
  <2> QED BY <2>2, <2>3, <2>4, <2>5, <2>6
<1> QED BY <1>1, <1>2, <1>3, <1>4, <1>5, <1>6, <1>7, <1>8

\* A frame that is queued is on the way; its call now waits, past its registration.
LEMMA SendKeeps ==
  ASSUME IInv, NEW k \in Ids, Send(k)
  PROVE  IInv'
<1> USE DEF IInv, Goto, socketVars, makerVars
<1>1. /\ queue' \in Seq(Ids)
      /\ Len(queue') <= QueueCapacity
      /\ \A n : OnTheWay(n)' <=> OnTheWay(n) \/ n = k
      /\ \A n : In(n, replies)' = In(n, replies)
  <2>1. \A n : In(n, queue)' <=> In(n, queue) \/ n = k
    BY InAppend DEF Send, TypeOK
  <2>2. UNCHANGED <<wire, replies, serving>>
    BY DEF Send
  <2>3. \A n : In(n, wire)' = In(n, wire) /\ In(n, replies)' = In(n, replies)
    BY <2>2 DEF In
  <2>4. \A n : OnTheWay(n)' <=> In(n, queue)' \/ In(n, wire)' \/ In(n, replies)' \/ serving' = n
    BY DEF OnTheWay, In
  <2>5. queue' \in Seq(Ids) /\ Len(queue') <= QueueCapacity
    BY WsAssumption DEF Send, TypeOK
  <2> QED BY <2>1, <2>2, <2>3, <2>4, <2>5, OnTheWayIn
<1>a. TypeOK'
  BY <1>1 DEF Send, TypeOK
<1>b. ResponsesAreOwn'
  BY <1>1 DEF Send, ResponsesAreOwn
<1>c. UnsentIsNowhere'
  BY <1>1 DEF Send, TypeOK, UnsentIsNowhere, CallersAreServed
<1>d. CallersAreServed'
  BY <1>1 DEF Send, CallersAreServed
<1>e. EntriesAreAccounted'
  BY <1>1 DEF Send, EntriesAreAccounted
<1> QED BY <1>a, <1>b, <1>c, <1>d, <1>e

\* The writer moves the head of the queue to the socket: all that was on the way
\* still is.
LEMMA WriteKeeps ==
  ASSUME IInv, Write
  PROVE  IInv'
<1> USE DEF IInv, socketVars, makerVars, callVars
<1>1. /\ queue' \in Seq(Ids) /\ Len(queue') <= QueueCapacity
      /\ wire' \in Seq(Ids) /\ Len(wire') <= WireCapacity
      /\ \A n : OnTheWay(n)' <=> OnTheWay(n)
      /\ \A n : In(n, replies)' = In(n, replies)
  <2>1. Head(queue) \in Ids /\ \A n : In(n, queue) <=> In(n, queue)' \/ n = Head(queue)
    BY InTail DEF Write, TypeOK
  <2>2. \A n : In(n, wire)' <=> In(n, wire) \/ n = Head(queue)
    BY <2>1, InAppend DEF Write, TypeOK
  <2>3. UNCHANGED <<replies, serving>>
    BY DEF Write, socketVars
  <2>4. \A n : In(n, replies)' = In(n, replies)
    BY <2>3 DEF In
  <2>5. \A n : OnTheWay(n)' <=> In(n, queue)' \/ In(n, wire)' \/ In(n, replies)' \/ serving' = n
    BY DEF OnTheWay, In
  <2>6. queue' \in Seq(Ids) /\ Len(queue') = Len(queue) - 1
    BY InTail DEF Write, TypeOK
  <2>7. wire' \in Seq(Ids) /\ Len(wire') <= WireCapacity
    BY <2>1, WsAssumption DEF Write, TypeOK
  <2>8. Len(queue') <= QueueCapacity
    BY <2>6, WsAssumption DEF TypeOK
  <2> QED BY <2>1, <2>2, <2>3, <2>4, <2>5, <2>6, <2>7, <2>8, OnTheWayIn
<1>a. TypeOK'
  BY <1>1 DEF Write, TypeOK
<1>b. ResponsesAreOwn'
  BY <1>1 DEF Write, ResponsesAreOwn
<1>c. UnsentIsNowhere'
  BY <1>1 DEF Write, UnsentIsNowhere
<1>d. CallersAreServed'
  BY <1>1 DEF Write, CallersAreServed
<1>e. EntriesAreAccounted'
  BY <1>1 DEF Write, EntriesAreAccounted
<1> QED BY <1>a, <1>b, <1>c, <1>d, <1>e

\* The writer stops on a connection that is down, and the frames queued are lost.
LEMMA WriteFailsKeeps ==
  ASSUME IInv, WriteFails
  PROVE  IInv'
<1> USE DEF IInv, socketVars, makerVars, callVars
<1>1. /\ queue' \in Seq(Ids) /\ Len(queue') <= QueueCapacity
      /\ \A n : OnTheWay(n)' => OnTheWay(n)
      /\ \A n : In(n, replies)' = In(n, replies)
  <2>1. \A n : ~In(n, queue)'
    BY DEF WriteFails, In
  <2>2. UNCHANGED <<wire, replies, serving>>
    BY DEF WriteFails, makerVars
  <2>3. \A n : In(n, wire)' = In(n, wire) /\ In(n, replies)' = In(n, replies)
    BY <2>2 DEF In
  <2>4. \A n : OnTheWay(n)' <=> In(n, queue)' \/ In(n, wire)' \/ In(n, replies)' \/ serving' = n
    BY DEF OnTheWay, In
  <2>5. queue' \in Seq(Ids) /\ Len(queue') <= QueueCapacity
    BY WsAssumption DEF WriteFails
  <2> QED BY <2>1, <2>2, <2>3, <2>4, <2>5, OnTheWayIn
<1>a. TypeOK'
  BY <1>1 DEF WriteFails, TypeOK
<1>b. ResponsesAreOwn'
  BY <1>1 DEF WriteFails, ResponsesAreOwn
<1>c. UnsentIsNowhere'
  BY <1>1 DEF WriteFails, UnsentIsNowhere
<1>d. CallersAreServed'
  BY <1>1 DEF WriteFails, CallersAreServed
<1>e. EntriesAreAccounted'
  BY <1>1 DEF WriteFails, EntriesAreAccounted
<1> QED BY <1>a, <1>b, <1>c, <1>d, <1>e

\* A response is taken off the socket: what else was on the way still is, and the
\* entry and the oneshot are those of the request answered.
LEMMA DeliverKeeps ==
  ASSUME IInv, Deliver
  PROVE  IInv'
<1> USE DEF IInv, socketVars, makerVars, callVars
<1>1. /\ replies' \in Seq(Ids)
      /\ Head(replies) \in Ids /\ Head(replies) # 0 /\ In(Head(replies), replies)
      /\ \A n : OnTheWay(n)' => OnTheWay(n)
      /\ \A n : OnTheWay(n) => OnTheWay(n)' \/ n = Head(replies)
      /\ \A n : In(n, replies)' => In(n, replies)
      /\ \A n : In(n, replies) => OnTheWay(n)
  <2>1. \A n : In(n, replies) <=> In(n, replies)' \/ n = Head(replies)
    BY InTail DEF Deliver, TypeOK
  <2>2. UNCHANGED <<queue, wire, serving>>
    BY DEF Deliver, makerVars
  <2>3. \A n : In(n, queue)' = In(n, queue) /\ In(n, wire)' = In(n, wire)
    BY <2>2 DEF In
  <2>4. \A n : OnTheWay(n)' <=> In(n, queue)' \/ In(n, wire)' \/ In(n, replies)' \/ serving' = n
    BY DEF OnTheWay, In
  <2>5. replies' \in Seq(Ids) /\ Head(replies) \in Ids
    BY InTail DEF Deliver, TypeOK
  <2>6. Head(replies) # 0
    BY <2>5 DEF Ids
  <2> QED BY <2>1, <2>2, <2>3, <2>4, <2>5, <2>6, OnTheWayIn
<1>a. TypeOK'
  BY <1>1 DEF Deliver, TypeOK
<1>b. ResponsesAreOwn'
  BY <1>1 DEF Deliver, ResponsesAreOwn
<1>c. UnsentIsNowhere'
  BY <1>1 DEF Deliver, UnsentIsNowhere
<1>d. CallersAreServed'
  BY <1>1 DEF Deliver, TypeOK, CallersAreServed
<1>e. EntriesAreAccounted'
  BY <1>1 DEF Deliver, EntriesAreAccounted
<1> QED BY <1>a, <1>b, <1>c, <1>d, <1>e

\* The end of the stream completes every entry and leaves none.
LEMMA DrainKeeps ==
  ASSUME IInv, Drain
  PROVE  IInv'
<1> USE DEF IInv, socketVars, makerVars, callVars
<1>1. \A n : OnTheWay(n)' = OnTheWay(n) /\ In(n, replies)' = In(n, replies)
  BY NothingMoves DEF Drain, makerVars
<1>a. TypeOK'
  BY <1>1 DEF Drain, TypeOK
<1>b. ResponsesAreOwn'
  BY <1>1 DEF Drain, TypeOK, ResponsesAreOwn, CallersAreServed
<1>c. UnsentIsNowhere'
  BY <1>1 DEF Drain, UnsentIsNowhere
<1>d. CallersAreServed'
  BY <1>1 DEF Drain, CallersAreServed, Disconnected
<1>e. EntriesAreAccounted'
  BY <1>1 DEF Drain, EntriesAreAccounted
<1> QED BY <1>a, <1>b, <1>c, <1>d, <1>e

\* Leaving the registry touches no call.
LEMMA DeregisterKeeps ==
  ASSUME IInv, Deregister
  PROVE  IInv'
<1> USE DEF IInv, socketVars, makerVars, callVars
<1>1. \A n : OnTheWay(n)' = OnTheWay(n) /\ In(n, replies)' = In(n, replies)
  BY NothingMoves DEF Deregister
<1>a. TypeOK'
  BY <1>1 DEF Deregister, TypeOK
<1>b. ResponsesAreOwn'
  BY <1>1 DEF Deregister, ResponsesAreOwn
<1>c. UnsentIsNowhere'
  BY <1>1 DEF Deregister, UnsentIsNowhere
<1>d. CallersAreServed'
  BY <1>1 DEF Deregister, CallersAreServed
<1>e. EntriesAreAccounted'
  BY <1>1 DEF Deregister, EntriesAreAccounted
<1> QED BY <1>a, <1>b, <1>c, <1>d, <1>e

\* The maker takes a request off the socket.
LEMMA TakeRequestKeeps ==
  ASSUME IInv, TakeRequest
  PROVE  IInv'
<1> USE DEF IInv, socketVars, makerVars, callVars
<1>1. /\ wire' \in Seq(Ids) /\ Len(wire') <= WireCapacity
      /\ serving' \in Ids
      /\ \A n \in Ids : OnTheWay(n)' <=> OnTheWay(n)
      /\ \A n : In(n, replies)' = In(n, replies)
  <2>1. \A n : In(n, wire) <=> In(n, wire)' \/ n = Head(wire)
    BY InTail DEF TakeRequest, TypeOK
  <2>2. UNCHANGED <<queue, replies>>
    BY DEF TakeRequest, socketVars
  <2>3. \A n : In(n, queue)' = In(n, queue) /\ In(n, replies)' = In(n, replies)
    BY <2>2 DEF In
  <2>4. \A n : OnTheWay(n)' <=> In(n, queue)' \/ In(n, wire)' \/ In(n, replies)' \/ serving' = n
    BY DEF OnTheWay, In
  <2>5. wire' \in Seq(Ids) /\ Head(wire) \in Ids /\ Len(wire') = Len(wire) - 1
    BY InTail DEF TakeRequest, TypeOK
  <2>6. Len(wire') <= WireCapacity
    BY <2>5, WsAssumption DEF TypeOK
  <2>7. \A n \in Ids : n # serving
    BY DEF TakeRequest, Ids
  <2>8. serving' = Head(wire)
    BY DEF TakeRequest
  <2> QED BY <2>1, <2>2, <2>3, <2>4, <2>5, <2>6, <2>7, <2>8, OnTheWayIn
<1>a. TypeOK'
  BY <1>1 DEF TakeRequest, TypeOK
<1>b. ResponsesAreOwn'
  BY <1>1 DEF TakeRequest, ResponsesAreOwn
<1>c. UnsentIsNowhere'
  BY <1>1 DEF TakeRequest, UnsentIsNowhere
<1>d. CallersAreServed'
  BY <1>1 DEF TakeRequest, CallersAreServed
<1>e. EntriesAreAccounted'
  BY <1>1 DEF TakeRequest, TypeOK, EntriesAreAccounted
<1> QED BY <1>a, <1>b, <1>c, <1>d, <1>e

\* The maker carries out the request it serves, whose frame was queued.
LEMMA DispatchKeeps ==
  ASSUME IInv, Dispatch
  PROVE  IInv'
<1> USE DEF IInv, socketVars, makerVars, callVars
<1>1. /\ \A n : OnTheWay(n)' = OnTheWay(n) /\ In(n, replies)' = In(n, replies)
      /\ OnTheWay(serving)
      /\ serving \in Ids
  BY NothingMoves DEF Dispatch, socketVars, OnTheWay, TypeOK
<1>a. TypeOK'
  BY <1>1 DEF Dispatch, TypeOK
<1>b. ResponsesAreOwn'
  BY <1>1 DEF Dispatch, ResponsesAreOwn
<1>c. UnsentIsNowhere'
  BY <1>1 DEF Dispatch, UnsentIsNowhere
<1>d. CallersAreServed'
  BY <1>1 DEF Dispatch, CallersAreServed
<1>e. EntriesAreAccounted'
  BY <1>1 DEF Dispatch, EntriesAreAccounted
<1> QED BY <1>a, <1>b, <1>c, <1>d, <1>e

\* The maker answers the request it carried out.
LEMMA RespondKeeps ==
  ASSUME IInv, Respond
  PROVE  IInv'
<1> USE DEF IInv, socketVars, makerVars, callVars
<1>1. /\ replies' \in Seq(Ids)
      /\ \A n \in Ids : OnTheWay(n)' <=> OnTheWay(n)
      /\ \A n : In(n, replies)' <=> In(n, replies) \/ n = serving
  <2>1. serving \in Ids /\ serving' = 0
    BY DEF Respond, TypeOK
  <2>2. \A n : In(n, replies)' <=> In(n, replies) \/ n = serving
    BY <2>1, InAppend DEF Respond, TypeOK
  <2>3. UNCHANGED <<queue, wire>>
    BY DEF Respond
  <2>4. \A n : In(n, queue)' = In(n, queue) /\ In(n, wire)' = In(n, wire)
    BY <2>3 DEF In
  <2>5. \A n : OnTheWay(n)' <=> In(n, queue)' \/ In(n, wire)' \/ In(n, replies)' \/ serving' = n
    BY DEF OnTheWay, In
  <2>6. \A n \in Ids : n # 0
    BY DEF Ids
  <2>7. replies' \in Seq(Ids)
    BY <2>1 DEF Respond, TypeOK
  <2> QED BY <2>1, <2>2, <2>4, <2>5, <2>6, <2>7, OnTheWayIn
<1>a. TypeOK'
  BY <1>1 DEF Respond, TypeOK
<1>b. ResponsesAreOwn'
  BY <1>1 DEF Respond, ResponsesAreOwn
<1>c. UnsentIsNowhere'
  BY <1>1 DEF Respond, UnsentIsNowhere
<1>d. CallersAreServed'
  BY <1>1 DEF Respond, CallersAreServed
<1>e. EntriesAreAccounted'
  BY <1>1 DEF Respond, TypeOK, EntriesAreAccounted
<1> QED BY <1>a, <1>b, <1>c, <1>d, <1>e

\* The maker gives the connection up, with what it had not read of it.
LEMMA HangUpKeeps ==
  ASSUME IInv, HangUp
  PROVE  IInv'
<1> USE DEF IInv, socketVars, makerVars, callVars
<1>1. /\ wire' \in Seq(Ids) /\ Len(wire') <= WireCapacity
      /\ \A n \in Ids : OnTheWay(n)' => OnTheWay(n)
      /\ \A n : In(n, replies)' = In(n, replies)
  <2>1. \A n : ~In(n, wire)'
    BY DEF HangUp, In
  <2>2. UNCHANGED <<queue, replies>>
    BY DEF HangUp, socketVars
  <2>3. \A n : In(n, queue)' = In(n, queue) /\ In(n, replies)' = In(n, replies)
    BY <2>2 DEF In
  <2>4. \A n : OnTheWay(n)' <=> In(n, queue)' \/ In(n, wire)' \/ In(n, replies)' \/ serving' = n
    BY DEF OnTheWay, In
  <2>5. \A n \in Ids : n # serving'
    BY DEF HangUp, Ids
  <2>6. wire' \in Seq(Ids) /\ Len(wire') <= WireCapacity
    BY WsAssumption DEF HangUp
  <2> QED BY <2>1, <2>3, <2>4, <2>5, <2>6, OnTheWayIn
<1>a. TypeOK'
  BY <1>1 DEF HangUp, TypeOK
<1>b. ResponsesAreOwn'
  BY <1>1 DEF HangUp, ResponsesAreOwn
<1>c. UnsentIsNowhere'
  BY <1>1 DEF HangUp, UnsentIsNowhere
<1>d. CallersAreServed'
  BY <1>1 DEF HangUp, CallersAreServed
<1>e. EntriesAreAccounted'
  BY <1>1 DEF HangUp, EntriesAreAccounted
<1> QED BY <1>a, <1>b, <1>c, <1>d, <1>e

\* The connection breaks with any part of what was on it.
LEMMA DisconnectKeeps ==
  ASSUME IInv, Disconnect
  PROVE  IInv'
<1> USE DEF IInv, socketVars, makerVars, callVars
<1>1. /\ wire' \in Seq(Ids) /\ Len(wire') <= WireCapacity
      /\ replies' \in Seq(Ids)
      /\ \A n : OnTheWay(n)' => OnTheWay(n)
      /\ \A n : In(n, replies)' => In(n, replies)
  <2>1. /\ wire' \in Seq(Ids) /\ Len(wire') <= Len(wire)
        /\ \A n : In(n, wire)' => In(n, wire)
    <3>1. PICK k \in 0..Len(wire) : wire' = SubSeq(wire, 1, k)
      BY DEF Disconnect
    <3> QED BY <3>1, InPrefix DEF TypeOK
  <2>2. /\ replies' \in Seq(Ids)
        /\ \A n : In(n, replies)' => In(n, replies)
    <3>1. PICK k \in 0..Len(replies) : replies' = SubSeq(replies, 1, k)
      BY DEF Disconnect
    <3> QED BY <3>1, InPrefix DEF TypeOK
  <2>3. UNCHANGED <<queue, serving>>
    BY DEF Disconnect
  <2>4. \A n : In(n, queue)' = In(n, queue)
    BY <2>3 DEF In
  <2>5. \A n : OnTheWay(n)' <=> In(n, queue)' \/ In(n, wire)' \/ In(n, replies)' \/ serving' = n
    BY DEF OnTheWay, In
  <2>6. Len(wire') <= WireCapacity
    BY <2>1, WsAssumption DEF TypeOK
  <2> QED BY <2>1, <2>2, <2>3, <2>4, <2>5, <2>6, OnTheWayIn
<1>a. TypeOK'
  BY <1>1 DEF Disconnect, TypeOK
<1>b. ResponsesAreOwn'
  BY <1>1 DEF Disconnect, ResponsesAreOwn
<1>c. UnsentIsNowhere'
  BY <1>1 DEF Disconnect, UnsentIsNowhere
<1>d. CallersAreServed'
  BY <1>1 DEF Disconnect, CallersAreServed
<1>e. EntriesAreAccounted'
  BY <1>1 DEF Disconnect, EntriesAreAccounted
<1> QED BY <1>a, <1>b, <1>c, <1>d, <1>e

\* Every step keeps the invariant.
LEMMA NextKeeps == IInv /\ [Next]_vars => IInv'
<1> SUFFICES ASSUME IInv, [Next]_vars PROVE IInv'
  OBVIOUS
<1>1. CASE \E n \in Ids : Start(n) \/ Proceed(n) \/ Abandon(n)
  <2>1. PICK k \in Ids : Start(k) \/ Proceed(k) \/ Abandon(k)
    BY <1>1
  <2>2. CASE Send(k)
    BY <2>2, SendKeeps
  <2>3. CASE ~Send(k)
    BY <2>1, <2>3, CallKeeps DEF Proceed
  <2> QED BY <2>2, <2>3
<1>2. CASE Reader
  BY <1>2, DeliverKeeps, DrainKeeps DEF Reader
<1>3. CASE Writer
  BY <1>3, WriteKeeps, WriteFailsKeeps DEF Writer
<1>4. CASE MakerEnd
  BY <1>4, TakeRequestKeeps, DispatchKeeps, RespondKeeps, HangUpKeeps DEF MakerEnd
<1>5. CASE Deregister
  BY <1>5, DeregisterKeeps
<1>6. CASE Disconnect
  BY <1>6, DisconnectKeeps
<1>7. CASE UNCHANGED vars
  <2>1. \A n : OnTheWay(n)' = OnTheWay(n) /\ In(n, replies)' = In(n, replies)
    BY <1>7, NothingMoves DEF vars
  <2>2. TypeOK' /\ ResponsesAreOwn'
    BY <1>7, <2>1 DEF vars, IInv, TypeOK, ResponsesAreOwn
  <2>3. UnsentIsNowhere' /\ CallersAreServed'
    BY <1>7, <2>1 DEF vars, IInv, UnsentIsNowhere, CallersAreServed
  <2>4. EntriesAreAccounted'
    BY <1>7, <2>1 DEF vars, IInv, EntriesAreAccounted
  <2> QED BY <2>2, <2>3, <2>4 DEF IInv
<1> QED BY <1>1, <1>2, <1>3, <1>4, <1>5, <1>6, <1>7 DEF Next

\* The invariant holds in every state of the connector.
THEOREM Invariance == Spec => []IInv
BY InitIInv, NextKeeps, PTL DEF Spec

-----------------------------------------------------------------------------
(***************************************************************************)
(* The results                                                             *)
(***************************************************************************)

\* The connector's state stays well-formed; the queue and the socket keep their
\* bounds.
THEOREM TypeCorrect == Spec => []TypeOK
BY Invariance, PTL DEF IInv

\* A call is only ever answered with the response to its own request, whatever
\* timed out, was dropped or arrived late around it.
THEOREM OwnAnswers == Spec => []AnswerIsOwn
<1>1. IInv => AnswerIsOwn
  BY DEF IInv, ResponsesAreOwn, AnswerIsOwn, Disconnected, Ids
<1> QED BY <1>1, Invariance, PTL

\* The maker never carries out a request whose call failed for a closed connection.
THEOREM ClosedMeansNo == Spec => []ClosedNeverExecuted
<1>1. IInv => ClosedNeverExecuted
  BY DEF IInv, UnsentIsNowhere, ClosedNeverExecuted
<1> QED BY <1>1, Invariance, PTL

\* A waiting call has an entry the reader will complete, or its message already.
THEOREM WaitersServed == Spec => []WaiterIsServed
<1>1. IInv => WaiterIsServed
  BY DEF IInv, CallersAreServed, WaiterIsServed
<1> QED BY <1>1, Invariance, PTL

\* No entry of a call that has gone is left to nobody, but of one dropped while it
\* queued its frame.
THEOREM OrphansAccounted == Spec => []OrphansAreAccounted
<1>1. IInv => OrphansAreAccounted
  BY DEF IInv, EntriesAreAccounted, OrphansAreAccounted
<1> QED BY <1>1, Invariance, PTL
=============================================================================
