------------------------------ MODULE WsConnector ------------------------------
(***************************************************************************)
(* WsMakerConnector (crates/rfq-router/src/ws_connector.rs): the broker    *)
(* pushes requests to a maker over the socket the maker dialed, and        *)
(* correlates the responses by request id.  A caller registers a oneshot   *)
(* in the pending map, queues its frame for the one writer task and waits; *)
(* the one reader task completes the oneshots.  On the far side the maker  *)
(* serves one request at a time (maker-node/src/broker_client.rs).         *)
(*                                                                         *)
(* next_req_id is fetched and added, so a request id is used by one call   *)
(* only and stands for it here.  Each action is the code between awaits;   *)
(* the pending map's lock makes its own operations atomic.                 *)
(***************************************************************************)
EXTENDS Integers, Sequences

CONSTANTS
  MaxCalls,        \* bound: calls ever made over the connection
  QueueCapacity,   \* frames the channel to the writer holds (64)
  WireCapacity     \* frames the socket takes before it blocks the writer

ASSUME WsAssumption ==
  /\ MaxCalls \in Nat
  /\ {QueueCapacity, WireCapacity} \subseteq Nat \ {0}

Ids == 1..MaxCalls

VARIABLES
  pc,        \* where each call stands
  outcome,   \* what it returned
  oneshot,   \* what its channel holds: nothing, a response, the disconnect
  pending,   \* ids registered for the reader
  queue,     \* frames waiting for the writer
  writer,    \* "running" or "stopped"
  reader,    \* "reading" or "ended"
  up,        \* the socket
  wire,      \* frames on their way to the maker
  replies,   \* responses on their way back, each the id it answers
  serving,   \* the request the maker is at, or 0
  executed,  \* requests whose handler ran to completion on the maker
  refused,   \* history: calls dropped while the queue had no room for them
  registered \* the connector is in the broker's registry

vars == <<pc, outcome, oneshot, pending, queue, writer, reader, up, wire,
          replies, serving, executed, refused, registered>>

callVars == <<pc, outcome>>
makerVars == <<wire, serving, executed>>
socketVars == <<writer, reader, up, replies>>

\* "maker disconnected", as opposed to the response to some request.
Disconnected == -1

Outcomes == {"none", "ok", "disconnected", "closed", "timedOut", "abandoned"}

TypeOK ==
  /\ pc \in [Ids -> {"unborn", "insert", "send", "unregister", "wait",
                     "expired", "done"}]
  /\ outcome \in [Ids -> Outcomes]
  /\ oneshot \in [Ids -> Ids \cup {0, Disconnected}]
  /\ pending \subseteq Ids
  /\ queue \in Seq(Ids) /\ Len(queue) <= QueueCapacity
  /\ writer \in {"running", "stopped"}
  /\ reader \in {"reading", "ended"}
  /\ up \in BOOLEAN
  /\ wire \in Seq(Ids) /\ Len(wire) <= WireCapacity
  /\ replies \in Seq(Ids)
  /\ serving \in Ids \cup {0}
  /\ executed \subseteq Ids
  /\ refused \subseteq Ids
  /\ registered \in BOOLEAN

\* The socket just split, the tasks spawned, the connector registered.
Init ==
  /\ pc = [n \in Ids |-> "unborn"]
  /\ outcome = [n \in Ids |-> "none"]
  /\ oneshot = [n \in Ids |-> 0]
  /\ pending = {}
  /\ queue = <<>>
  /\ writer = "running"
  /\ reader = "reading"
  /\ up = TRUE
  /\ wire = <<>>
  /\ replies = <<>>
  /\ serving = 0
  /\ executed = {}
  /\ refused = {}
  /\ registered = TRUE

-----------------------------------------------------------------------------
(***************************************************************************)
(* call                                                                    *)
(***************************************************************************)

Goto(n, next) == pc' = [pc EXCEPT ![n] = next]

Return(n, result) ==
  /\ Goto(n, "done")
  /\ outcome' = [outcome EXCEPT ![n] = result]

\* A handler takes the connector out of the registry and calls it; the connector
\* may be deregistered before the call goes on.
Start(n) ==
  /\ registered
  /\ pc[n] = "unborn"
  /\ \A k \in 1..(n - 1) : pc[k] # "unborn"
  /\ Goto(n, "insert")
  /\ UNCHANGED <<outcome, oneshot, pending, queue, socketVars, makerVars, refused,
                 registered>>

Insert(n) ==
  /\ pc[n] = "insert"
  /\ pending' = pending \cup {n}
  /\ Goto(n, "send")
  /\ UNCHANGED <<outcome, oneshot, queue, socketVars, makerVars, refused, registered>>

\* to_socket.send waits, without a limit, for room in the queue.
Send(n) ==
  /\ pc[n] = "send"
  /\ writer = "running"
  /\ Len(queue) < QueueCapacity
  /\ queue' = Append(queue, n)
  /\ Goto(n, "wait")
  /\ UNCHANGED <<outcome, oneshot, pending, socketVars, makerVars, refused, registered>>

\* Slip: a call that already waits gives up as well when the writer is gone.
SendOrWaitFails(n) ==
  /\ pc[n] \in {"send", "wait"}
  /\ writer = "stopped"
  /\ Goto(n, "unregister")
  /\ UNCHANGED <<outcome, oneshot, pending, queue, socketVars, makerVars, refused,
                 registered>>

\* The writer is gone, and the receiving end of the queue with it.
SendFails(n) ==
  /\ pc[n] = "send"
  /\ writer = "stopped"
  /\ Goto(n, "unregister")
  /\ UNCHANGED <<outcome, oneshot, pending, queue, socketVars, makerVars, refused,
                 registered>>

Unregister(n) ==
  /\ pc[n] = "unregister"
  /\ pending' = pending \ {n}
  /\ Return(n, "closed")
  /\ UNCHANGED <<oneshot, queue, socketVars, makerVars, refused, registered>>

Receive(n) ==
  /\ pc[n] = "wait"
  /\ oneshot[n] # 0
  /\ Return(n, IF oneshot[n] = Disconnected THEN "disconnected" ELSE "ok")
  /\ UNCHANGED <<oneshot, pending, queue, socketVars, makerVars, refused, registered>>

\* REQUEST_TIMEOUT runs out before anything arrives ...
TimeOut(n) ==
  /\ pc[n] = "wait"
  /\ oneshot[n] = 0
  /\ Goto(n, "expired")
  /\ UNCHANGED <<outcome, oneshot, pending, queue, socketVars, makerVars, refused,
                 registered>>

\* Slip: leaves the entry to the reader.
ExpireKeepsEntry(n) ==
  /\ pc[n] = "expired"
  /\ Return(n, "timedOut")
  /\ UNCHANGED <<oneshot, pending, queue, socketVars, makerVars, refused, registered>>

\* ... and the entry is removed, unless the reader got there first.
Expire(n) ==
  /\ pc[n] = "expired"
  /\ pending' = pending \ {n}
  /\ Return(n, "timedOut")
  /\ UNCHANGED <<oneshot, queue, socketVars, makerVars, refused, registered>>

\* The caller's future is dropped at an await: fanout_quote gives up after
\* MAKER_TIMEOUT, or the taker's HTTP request is closed.  Nothing is undone.
Abandon(n) ==
  /\ pc[n] \notin {"unborn", "done"}
  /\ Return(n, "abandoned")
  /\ refused' = IF pc[n] = "send" THEN refused \cup {n} ELSE refused
  /\ UNCHANGED <<oneshot, pending, queue, socketVars, makerVars, registered>>

-----------------------------------------------------------------------------
(***************************************************************************)
(* The writer and the reader                                               *)
(***************************************************************************)

\* Frames go out one at a time; a full socket blocks the writer.
Write ==
  /\ writer = "running"
  /\ queue # <<>>
  /\ up
  /\ Len(wire) < WireCapacity
  /\ wire' = Append(wire, Head(queue))
  /\ queue' = Tail(queue)
  /\ UNCHANGED <<callVars, oneshot, pending, socketVars, serving, executed, refused,
                 registered>>

\* A send fails: the writer stops and drops the queue.
WriteFails ==
  /\ writer = "running"
  /\ queue # <<>>
  /\ ~up
  /\ writer' = "stopped"
  /\ queue' = <<>>
  /\ UNCHANGED <<callVars, oneshot, pending, reader, up, replies, makerVars, refused,
                 registered>>

\* Slip: completes the oldest entry, as if responses always came in order.
DeliverOldest ==
  /\ reader = "reading"
  /\ replies # <<>>
  /\ pending # {}
  /\ LET first == CHOOSE n \in pending : \A k \in pending : n <= k IN
       /\ pending' = pending \ {first}
       /\ oneshot' = [oneshot EXCEPT ![first] = Head(replies)]
  /\ replies' = Tail(replies)
  /\ UNCHANGED <<callVars, queue, writer, reader, up, makerVars, refused, registered>>

\* Slip: an entry is only removed to wake a caller.
DeliverToWaiters ==
  /\ reader = "reading"
  /\ replies # <<>>
  /\ LET n == Head(replies)
         woken == n \in pending /\ pc[n] = "wait"
     IN /\ pending' = IF woken THEN pending \ {n} ELSE pending
        /\ oneshot' = IF woken THEN [oneshot EXCEPT ![n] = n] ELSE oneshot
  /\ replies' = Tail(replies)
  /\ UNCHANGED <<callVars, queue, writer, reader, up, makerVars, refused, registered>>

\* A response completes the oneshot registered under its id; one that comes too
\* late finds none and is dropped.
Deliver ==
  /\ reader = "reading"
  /\ replies # <<>>
  /\ LET n == Head(replies) IN
       /\ pending' = pending \ {n}
       /\ oneshot' = IF n \in pending THEN [oneshot EXCEPT ![n] = n] ELSE oneshot
  /\ replies' = Tail(replies)
  /\ UNCHANGED <<callVars, queue, writer, reader, up, makerVars, refused, registered>>

\* Slip: the map is cleared, and what its senders were for forgotten.
DrainSilently ==
  /\ reader = "reading"
  /\ ~up
  /\ replies = <<>>
  /\ reader' = "ended"
  /\ pending' = {}
  /\ UNCHANGED <<callVars, oneshot, queue, writer, up, replies, makerVars, refused,
                 registered>>

\* The stream ends: every outstanding request fails and closed is signalled.
Drain ==
  /\ reader = "reading"
  /\ ~up
  /\ replies = <<>>
  /\ reader' = "ended"
  /\ oneshot' = [n \in Ids |-> IF n \in pending THEN Disconnected ELSE oneshot[n]]
  /\ pending' = {}
  /\ UNCHANGED <<callVars, queue, writer, up, replies, makerVars, refused, registered>>

\* handle_socket was waiting for closed.
Deregister ==
  /\ reader = "ended"
  /\ registered
  /\ registered' = FALSE
  /\ UNCHANGED <<callVars, oneshot, pending, queue, socketVars, makerVars, refused>>

-----------------------------------------------------------------------------
(***************************************************************************)
(* The maker's end, and the socket                                         *)
(***************************************************************************)

TakeRequest ==
  /\ serving = 0
  /\ wire # <<>>
  /\ serving' = Head(wire)
  /\ wire' = Tail(wire)
  /\ UNCHANGED <<callVars, oneshot, pending, queue, socketVars, executed, refused,
                 registered>>

Dispatch ==
  /\ serving \notin executed \cup {0}
  /\ executed' = executed \cup {serving}
  /\ UNCHANGED <<callVars, oneshot, pending, queue, socketVars, wire, serving, refused,
                 registered>>

Respond ==
  /\ serving \in executed
  /\ up
  /\ replies' = Append(replies, serving)
  /\ serving' = 0
  /\ UNCHANGED <<callVars, oneshot, pending, queue, writer, reader, up, wire, executed,
                 refused, registered>>

\* Writing the response fails: connect_and_serve returns, to dial again.
HangUp ==
  /\ serving \in executed
  /\ ~up
  /\ serving' = 0
  /\ wire' = <<>>
  /\ UNCHANGED <<callVars, oneshot, pending, queue, socketVars, executed, refused,
                 registered>>

\* The connection is lost, with any part of what was on its way.
Disconnect ==
  /\ up
  /\ up' = FALSE
  /\ \E k \in 0..Len(wire) : wire' = SubSeq(wire, 1, k)
  /\ \E k \in 0..Len(replies) : replies' = SubSeq(replies, 1, k)
  /\ UNCHANGED <<callVars, oneshot, pending, queue, writer, reader, serving, executed,
                 refused, registered>>

-----------------------------------------------------------------------------
(***************************************************************************)
(* Specification                                                           *)
(***************************************************************************)

\* What a caller's task does by itself.
Proceed(n) ==
  \/ Insert(n) \/ Send(n) \/ SendFails(n) \/ Unregister(n) \/ Receive(n)
  \/ TimeOut(n) \/ Expire(n)

Reader == Deliver \/ Drain

Writer == Write \/ WriteFails

MakerEnd == TakeRequest \/ Dispatch \/ Respond \/ HangUp

Next ==
  \/ \E n \in Ids : Start(n) \/ Proceed(n) \/ Abandon(n)
  \/ Reader
  \/ Writer
  \/ MakerEnd
  \/ Deregister
  \/ Disconnect

Spec == Init /\ [][Next]_vars

\* The broker's tasks are polled and its timers fire.  The maker owes nothing: it
\* may stop reading its socket without closing it.
Fairness ==
  /\ \A n \in Ids : WF_vars(Proceed(n))
  /\ WF_vars(Reader)
  /\ WF_vars(Writer)

FairSpec == Spec /\ Fairness

-----------------------------------------------------------------------------
(***************************************************************************)
(* Properties                                                              *)
(***************************************************************************)

OnTheWay(n) ==
  \/ \E i \in DOMAIN queue : queue[i] = n
  \/ \E i \in DOMAIN wire : wire[i] = n
  \/ \E i \in DOMAIN replies : replies[i] = n
  \/ serving = n

\* An answered call holds the response to its own request, which the maker has
\* carried out, whichever calls timed out, were dropped or answered around it.
AnswerIsOwn ==
  \A n \in Ids :
    outcome[n] = "ok" => oneshot[n] = n /\ n \in executed

\* "maker connection closed" is a definite no: of the ways a call can fail, this
\* one tells that the maker never acts on the request.
ClosedNeverExecuted ==
  \A n \in Ids :
    outcome[n] = "closed" => n \notin executed /\ ~OnTheWay(n)

\* A waiting caller is never forgotten: it is registered with the reader, or what
\* it waits for is in its channel already, however the timeout, the response and
\* the drain on disconnect interleave.
WaiterIsServed ==
  \A n \in Ids : pc[n] = "wait" => n \in pending \/ oneshot[n] # 0

\* An entry whose caller has gone is still someone's to remove: its request is on
\* the way or being served, or the connection is down and the map with it.  The
\* exception is a caller dropped while it was still queueing its frame.
OrphansAreAccounted ==
  \A n \in pending \ refused :
    pc[n] = "done" => OnTheWay(n) \/ ~up

\* A call that got its frame out returns, whatever the maker does, and leaves no
\* entry behind unless its caller dropped it.
SentCallReturns ==
  \A n \in Ids :
    pc[n] = "wait" ~> /\ pc[n] = "done"
                      /\ n \notin pending \/ outcome[n] = "abandoned"
=============================================================================
