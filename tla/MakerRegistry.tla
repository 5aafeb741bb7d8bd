----------------------------- MODULE MakerRegistry -----------------------------
(***************************************************************************)
(* The broker's registry of connected makers (services/broker/src/registry *)
(* .rs), the /maker-stream task that fills it, one per connection (ws.rs), *)
(* and the price cache that GET /prices refills by pulling every maker.    *)
(*                                                                         *)
(* A maker dials again as soon as its connection is lost on its side, so   *)
(* the broker can have several connections of one maker, whose tasks run   *)
(* in any order.  Prices are abstracted to the connection they came from.  *)
(***************************************************************************)
EXTENDS Integers, FiniteSets

CONSTANTS
  Makers,
  NoMaker,
  MaxConns,    \* bound: connections ever dialed, numbered as dialed
  MaxDials,    \* bound: connections each maker dials
  MaxCancels   \* bound: GET /prices requests dropped during a refresh

ASSUME RegistryAssumption ==
  /\ NoMaker \notin Makers
  /\ {MaxConns, MaxCancels} \subseteq Nat
  /\ MaxDials \in [Makers -> Nat]

Conns == 1..MaxConns

VARIABLES
  owner,     \* the maker that dialed each connection
  link,      \* each socket: "unused", "open", "closed"
  task,      \* its handle_socket task
  registry,  \* per maker, the connection registered or 0
  prices,    \* per maker, where the prices in its entry came from
  cache,     \* the price cache: fresh, and per maker the source of its prices
  refresh,   \* the refresh under refresh_lock, if any
  cancels    \* GET /prices requests dropped so far

vars == <<owner, link, task, registry, prices, cache, refresh, cancels>>

connVars == <<owner, link>>
mapVars == <<registry, prices>>

Sources == [Makers -> Conns \cup {0}]

None == [m \in Makers |-> 0]

TypeOK ==
  /\ owner \in [Conns -> Makers \cup {NoMaker}]
  /\ link \in [Conns -> {"unused", "open", "closed"}]
  /\ task \in [Conns -> {"register", "insert", "announce", "serve", "remove",
                         "retract", "done"}]
  /\ registry \in Sources
  /\ prices \in Sources
  /\ \A m \in Makers : registry[m] = 0 <=> prices[m] = 0
  /\ cache \in [fresh : BOOLEAN, sources : Sources]
  /\ refresh \in [pc : {"idle", "pull", "aggregate", "store"}, sources : Sources]
  /\ cancels \in 0..MaxCancels

Init ==
  /\ owner = [c \in Conns |-> NoMaker]
  /\ link = [c \in Conns |-> "unused"]
  /\ task = [c \in Conns |-> "register"]
  /\ registry = None
  /\ prices = None
  /\ cache = [fresh |-> FALSE, sources |-> None]
  /\ refresh = [pc |-> "idle", sources |-> None]
  /\ cancels = 0

-----------------------------------------------------------------------------
(***************************************************************************)
(* Connections: run_broker_stream and handle_socket                        *)
(***************************************************************************)

Moves(c, from, to) ==
  /\ task[c] = from
  /\ task' = [task EXCEPT ![c] = to]

\* The maker dials and sends its Register frame: its last connection, if any, is
\* gone, though the broker need not know.
Dial(m, c) ==
  /\ link[c] = "unused"
  /\ \A d \in 1..(c - 1) : link[d] # "unused"
  /\ \A d \in Conns : owner[d] = m => link[d] = "closed"
  /\ Cardinality({d \in Conns : owner[d] = m}) < MaxDials[m]
  /\ link' = [link EXCEPT ![c] = "open"]
  /\ owner' = [owner EXCEPT ![c] = m]
  /\ UNCHANGED <<task, mapVars, cache, refresh, cancels>>

Lose(c) ==
  /\ link[c] = "open"
  /\ link' = [link EXCEPT ![c] = "closed"]
  /\ UNCHANGED <<owner, task, mapVars, cache, refresh, cancels>>

\* The Register frame is read, perhaps after the socket it came by has closed.
ReadRegister(c) ==
  /\ link[c] # "unused"
  /\ Moves(c, "register", "insert")
  /\ UNCHANGED <<connVars, mapVars, cache, refresh, cancels>>

\* No frame in time, or the connection lost before it.
ReadFails(c) ==
  /\ link[c] = "closed"
  /\ Moves(c, "register", "done")
  /\ UNCHANGED <<connVars, mapVars, cache, refresh, cancels>>

\* The entry replaces whatever the maker had, with the prices just advertised.
InsertMaker(c) ==
  /\ Moves(c, "insert", "announce")
  /\ registry' = [registry EXCEPT ![owner[c]] = c]
  /\ prices' = [prices EXCEPT ![owner[c]] = c]
  /\ UNCHANGED <<connVars, cache, refresh, cancels>>

\* invalidate_prices, after an insert and after a removal.
InvalidatePrices(c) ==
  /\ Moves(c, "announce", "serve") \/ Moves(c, "retract", "done")
  /\ cache' = [cache EXCEPT !.fresh = FALSE]
  /\ UNCHANGED <<connVars, mapVars, refresh, cancels>>

\* The reader saw the stream end.
Closed(c) ==
  /\ link[c] = "closed"
  /\ Moves(c, "serve", "remove")
  /\ UNCHANGED <<connVars, mapVars, cache, refresh, cancels>>

\* Slip: removes the maker only when its connector is another one.
RemoveIfOther(c) ==
  /\ task[c] = "remove"
  /\ IF registry[owner[c]] # c
     THEN /\ registry' = [registry EXCEPT ![owner[c]] = 0]
          /\ prices' = [prices EXCEPT ![owner[c]] = 0]
          /\ Moves(c, "remove", "retract")
     ELSE Moves(c, "remove", "done") /\ UNCHANGED mapVars
  /\ UNCHANGED <<connVars, cache, refresh, cancels>>

\* Removes the maker only if its connector is still this one.
RemoveIf(c) ==
  /\ task[c] = "remove"
  /\ IF registry[owner[c]] = c
     THEN /\ registry' = [registry EXCEPT ![owner[c]] = 0]
          /\ prices' = [prices EXCEPT ![owner[c]] = 0]
          /\ Moves(c, "remove", "retract")
     ELSE Moves(c, "remove", "done") /\ UNCHANGED mapVars
  /\ UNCHANGED <<connVars, cache, refresh, cancels>>

-----------------------------------------------------------------------------
(***************************************************************************)
(* GET /prices                                                             *)
(***************************************************************************)

\* A request misses the cache, gets the refresh lock and still misses it: the
\* connectors are listed and pulled.
StartRefresh ==
  /\ refresh.pc = "idle"
  /\ ~cache.fresh
  /\ refresh' = [pc |-> "pull", sources |-> registry]
  /\ UNCHANGED <<connVars, task, mapVars, cache, cancels>>

\* Slip: waits for every maker to answer before it goes on.
FoldAllAnswers ==
  /\ refresh.pc = "pull"
  /\ \A m \in Makers : refresh.sources[m] # 0 => link[refresh.sources[m]] = "open"
  /\ prices' = [m \in Makers |-> IF registry[m] # 0 /\ refresh.sources[m] # 0
                                 THEN refresh.sources[m] ELSE prices[m]]
  /\ refresh' = [refresh EXCEPT !.pc = "aggregate"]
  /\ UNCHANGED <<connVars, task, registry, cache, cancels>>

\* Each pull answers or times out; the answers go to whatever entries the makers
\* have by now.
FoldPulled ==
  /\ refresh.pc = "pull"
  /\ \E answered \in SUBSET {m \in Makers : refresh.sources[m] # 0} :
       prices' = [m \in Makers |-> IF registry[m] # 0 /\ m \in answered
                                   THEN refresh.sources[m] ELSE prices[m]]
  /\ refresh' = [refresh EXCEPT !.pc = "aggregate"]
  /\ UNCHANGED <<connVars, task, registry, cache, cancels>>

AggregatePrices ==
  /\ refresh.pc = "aggregate"
  /\ refresh' = [pc |-> "store", sources |-> prices]
  /\ UNCHANGED <<connVars, task, mapVars, cache, cancels>>

StorePrices ==
  /\ refresh.pc = "store"
  /\ cache' = [fresh |-> TRUE, sources |-> refresh.sources]
  /\ refresh' = [pc |-> "idle", sources |-> None]
  /\ UNCHANGED <<connVars, task, mapVars, cancels>>

\* PRICE_TTL runs out.
ExpireCache ==
  /\ cache.fresh
  /\ cache' = [cache EXCEPT !.fresh = FALSE]
  /\ UNCHANGED <<connVars, task, mapVars, refresh, cancels>>

\* The client hangs up: its handler is dropped, and the lock with it.
CancelRefresh ==
  /\ refresh.pc # "idle"
  /\ cancels < MaxCancels
  /\ cancels' = cancels + 1
  /\ refresh' = [pc |-> "idle", sources |-> None]
  /\ UNCHANGED <<connVars, task, mapVars, cache>>

-----------------------------------------------------------------------------
(***************************************************************************)
(* Specification                                                           *)
(***************************************************************************)

HandleSocket(c) ==
  \/ ReadRegister(c) \/ ReadFails(c) \/ InsertMaker(c) \/ InvalidatePrices(c)
  \/ Closed(c) \/ RemoveIf(c)

Refresh == FoldPulled \/ AggregatePrices \/ StorePrices

Next ==
  \/ \E c \in Conns : (\E m \in Makers : Dial(m, c)) \/ Lose(c) \/ HandleSocket(c)
  \/ StartRefresh \/ Refresh \/ CancelRefresh
  \/ ExpireCache

Spec == Init /\ [][Next]_vars

\* The broker's tasks are polled and time passes; clients go on asking for prices.
Fairness ==
  /\ \A c \in Conns : WF_vars(HandleSocket(c))
  /\ WF_vars(StartRefresh)
  /\ WF_vars(Refresh)
  /\ WF_vars(ExpireCache)

FairSpec == Spec /\ Fairness

-----------------------------------------------------------------------------
(***************************************************************************)
(* Properties                                                              *)
(***************************************************************************)

\* Requests are routed to a connection whose task is there to deregister it: in
\* whatever order the tasks of a flapping maker run, none leaves its connection
\* registered behind it.
RegisteredIsServed ==
  \A m \in Makers :
    registry[m] # 0 => /\ owner[registry[m]] = m
                       /\ task[registry[m]] \in {"announce", "serve", "remove"}

\* The feed catches up with the makers: one that stays registered is listed, one
\* that stays away is not, although an aggregate can be stored after the change
\* that invalidated it, requests are dropped half-way and makers do not answer.
FeedFollowsRegistry ==
  \A m \in Makers :
    /\ <>[](registry[m] # 0) => <>[](cache.sources[m] # 0)
    /\ <>[](registry[m] = 0) => <>[](cache.sources[m] = 0)

=============================================================================
