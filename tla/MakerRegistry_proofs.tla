-------------------------- MODULE MakerRegistry_proofs --------------------------
(***************************************************************************)
(* Routing of the broker's registry, for any number of makers, connections *)
(* and reconnections: an entry always names a connection of its maker      *)
(* whose task has yet to run remove_if.                                    *)
(*                                                                         *)
(* A task that moves could disturb the entry of another maker only if they *)
(* shared a connection, so the inductive invariant adds that a task past   *)
(* its Register frame has a dialled connection, and that a dialled         *)
(* connection has an owner and keeps it.                                   *)
(***************************************************************************)
EXTENDS MakerRegistry, TLAPS

\* A connection is dialled by a maker, and only then is its task past Register.
DialledFirst ==
  \A c \in Conns :
    /\ task[c] # "register" => link[c] # "unused"
    /\ link[c] # "unused" => owner[c] \in Makers

IInv == TypeOK /\ DialledFirst /\ RegisteredIsServed

\* An entry's connection is a connection, dialled, and its task has yet to leave.
LEMMA EntryIsLive ==
  ASSUME TypeOK, RegisteredIsServed, NEW m \in Makers, registry[m] # 0
  PROVE  /\ registry[m] \in Conns
         /\ owner[registry[m]] = m
         /\ task[registry[m]] \in {"announce", "serve", "remove"}
  BY DEF TypeOK, RegisteredIsServed, Sources

\* The broker starts with no connection and an empty registry.
LEMMA InitOK == Init => IInv
  BY RegistryAssumption
     DEF Init, IInv, TypeOK, DialledFirst, RegisteredIsServed, Sources, None

\* A dial takes a connection number nobody holds.
LEMMA DialOK ==
  ASSUME IInv, NEW m \in Makers, NEW c \in Conns, Dial(m, c)
  PROVE  IInv'
  <1>1. TypeOK'
    BY DEF IInv, TypeOK, Dial, connVars, mapVars, Sources
  <1>2. DialledFirst'
    BY DEF IInv, TypeOK, DialledFirst, Dial
  <1>3. RegisteredIsServed'
    <2> SUFFICES ASSUME NEW n \in Makers, registry[n] # 0
                 PROVE  owner'[registry[n]] = n
      BY EntryIsLive DEF IInv, RegisteredIsServed, Dial, mapVars
    <2>1. /\ registry[n] \in Conns
          /\ owner[registry[n]] = n
          /\ task[registry[n]] \in {"announce", "serve", "remove"}
      BY EntryIsLive DEF IInv
    <2>2. registry[n] # c
      BY <2>1 DEF IInv, DialledFirst, Dial
    <2> QED
      BY <2>1, <2>2 DEF IInv, TypeOK, Dial
  <1> QED
    BY <1>1, <1>2, <1>3 DEF IInv

\* A task that only moves on, without leaving the registered part of its life.
LEMMA MoveOK ==
  ASSUME IInv, NEW c \in Conns, NEW from, NEW to,
         Moves(c, from, to),
         UNCHANGED <<owner, link, registry>>,
         TypeOK',
         link[c] # "unused",
         \/ from \notin {"announce", "serve", "remove"}
         \/ to \in {"announce", "serve", "remove"}
         \/ \A m \in Makers : registry[m] # c
  PROVE  IInv'
  <1>1. DialledFirst'
    BY DEF IInv, TypeOK, DialledFirst, Moves
  <1>2. RegisteredIsServed'
    <2> SUFFICES ASSUME NEW m \in Makers, registry[m] # 0
                 PROVE  task'[registry[m]] \in {"announce", "serve", "remove"}
      BY EntryIsLive DEF IInv, RegisteredIsServed
    <2>1. /\ registry[m] \in Conns
          /\ task[registry[m]] \in {"announce", "serve", "remove"}
      BY EntryIsLive DEF IInv
    <2> QED
      BY <2>1 DEF IInv, TypeOK, Moves
  <1> QED
    BY <1>1, <1>2 DEF IInv

\* Whatever the tasks of one connection do keeps every entry served.
LEMMA HandleSocketOK ==
  ASSUME IInv, NEW c \in Conns, HandleSocket(c)
  PROVE  IInv'
  <1>1. CASE ReadRegister(c)
    <2>1. TypeOK'
      BY <1>1 DEF IInv, TypeOK, ReadRegister, Moves, connVars, mapVars, Sources
    <2> QED
      BY <1>1, <2>1, MoveOK DEF ReadRegister, connVars, mapVars
  <1>2. CASE ReadFails(c)
    <2>1. TypeOK'
      BY <1>2 DEF IInv, TypeOK, ReadFails, Moves, connVars, mapVars, Sources
    <2> QED
      BY <1>2, <2>1, MoveOK DEF ReadFails, connVars, mapVars
  <1>3. CASE InsertMaker(c)
    <2>1. owner[c] \in Makers /\ task[c] = "insert" /\ link[c] # "unused"
      BY <1>3 DEF IInv, DialledFirst, InsertMaker, Moves
    <2>2. TypeOK'
      BY <1>3, <2>1
         DEF IInv, TypeOK, InsertMaker, Moves, connVars, Sources, Conns
    <2>3. DialledFirst'
      BY <1>3, <2>1 DEF IInv, TypeOK, DialledFirst, InsertMaker, Moves, connVars
    <2>4. RegisteredIsServed'
      <3> SUFFICES ASSUME NEW m \in Makers, registry'[m] # 0
                   PROVE  /\ owner[registry'[m]] = m
                          /\ task'[registry'[m]] \in {"announce", "serve", "remove"}
        BY <1>3 DEF RegisteredIsServed, InsertMaker, connVars
      <3>1. CASE m = owner[c]
        BY <1>3, <3>1 DEF IInv, TypeOK, InsertMaker, Moves, Sources
      <3>2. CASE m # owner[c]
        <4>1. registry'[m] = registry[m]
          BY <1>3, <3>2 DEF IInv, TypeOK, InsertMaker, Sources
        <4>2. /\ registry[m] \in Conns
              /\ owner[registry[m]] = m
              /\ task[registry[m]] \in {"announce", "serve", "remove"}
          BY <4>1, EntryIsLive DEF IInv
        <4> QED
          BY <1>3, <3>2, <4>1, <4>2 DEF IInv, TypeOK, InsertMaker, Moves
      <3> QED
        BY <3>1, <3>2
    <2> QED
      BY <2>2, <2>3, <2>4 DEF IInv
  <1>4. CASE InvalidatePrices(c)
    <2>1. TypeOK'
      BY <1>4
         DEF IInv, TypeOK, InvalidatePrices, Moves, connVars, mapVars, Sources
    <2>2. link[c] # "unused"
      BY <1>4 DEF IInv, DialledFirst, InvalidatePrices, Moves
    <2> QED
      BY <1>4, <2>1, <2>2, MoveOK DEF InvalidatePrices, connVars, mapVars
  <1>5. CASE Closed(c)
    <2>1. TypeOK'
      BY <1>5 DEF IInv, TypeOK, Closed, Moves, connVars, mapVars, Sources
    <2> QED
      BY <1>5, <2>1, MoveOK DEF Closed, connVars, mapVars
  <1>6. CASE RemoveIf(c)
    <2>1. owner[c] \in Makers /\ task[c] = "remove" /\ link[c] # "unused"
      BY <1>6 DEF IInv, DialledFirst, RemoveIf
    <2>2. TypeOK'
      BY <1>6, <2>1 DEF IInv, TypeOK, RemoveIf, Moves, connVars, mapVars, Sources
    <2>3. CASE registry[owner[c]] = c
      <3>1. DialledFirst'
        BY <1>6, <2>1, <2>3
           DEF IInv, TypeOK, DialledFirst, RemoveIf, Moves, connVars
      <3>2. RegisteredIsServed'
        <4> SUFFICES ASSUME NEW m \in Makers, registry'[m] # 0
                     PROVE  /\ owner[registry'[m]] = m
                            /\ task'[registry'[m]]
                                 \in {"announce", "serve", "remove"}
          BY <1>6 DEF RegisteredIsServed, RemoveIf, connVars
        <4>1. m # owner[c] /\ registry'[m] = registry[m]
          BY <1>6, <2>1, <2>3 DEF IInv, TypeOK, RemoveIf, Sources
        <4>2. /\ registry[m] \in Conns
              /\ owner[registry[m]] = m
              /\ task[registry[m]] \in {"announce", "serve", "remove"}
          BY <4>1, EntryIsLive DEF IInv
        <4> QED
          BY <1>6, <2>3, <4>1, <4>2 DEF IInv, TypeOK, RemoveIf, Moves
      <3> QED
        BY <2>2, <3>1, <3>2 DEF IInv
    <2>4. CASE registry[owner[c]] # c
      <3>1. \A m \in Makers : registry[m] # c
        BY <2>4, EntryIsLive DEF IInv, Conns
      <3> QED
        BY <1>6, <2>1, <2>2, <2>4, <3>1, MoveOK DEF RemoveIf, connVars, mapVars
    <2> QED
      BY <2>3, <2>4
  <1> QED
    BY <1>1, <1>2, <1>3, <1>4, <1>5, <1>6 DEF HandleSocket

\* A refresh of the price cache moves prices about and leaves the registry alone.
LEMMA PricesOK ==
  ASSUME IInv, StartRefresh \/ Refresh \/ CancelRefresh \/ ExpireCache
  PROVE  IInv'
  <1>1. UNCHANGED <<owner, link, task, registry>>
    BY DEF StartRefresh, Refresh, FoldPulled, AggregatePrices, StorePrices,
           CancelRefresh, ExpireCache, connVars, mapVars
  <1>2. TypeOK'
    <2>1. CASE StartRefresh
      BY <2>1 DEF IInv, TypeOK, StartRefresh, connVars, mapVars
    <2>2. CASE FoldPulled
      <3>1. PICK answered \in SUBSET {m \in Makers : refresh.sources[m] # 0} :
              prices' = [m \in Makers |-> IF registry[m] # 0 /\ m \in answered
                                          THEN refresh.sources[m] ELSE prices[m]]
        BY <2>2 DEF FoldPulled
      <3>2. refresh.sources \in Sources
        BY DEF IInv, TypeOK
      <3>3. prices' \in Sources
        BY <3>1, <3>2 DEF IInv, TypeOK, Sources
      <3>4. \A m \in Makers : registry[m] = 0 <=> prices'[m] = 0
        BY <3>1, <3>2 DEF IInv, TypeOK
      <3>5. refresh' \in [pc : {"idle", "pull", "aggregate", "store"},
                          sources : Sources]
        BY <2>2 DEF IInv, TypeOK, FoldPulled
      <3> QED
        BY <2>2, <3>3, <3>4, <3>5 DEF IInv, TypeOK, FoldPulled, connVars
    <2>3. CASE AggregatePrices
      BY <2>3 DEF IInv, TypeOK, AggregatePrices, connVars, mapVars
    <2>4. CASE StorePrices
      BY <2>4 DEF IInv, TypeOK, StorePrices, connVars, mapVars, None, Sources
    <2>5. CASE CancelRefresh
      BY <2>5, RegistryAssumption
         DEF IInv, TypeOK, CancelRefresh, connVars, mapVars, None, Sources
    <2>6. CASE ExpireCache
      BY <2>6 DEF IInv, TypeOK, ExpireCache, connVars, mapVars
    <2> QED
      BY <2>1, <2>2, <2>3, <2>4, <2>5, <2>6 DEF Refresh
  <1> QED
    BY <1>1, <1>2 DEF IInv, DialledFirst, RegisteredIsServed

\* Every step keeps the inductive invariant, stuttering included.
LEMMA StepOK == IInv /\ [Next]_vars => IInv'
  <1> SUFFICES ASSUME IInv, [Next]_vars PROVE IInv'
    OBVIOUS
  <1>1. ASSUME NEW c \in Conns, NEW m \in Makers, Dial(m, c) PROVE IInv'
    BY <1>1, DialOK
  <1>2. ASSUME NEW c \in Conns, Lose(c) PROVE IInv'
    BY <1>2 DEF IInv, TypeOK, DialledFirst, RegisteredIsServed, Lose, mapVars
  <1>3. ASSUME NEW c \in Conns, HandleSocket(c) PROVE IInv'
    BY <1>3, HandleSocketOK
  <1>4. ASSUME StartRefresh \/ Refresh \/ CancelRefresh \/ ExpireCache PROVE IInv'
    BY <1>4, PricesOK
  <1>5. CASE UNCHANGED vars
    BY <1>5 DEF vars, IInv, TypeOK, DialledFirst, RegisteredIsServed
  <1> QED
    BY <1>1, <1>2, <1>3, <1>4, <1>5 DEF Next

THEOREM Invariant == Spec => []IInv
  BY InitOK, StepOK, PTL DEF Spec

-----------------------------------------------------------------------------

\* The registry, its prices and the cache are well-formed, and an entry has prices
\* exactly when it has a connection.
THEOREM TypeCorrect == Spec => []TypeOK
  <1>1. IInv => TypeOK
    BY DEF IInv
  <1> QED
    BY <1>1, Invariant, PTL

\* No order of the tasks of flapping makers leaves a registered connection whose
\* task has gone.
THEOREM NeverRoutedToTheGone == Spec => []RegisteredIsServed
  <1>1. IInv => RegisteredIsServed
    BY DEF IInv
  <1> QED
    BY <1>1, Invariant, PTL
=============================================================================
