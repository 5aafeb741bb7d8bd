--------------------------------- MODULE Spv ---------------------------------
(***************************************************************************)
(* Is the history of a consignment mined?  A chain that reorganises, and   *)
(* the two ways of asking it: a gate that asks a node (MinedChecker, with  *)
(* the bookmark of the RGB backend), and a thin client that verifies the   *)
(* packs of a prover against headers it fetched itself.                    *)
(*                                                                         *)
(*   crates/rfq-consignment/src/mined.rs, prove.rs, headers.rs, verify.rs  *)
(*   crates/rfq-rgb/src/lib_backend.rs     the gates and their bookmark    *)
(*   services/spv-prover/src/lib.rs        the prover and its caches       *)
(*   services/broker/src/lib.rs            its precheck and its own packs  *)
(*   crates/rfq-consignment-wasm/src/lib.rs  the thin client               *)
(*                                                                         *)
(* The node answers every call from its best chain of that moment; a call  *)
(* can fail.  Nobody lies: headers and proofs are the chain's, but of the  *)
(* moment they were read.                                                  *)
(***************************************************************************)
EXTENDS HeaderChain

CONSTANTS
  Txs,          \* bound: the witness transactions
  Others,       \* the other transactions of every block, the coinbase first
  MinConfs,     \* K: recommended_confs of the network
  BuryDepth,    \* BURY_DEPTH
  MaxHeight,    \* bound: the height of the chain
  MaxReorg,     \* bound: blocks a reorganisation replaces
  MaxForks,     \* bound: reorganisations
  Times,        \* the time of the block at every height
  MaxCache,     \* MAX_CACHE_ENTRIES
  MaxRestarts,  \* bound: restarts of the prover
  DiskTier      \* the prover has a cache directory

ASSUME SpvAssumption ==
  /\ Others \in Seq(Range(Others)) \ {<<>>}
  /\ IsFiniteSet(Txs) /\ Range(Others) \cap Txs = {}
  /\ Len(Others) + Cardinality(Txs) <= Power(2, MaxMerkleDepth)
  /\ {MinConfs, BuryDepth} \subseteq Nat \ {0} /\ MinConfs <= BuryDepth
  /\ MaxReorg < BuryDepth
  /\ {MaxHeight, MaxReorg, MaxForks, MaxCache, MaxRestarts} \subseteq Nat
  /\ Times \in [0..MaxHeight -> Nat]
  /\ DiskTier \in BOOLEAN

VARIABLES
  chain,     \* the node's best chain, a sequence of blocks from height 0
  forks,     \* reorganisations so far
  deep,      \* history: transactions that have been MinConfs deep
  cache,     \* the prover's memory tier: txid -> anchor
  disk,      \* its disk tier
  build,     \* the request it works on
  restarts,
  pack,      \* what the thin client has been served: txid -> anchor
  run,       \* the headers it has fetched
  gate,      \* the gate's check
  bookmark,  \* the witnesses known to be buried
  accepted   \* history: witnesses that passed a gate or a thin client

prover == <<cache, disk, build, restarts>>
client == <<pack, run>>
checker == <<gate, bookmark>>
vars == <<chain, forks, deep, prover, client, checker, accepted>>

-----------------------------------------------------------------------------
(***************************************************************************)
(* The node and its chain                                                  *)
(***************************************************************************)

Tip(c) == Len(c) - 1
At(c, height) == c[height + 1]
Mined(c) == {t \in Txs : \E i \in DOMAIN c : t \in Range(c[i].txs)}
HeightIn(c, t) == CHOOSE h \in 0..Tip(c) : t \in Range(At(c, h).txs)

\* `confirmations` of transaction.get; none in the mempool or if it is unknown.
Confirmations(c, t) == IF t \in Mined(c) THEN Tip(c) + 1 - HeightIn(c, t) ELSE 0

\* The levels of a block's tree; the last node of an odd level stands for two.
Level(nodes) ==
  [i \in 1..((Len(nodes) + 1) \div 2) |->
     <<nodes[2 * i - 1], nodes[IF 2 * i <= Len(nodes) THEN 2 * i ELSE 2 * i - 1]>>]

Climb(s) ==
  LET buddy == IF s.pos % 2 = 0 THEN s.pos + 1 ELSE s.pos - 1 IN
  IF Len(s.nodes) = 1 THEN s
  ELSE [nodes |-> Level(s.nodes), pos |-> s.pos \div 2,
        branch |-> Append(s.branch, s.nodes[IF buddy < Len(s.nodes) THEN buddy + 1
                                            ELSE s.pos + 1])]

\* get_merkle: from a position up to the root.
Climbs(txs, pos) ==
  LET s[n \in 0..Len(txs)] ==
        IF n = 0 THEN [nodes |-> txs, pos |-> pos, branch |-> <<>>] ELSE Climb(s[n - 1])
  IN s

Path(txs, pos) == Climbs(txs, pos)[Len(txs)]

MerkleRoot(txs) == Path(txs, 0).nodes[1]

Header(b) == [id |-> b.id, prev |-> b.prev, bits |-> b.bits, time |-> b.time, work |-> 0,
              root |-> MerkleRoot(b.txs)]
Headers(c) == [i \in DOMAIN c |-> Header(c[i])]

\* The network's own rule for the block after a chain.
NetworkBits(c) ==
  LET last == c[Len(c)] IN
  IF Len(c) % Interval # 0 THEN last.bits
  ELSE ExpectedRetargetBits(last.bits, last.time, At(c, Len(c) - Interval).time)

Grow(c, fork, txs) ==
  Append(c, [id |-> <<fork, Len(c)>>, prev |-> c[Len(c)].id, bits |-> NetworkBits(c),
             time |-> Times[Len(c)], txs |-> Others \o SetToSeq(txs)])

\* The chain after each of so many blocks more, with the transactions each is to have.
Regrown(kept, fork, place, blocks) ==
  LET c[n \in 0..blocks] ==
        IF n = 0 THEN kept ELSE Grow(c[n - 1], fork, {t \in DOMAIN place : place[t] = n})
  IN c

NowDeep(c) == {t \in Txs : Confirmations(c, t) >= MinConfs}

Mine ==
  /\ Tip(chain) < MaxHeight
  /\ \E txs \in SUBSET (Txs \ Mined(chain)) : chain' = Grow(chain, forks, txs)
  /\ deep' = deep \cup NowDeep(chain')
  /\ UNCHANGED <<forks, prover, client, checker, accepted>>

\* Some blocks are replaced by as many and one more.
Reorg ==
  /\ forks < MaxForks /\ Tip(chain) < MaxHeight
  /\ \E d \in 1..Min({MaxReorg, Tip(chain)}) :
       LET kept == SubSeq(chain, 1, Len(chain) - d) IN
       \E place \in [Txs \ Mined(kept) -> 0..(d + 1)] :
         chain' = Regrown(kept, forks + 1, place, d + 1)[d + 1]
  /\ forks' = forks + 1
  /\ deep' = deep \cup NowDeep(chain')
  /\ UNCHANGED <<prover, client, checker, accepted>>

-----------------------------------------------------------------------------
(***************************************************************************)
(* The prover                                                              *)
(***************************************************************************)

Resting == [pc |-> "rest", todo |-> <<>>, tip |-> 0, at |-> 0, branch |-> <<>>, index |-> 0,
            hits |-> <<>>, keeps |-> FALSE]

Merge(old, new) == [t \in DOMAIN old \cup DOMAIN new |->
                      IF t \in DOMAIN new THEN new[t] ELSE old[t]]
\* Bound: a prover and a gate, which share nothing but the node, take turns.
Alone == build.pc = "rest" /\ gate.pc = "idle"

Part(f, s) == [t \in DOMAIN f \cap s |-> f[t]]

\* proof_pack: what the tiers have is served; a disk hit moves to memory.  If
\* anything is missing, the height of the tip is read first.
Ask(ts) ==
  LET hits == Merge(IF DiskTier THEN Part(disk, ts) ELSE <<>>, Part(cache, ts))
      missing == SetToSeq(ts \ DOMAIN hits)
  IN /\ Alone
     /\ cache' = Merge(cache, hits)
     /\ \/ missing = <<>> /\ pack' = Merge(pack, hits) /\ UNCHANGED build
        \/ /\ missing # <<>>
           /\ build' = [Resting EXCEPT !.pc = "get", !.todo = missing, !.tip = Tip(chain),
                                       !.hits = hits, !.keeps = TRUE]
           /\ UNCHANGED pack
     /\ UNCHANGED <<chain, forks, deep, disk, restarts, run, checker, accepted>>

\* The broker's consignment_proof_pack proves them all, and keeps nothing.
AskBroker(ts) ==
  /\ Alone
  /\ build' = [Resting EXCEPT !.pc = "get", !.todo = SetToSeq(ts), !.tip = Tip(chain)]
  /\ UNCHANGED <<chain, forks, deep, cache, disk, restarts, client, checker, accepted>>

\* build_proof_pack, for the first txid to do: the depth gives the height, ...
Get ==
  /\ build.pc = "get" /\ build.todo # <<>>
  /\ LET confs == Confirmations(chain, Head(build.todo)) IN
     \/ confs > 0 /\ build' = [build EXCEPT !.pc = "merkle", !.at = build.tip + 1 - confs]
     \/ build' = [build EXCEPT !.todo = Tail(@)]
  /\ UNCHANGED <<chain, forks, deep, cache, disk, restarts, client, checker, accepted>>

\* ... the node gives the branch if the transaction is at that height, ...
GetMerkle ==
  /\ build.pc = "merkle"
  /\ LET t == Head(build.todo) IN
     \/ /\ build.at \in 0..Tip(chain) /\ t \in Range(At(chain, build.at).txs)
        /\ LET txs == At(chain, build.at).txs
               pos == (CHOOSE i \in DOMAIN txs : txs[i] = t) - 1
           IN build' = [build EXCEPT !.pc = "header", !.index = pos,
                                     !.branch = Path(txs, pos).branch]
     \/ build' = [build EXCEPT !.pc = "get", !.todo = Tail(@)]
  /\ UNCHANGED <<chain, forks, deep, cache, disk, restarts, client, checker, accepted>>

\* ... and the header of that height, of whatever chain it then has.
GetHeader ==
  /\ build.pc = "header"
  /\ \/ build' = [build EXCEPT !.pc = "get", !.todo = Tail(@),
            !.hits = Merge(@, [t \in {Head(build.todo)} |->
                       [block |-> At(chain, build.at).id, height |-> build.at,
                        index |-> build.index, branch |-> build.branch]])]
     \/ build' = [build EXCEPT !.pc = "get", !.todo = Tail(@)]
  /\ UNCHANGED <<chain, forks, deep, cache, disk, restarts, client, checker, accepted>>

\* What was proven goes to both tiers; a memory tier that would overflow is cleared.
Serve ==
  /\ build.pc = "get" /\ build.todo = <<>>
  /\ LET new == IF build.keeps THEN DOMAIN build.hits \ DOMAIN cache ELSE {}
         kept == IF Cardinality(DOMAIN cache) + Cardinality(new) > MaxCache THEN <<>> ELSE cache
     IN /\ cache' = Merge(kept, Part(build.hits, new))
        /\ disk' = IF DiskTier THEN Merge(disk, Part(build.hits, new)) ELSE disk
  /\ pack' = Merge(pack, build.hits)
  /\ build' = Resting
  /\ UNCHANGED <<chain, forks, deep, restarts, run, checker, accepted>>

Restart ==
  /\ restarts < MaxRestarts
  /\ restarts' = restarts + 1
  /\ cache' = <<>>
  /\ build' = Resting
  /\ UNCHANGED <<chain, forks, deep, disk, client, checker, accepted>>

-----------------------------------------------------------------------------
(***************************************************************************)
(* The thin client                                                         *)
(***************************************************************************)

Checkpoint == [height |-> 0, id |-> <<0, 0>>]

\* The host fetches headers from the checkpoint on, and later those above them.
FetchHeaders ==
  /\ \/ run' = Headers(chain)
     \/ Len(run) < Len(chain)
        /\ run' = run \o SubSeq(Headers(chain), Len(run) + 1, Len(chain))
  /\ UNCHANGED <<chain, forks, deep, prover, pack, checker, accepted>>

\* verify_consignment
VerifyConsignment(ts) ==
  /\ ValidRun(Checkpoint, run)
  /\ VerifyPack(ts, {}, pack, Checkpoint, run, MinConfs)
  /\ accepted' = accepted \cup ts
  /\ UNCHANGED <<chain, forks, deep, prover, client, checker>>

-----------------------------------------------------------------------------
(***************************************************************************)
(* The gates                                                               *)
(***************************************************************************)

Idle == [pc |-> "idle", asked |-> {}, todo |-> {}, unmined |-> {}, buried |-> {}, keeps |-> FALSE]

\* MinedChecker::check refuses more witnesses than its cap before it asks for any.
Check(asked, todo, keeps) ==
  /\ Alone
  /\ Cardinality(todo) <= MaxWitnesses
  /\ gate' = [Idle EXCEPT !.pc = "check", !.asked = asked, !.todo = todo, !.keeps = keeps]
  /\ UNCHANGED <<chain, forks, deep, prover, client, bookmark, accepted>>

\* validate_incoming_consignment: what the bookmark has is not asked again.
ValidateIncoming(ts) == Check(ts, ts \ bookmark, TRUE)

\* validate_buy_consignment exempts the swap it is about to sign.
ValidateBuy(ts, swap) == Check(ts \ {swap}, ts \ (bookmark \cup {swap}), TRUE)

\* The broker's spv_precheck has no bookmark.
Precheck(ts) == Check(ts, ts, FALSE)

\* Slip: what is deep enough to pass is deep enough to bookmark.
BuriedAtOnce(confs) == confs >= MinConfs

Buried(confs) == confs >= BuryDepth

\* A window of one: the batch gives its depth; if the node refuses the batch, a call
\* of its own says whether it is mined; if that fails too it counts as unmined.
CheckWindow(t) ==
  /\ gate.pc = "check" /\ t \in gate.todo
  /\ LET confs == Confirmations(chain, t) IN
     \/ /\ confs >= MinConfs
        /\ \E deepest \in {{}, {u \in {t} : gate.keeps /\ Buried(confs)}} :
             gate' = [gate EXCEPT !.todo = @ \ {t}, !.buried = @ \cup deepest]
     \/ gate' = [gate EXCEPT !.todo = @ \ {t}, !.unmined = @ \cup {t}]
  /\ UNCHANGED <<chain, forks, deep, prover, client, bookmark, accepted>>

\* The verdict: all are mined, or the consignment is refused and nothing is kept.
GateCloses ==
  /\ gate.pc = "check" /\ gate.todo = {}
  /\ \/ /\ gate.unmined = {}
        /\ bookmark' = bookmark \cup gate.buried
        /\ accepted' = accepted \cup gate.asked
     \/ /\ gate.unmined # {}
        /\ UNCHANGED <<bookmark, accepted>>
  /\ gate' = Idle
  /\ UNCHANGED <<chain, forks, deep, prover, client>>

-----------------------------------------------------------------------------
Init ==
  /\ chain = << [id |-> <<0, 0>>, prev |-> <<0, -1>>, bits |-> PowLimit, time |-> Times[0],
                 txs |-> Others] >>
  /\ forks = 0 /\ restarts = 0
  /\ deep = {}
  /\ cache = <<>> /\ disk = <<>> /\ pack = <<>>
  /\ build = Resting
  /\ run = <<>>
  /\ gate = Idle
  /\ bookmark = {}
  /\ accepted = {}

Consignments == SUBSET Txs \ {{}}

Next ==
  \/ Mine \/ Reorg
  \/ \E ts \in Consignments : Ask(ts) \/ AskBroker(ts)
  \/ Get \/ GetMerkle \/ GetHeader \/ Serve \/ Restart
  \/ FetchHeaders
  \/ \E ts \in Consignments : VerifyConsignment(ts)
  \/ \E ts \in Consignments : ValidateIncoming(ts) \/ Precheck(ts)
  \/ \E ts \in Consignments : \E swap \in ts : ValidateBuy(ts, swap)
  \/ \E t \in Txs : CheckWindow(t)
  \/ GateCloses

Spec == Init /\ [][Next]_vars

-----------------------------------------------------------------------------
(***************************************************************************)
(* Properties                                                              *)
(***************************************************************************)

\* What a gate or a thin client accepts has been deep enough in the best chain,
\* whatever reorganisations came between the reads its verdict rests on.
AcceptedWasDeep == accepted \subseteq deep

\* A bookmarked witness is never asked about again: it must be mined for good.
BookmarkedStaysMined == bookmark \subseteq Mined(chain)

\* A pack whose anchor is of the best chain passes, once the client has all of its
\* headers and the witness is deep enough: nothing sound is refused.
FreshProofVerifies ==
  run = Headers(chain) =>
    \A t \in DOMAIN pack :
      t \in Mined(chain) /\ Confirmations(chain, t) >= MinConfs =>
        LET b == At(chain, HeightIn(chain, t))
            pos == pack[t].index
        IN pack[t].block = b.id /\ pos < Len(b.txs) /\ b.txs[pos + 1] = t
           /\ pack[t].branch = Path(b.txs, pos).branch
           => ValidRun(Checkpoint, run) /\ VerifyPack({t}, {}, pack, Checkpoint, run, MinConfs)
=============================================================================
