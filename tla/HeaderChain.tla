----------------------------- MODULE HeaderChain -----------------------------
(***************************************************************************)
(* What a thin client checks without a node (crates/rfq-consignment): a    *)
(* run of headers from a checkpoint (headers.rs, difficulty.rs), a merkle  *)
(* branch (merkle.rs), and with both that every witness of a consignment   *)
(* is mined deep enough (verify.rs).                                       *)
(*                                                                         *)
(* A header names its own hash (id) and the hash as a number (work); the   *)
(* hash of two nodes is their pair, a leaf is a transaction.               *)
(***************************************************************************)
EXTENDS Integers, SequencesExt

CONSTANTS
  ChecksPow,       \* Network::checks_pow: TRUE on mainnet
  Interval,        \* RETARGET_INTERVAL
  Timespan,        \* TARGET_TIMESPAN
  Radix,           \* the values of a byte, in a target and its compact form
  TargetSize,      \* the bytes of a target
  PowLimit,        \* POW_LIMIT_BITS
  MaxMerkleDepth,  \* MAX_MERKLE_DEPTH
  MaxWitnesses     \* DEFAULT_MAX_WITNESSES

-----------------------------------------------------------------------------
(***************************************************************************)
(* Difficulty: a target and its compact form of three digits, the first of *)
(* which keeps its high bit clear.                                         *)
(***************************************************************************)

Power(b, n) ==
  LET p[k \in 0..n] == IF k = 0 THEN 1 ELSE b * p[k - 1] IN p[n]

TargetFromCompact(bits) ==
  IF bits.size <= 3 THEN bits.mantissa \div Power(Radix, 3 - bits.size)
  ELSE bits.mantissa * Power(Radix, bits.size - 3)

\* The limit is a target, and fits in the bytes of one.
ASSUME HeaderAssumption ==
  /\ ChecksPow \in BOOLEAN
  /\ {Interval, Timespan, Radix, MaxWitnesses} \subseteq Nat \ {0} /\ Radix % 2 = 0
  /\ {TargetSize, MaxMerkleDepth} \subseteq Nat
  /\ PowLimit \in [size : Nat, mantissa : 0..(Power(Radix, 3) \div 2 - 1)]
  /\ TargetFromCompact(PowLimit) < Power(Radix, TargetSize)

Digits(n) == Min({d \in 0..TargetSize : n < Power(Radix, d)})

CompactFromTarget(target) ==
  LET size == Digits(target)
      top == IF size <= 3 THEN target * Power(Radix, 3 - size)
             ELSE target \div Power(Radix, size - 3)
  IN IF top < Power(Radix, 3) \div 2 THEN [size |-> size, mantissa |-> top]
     ELSE [size |-> size + 1, mantissa |-> top \div Radix]

Clamp(n, low, high) == Max({low, Min({n, high})})

\* CalculateNextWorkRequired, from the last header of an epoch and its first time.
ExpectedRetargetBits(lastBits, lastTime, firstTime) ==
  LET actual == Clamp(lastTime - firstTime, Timespan \div 4, Timespan * 4)
      target == (TargetFromCompact(lastBits) * actual) \div Timespan
  IN CompactFromTarget(Min({target, TargetFromCompact(PowLimit)}))

-----------------------------------------------------------------------------
(***************************************************************************)
(* A run of headers, the first of which is the checkpoint's                *)
(***************************************************************************)

MeetsPow(header) == header.work <= TargetFromCompact(header.bits)

HeightOf(checkpoint, i) == checkpoint.height + i - 1

\* Slip: the epoch is taken to begin one header later.
RequiredBitsLate(checkpoint, headers, i) ==
  IF HeightOf(checkpoint, i) % Interval = 0
  THEN ExpectedRetargetBits(headers[i - 1].bits, headers[i - 1].time,
                            headers[i - Interval + 1].time)
  ELSE headers[i - 1].bits

\* The difficulty the header after the first i - 1 must state.
RequiredBits(checkpoint, headers, i) ==
  IF HeightOf(checkpoint, i) % Interval = 0
  THEN ExpectedRetargetBits(headers[i - 1].bits, headers[i - 1].time, headers[i - Interval].time)
  ELSE headers[i - 1].bits

\* Slip: nothing links a header to the one before.
LinkedToNothing(headers) == TRUE

Linked(headers) == \A i \in DOMAIN headers : i > 1 => headers[i].prev = headers[i - 1].id

\* validate_run
ValidRun(checkpoint, headers) ==
  /\ headers # <<>>
  /\ headers[1].id = checkpoint.id
  /\ Linked(headers)
  /\ ChecksPow =>
       /\ checkpoint.height % Interval = 0
       /\ \A i \in DOMAIN headers :
            /\ MeetsPow(headers[i])
            /\ i > 1 => headers[i].bits = RequiredBits(checkpoint, headers, i)

NoInfo == [known |-> FALSE]

\* header_at: the root of a block of the run, and its depth below the run's top; a
\* height that is not its own is not vouched for.
HeaderAt(checkpoint, headers, id, height) ==
  LET at == {i \in DOMAIN headers : headers[i].id = id} IN
  IF at = {} \/ HeightOf(checkpoint, Max(at)) # height THEN NoInfo
  ELSE [known |-> TRUE, root |-> headers[Max(at)].root,
        confirmations |-> Len(headers) + 1 - Max(at)]

-----------------------------------------------------------------------------
(***************************************************************************)
(* Merkle branches and proof packs                                         *)
(***************************************************************************)

\* A branch deeper than any block's tree is malformed.
Malformed(branch) == Len(branch) > MaxMerkleDepth

\* One level up: the index says on which side the node is.
Hashed(s, sibling) ==
  [node |-> IF s.index % 2 = 0 THEN <<s.node, sibling>> ELSE <<sibling, s.node>>,
   index |-> s.index \div 2]

\* compute_merkle_root: from the leaf, a sibling at a time.
HashUp(txid, branch, index) ==
  LET up[n \in 0..Len(branch)] ==
        IF n = 0 THEN [node |-> txid, index |-> index] ELSE Hashed(up[n - 1], branch[n])
  IN up

ComputeMerkleRoot(txid, branch, index) == HashUp(txid, branch, index)[Len(branch)].node

\* Why a witness is rejected, or "mined".  A pack has an anchor for some txids.
Verdict(txid, pack, checkpoint, headers, confs) ==
  IF txid \notin DOMAIN pack THEN "missing anchor"
  ELSE LET anchor == pack[txid]
           info == HeaderAt(checkpoint, headers, anchor.block, anchor.height)
       IN IF ~info.known THEN "unknown header"
          ELSE IF Malformed(anchor.branch) THEN "malformed"
          ELSE IF ComputeMerkleRoot(txid, anchor.branch, anchor.index) # info.root THEN "bad merkle"
          ELSE IF info.confirmations < Max({confs, 1}) THEN "unmined"
          ELSE "mined"

\* verify_pack
VerifyPack(witnesses, exempt, pack, checkpoint, headers, confs) ==
  /\ Cardinality(witnesses \ exempt) <= MaxWitnesses
  /\ \A txid \in witnesses \ exempt : Verdict(txid, pack, checkpoint, headers, confs) = "mined"
=============================================================================
