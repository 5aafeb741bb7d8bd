---------------------------- MODULE TreasuryClaims ----------------------------
(***************************************************************************)
(* What a comment says of the wallet and a command does not keep: the run  *)
(* claim_fee_coin refutes it.                                              *)
(***************************************************************************)
EXTENDS Treasury

\* "Multi-asset: every registered contract's allocations are excluded, so an output
\* bound to asset B is never handed back as plain BTC when the maker also trades asset
\* A (which would let a swap/fee spend destroy B's RGB)" (list_btc_only_utxos): a
\* recovery keeps what its inputs carry of every registered contract.
FeeSpendsDestroyNothing ==
  \A t \in Live : txs[t].kind = "recover" =>
    \A a \in Range(Traded) : Holding(InsOf(t), a) = Holding(txs[t].outs, a)
=============================================================================
