----------------------------- MODULE MCLiquidity -----------------------------
(***************************************************************************)
(* Instances of Liquidity for TLC.                                         *)
(***************************************************************************)
EXTENDS Liquidity

\* Halving ladders with one and two copies, a minimum that drops a tier and one
\* that does not, and a ladder whose tiers are not whole.
MCSpecs ==
  { [base |-> 4, num |-> 1, den |-> 2, tiers |-> 3, copies |-> 1, minPiece |-> 1],
    [base |-> 4, num |-> 1, den |-> 2, tiers |-> 3, copies |-> 2, minPiece |-> 2],
    [base |-> 5, num |-> 2, den |-> 3, tiers |-> 3, copies |-> 2, minPiece |-> 1],
    [base |-> 3, num |-> 1, den |-> 4, tiers |-> 3, copies |-> 2, minPiece |-> 0] }

\* A unit worth more than a sat and units worth less, a spread smaller than a sat and
\* one that is not.
MCOrders ==
  { [price |-> 2, scale |-> 1, size |-> 12, spread |-> 1],
    [price |-> 7, scale |-> 10, size |-> 20, spread |-> 30],
    [price |-> 11, scale |-> 4, size |-> 9, spread |-> 1] }
=============================================================================
