--------------------------- MODULE MCInventoryStore ---------------------------
(***************************************************************************)
(* InventoryStore on a small instance.                                     *)
(***************************************************************************)
EXTENDS InventoryStore, TLC

CONSTANTS o1, o2, o3, a1, a2

\* Two outpoints of one contract, so that a reservation can have two rows, and one
\* of another, seeded beside them.
MCAssetOf == (o1 :> a1) @@ (o2 :> a1) @@ (o3 :> a2)

\* Names are interchangeable, outpoints within a contract: nothing compares them
\* except for equality.
Symmetry ==
  Permutations({o1, o2}) \cup Permutations(Quotes)
    \cup Permutations(Txids) \cup Permutations(Callers)
=============================================================================
