------------------------------- MODULE MCMaker -------------------------------
(***************************************************************************)
(* Instances of Maker for TLC.                                             *)
(***************************************************************************)
EXTENDS Maker, TLC

CONSTANTS o1, o2, o3, q1, q2

\* A buy that needs both RGB outpoints, a sell that needs the BTC outpoint.
EitherSide == (q1 :> {{o1, o2}}) @@ (q2 :> {{o3}})

\* One quote that needs both outpoints.
WholePool == (q1 :> {{o1, o2}})

\* Two quotes over one pool that can both want o1.
Colliding == (q1 :> {{o1}}) @@ (q2 :> {{o1}, {o2}})

Symmetry == Permutations(Txids) \cup Permutations(Calls)
=============================================================================
