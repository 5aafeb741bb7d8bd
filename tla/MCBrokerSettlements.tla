-------------------------- MODULE MCBrokerSettlements --------------------------
(***************************************************************************)
(* Instances of BrokerSettlements for TLC.                                 *)
(***************************************************************************)
EXTENDS BrokerSettlements

CONSTANTS r1, r2, m1, c1, c2

MCRepeats == {<<r1, m1>>}
=============================================================================
