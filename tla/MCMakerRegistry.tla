---------------------------- MODULE MCMakerRegistry ----------------------------
(***************************************************************************)
(* Instances of MakerRegistry for TLC.                                     *)
(***************************************************************************)
EXTENDS MakerRegistry, TLC

CONSTANTS m1, m2

\* One maker reconnects, the other does not.
OneFlaps == (m1 :> 2) @@ (m2 :> 1)
=============================================================================
