------------------------------- MODULE MCSpv -------------------------------
(***************************************************************************)
(* Instances of Spv for TLC.                                               *)
(***************************************************************************)
EXTENDS Spv, TLC

CONSTANTS t1, coinbase, payment

\* With t1 a block has three transactions: its branch has a node that stands for two.
MCOthers == <<coinbase, payment>>

\* Blocks that come faster, then slower, than the network wants.
MCTimes == [h \in 0..MaxHeight |-> <<0, 3, 11, 15, 40, 41, 42>>[h + 1]]

MCLimit == [size |-> 4, mantissa |-> 20]

\* The compact form loses less than the digits it drops, and once it has been taken
\* it stays: rounding does not add up from epoch to epoch.
CompactIsStable ==
  \A target \in 1..3000 :
    LET bits == CompactFromTarget(target)
        back == TargetFromCompact(bits)
    IN /\ back <= target /\ target < back + Radix ^ Max({0, bits.size - 3})
       /\ CompactFromTarget(back) = bits

ASSUME CompactIsStable
=============================================================================
