----------------------------- MODULE SwapLifecycle -----------------------------
(***************************************************************************)
(* What a maker promises about a swap, without tasks, timers or a network: *)
(* a quote is held by outpoints that back no other swap, and is then       *)
(* either released, freeing all of them, or committed to a transaction and *)
(* later settled, keeping all of them for ever.  This is the state diagram *)
(* of InventoryStatus seen from a quote (crates/rfq-types/src/lib.rs).     *)
(***************************************************************************)
CONSTANTS Outpoints, Quotes

VARIABLES stage,    \* per quote
          backing   \* the outpoints behind each quote

swapVars == <<stage, backing>>

Stages == {"unquoted", "held", "released", "committed", "settled"}

SwapTypeOK ==
  /\ stage \in [Quotes -> Stages]
  /\ backing \in [Quotes -> SUBSET Outpoints]

SwapInit ==
  /\ stage = [q \in Quotes |-> "unquoted"]
  /\ backing = [q \in Quotes |-> {}]

Backed == UNION {backing[q] : q \in Quotes}

Hold(q) ==
  /\ stage[q] = "unquoted"
  /\ \E S \in SUBSET (Outpoints \ Backed) :
       /\ S # {}
       /\ backing' = [backing EXCEPT ![q] = S]
  /\ stage' = [stage EXCEPT ![q] = "held"]

\* Expiry can release several quotes at once.
Release(R) ==
  /\ \A q \in R : stage[q] = "held"
  /\ stage' = [q \in Quotes |-> IF q \in R THEN "released" ELSE stage[q]]
  /\ backing' = [q \in Quotes |-> IF q \in R THEN {} ELSE backing[q]]

Commit(q) ==
  /\ stage[q] = "held"
  /\ stage' = [stage EXCEPT ![q] = "committed"]
  /\ UNCHANGED backing

Settle(q) ==
  /\ stage[q] = "committed"
  /\ stage' = [stage EXCEPT ![q] = "settled"]
  /\ UNCHANGED backing

SwapNext ==
  \/ \E q \in Quotes : Hold(q) \/ Commit(q) \/ Settle(q)
  \/ \E R \in (SUBSET Quotes) \ {{}} : Release(R)

SwapSpec == SwapInit /\ [][SwapNext]_swapVars
=============================================================================
