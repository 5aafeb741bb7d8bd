----------------------------- MODULE MCTreasury -----------------------------
(***************************************************************************)
(* Instances of Treasury for TLC.                                          *)
(***************************************************************************)
EXTENDS TreasuryClaims

CONSTANTS a, b

Plain(to, sats) == [to |-> to, sats |-> sats, rgb |-> [c \in Contracts |-> 0]]
With(to, sats, c, n) == [Plain(to, sats) EXCEPT !.rgb[c] = n]

\* One fat piece of the asset, one of BTC, a stray host of an earlier day.
MCGenesis == << With("host", 3000, a, 8), Plain("maker", 20000), With("stray", 546, a, 2) >>

MCBuy == [side |-> "buy", asset |-> a, amount |-> 1, gross |-> 2000,
          taker |-> <<Plain("taker", 4000)>>, seal |-> "witness"]
MCSell == [side |-> "sell", asset |-> a, amount |-> 1, gross |-> 4000,
           taker |-> <<With("taker", 546, a, 3)>>, seal |-> "witness"]
MCOffers == {MCBuy, MCSell}

MCTraded == <<a>>

\* Two contracts; the fattest coin that does not carry the one carries the other.
TwoAssets == << With("host", 3000, b, 4), Plain("maker", 2000), With("stray", 546, a, 2) >>
BothTraded == <<a, b>>

MCRgbLadder == [base |-> 2, num |-> 1, den |-> 2, tiers |-> 2, copies |-> 1, minPiece |-> 1]
MCBtcLadder == [base |-> 6000, num |-> 1, den |-> 2, tiers |-> 1, copies |-> 1, minPiece |-> 1000]
=============================================================================
