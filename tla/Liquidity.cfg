\* Up to three coins of up to 9 at first; exact pairs are looked for among four coins
\* at most, exact triples among three.
CONSTANTS
  SEAL_ANCHOR_SATS = 1
  SUBSET_LIMIT_2OFN = 4
  SUBSET_LIMIT_3OFN = 3
  BPS = 100
  Specs <- MCSpecs
  StandingOrders <- MCOrders
  MaxPieces = 3
  MaxPiece = 9
SPECIFICATION LiquiditySpec
INVARIANTS
  DeficitIsLeast
  ChangeRungsAreWanted
  AdvertisedIsFilled
  MirrorNeverLoses
CHECK_DEADLOCK FALSE
