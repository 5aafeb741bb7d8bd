\* Two contracts in the registry, a stranded allocation of one, no swaps.
CONSTANTS
  a = a
  b = b
  Contracts = {a, b}
  Genesis <- TwoAssets
  Traded <- BothTraded
  Offers = {}
  RgbLadder <- MCRgbLadder
  BtcLadder <- MCBtcLadder
  Feerate = 1
  MaxFee = 400
  MinReserve = 3000
  SwapFee = 300
  Commands = {"recover"}
  MaxSplits = 1
  MaxFaults = 1
SPECIFICATION Spec
INVARIANTS
  FeeSpendsDestroyNothing
CHECK_DEADLOCK FALSE
