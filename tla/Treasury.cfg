\* One contract, a buy and a sell that can meet on the same coins, a pass of the
\* executor, one command, one fault.
CONSTANTS
  a = a
  b = b
  Contracts = {a}
  Genesis <- MCGenesis
  Traded <- MCTraded
  Offers <- MCOffers
  RgbLadder <- MCRgbLadder
  BtcLadder <- MCBtcLadder
  Feerate = 1
  MaxFee = 400
  MinReserve = 3000
  SwapFee = 300
  Commands = {"recover", "rebalance"}
  MaxSplits = 1
  MaxFaults = 1
SPECIFICATION Spec
INVARIANTS
  NothingBurned
  BtcPoolHoldsNoRgb
  OfferedIsUnspent
  NobodyOverpays
CHECK_DEADLOCK FALSE
