\* One witness, blocks of two other transactions, epochs of two blocks, one reorganisation of
\* up to two of them.
CONSTANTS
  t1 = t1
  coinbase = coinbase
  payment = payment
  Txs = {t1}
  Others <- MCOthers
  ChecksPow = TRUE
  Interval = 2
  Timespan = 8
  Radix = 4
  TargetSize = 8
  PowLimit <- MCLimit
  MaxMerkleDepth = 3
  MaxWitnesses = 2
  MinConfs = 2
  BuryDepth = 3
  MaxHeight = 4
  MaxReorg = 2
  MaxForks = 1
  Times <- MCTimes
  MaxCache = 1
  MaxRestarts = 1
  DiskTier = TRUE
SPECIFICATION Spec
INVARIANTS
  AcceptedWasDeep
  BookmarkedStaysMined
  FreshProofVerifies
CHECK_DEADLOCK FALSE
