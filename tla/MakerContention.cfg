\* Two buy quotes that compete for one outpoint, both settled or not, with no fault.
CONSTANTS
  o1 = o1  o2 = o2  o3 = o3  q1 = q1  q2 = q2
  Outpoints = {o1, o2}
  RgbOutpoints = {o1, o2}
  Quotes = {q1, q2}
  BuyQuotes = {q1, q2}
  Covering <- Colliding
  Txids = {t1, t2}
  Calls = {c1, c2}
  NoQuote = NoQuote  NoTx = NoTx
  NoPending = NoPending  AwaitingPsbt = AwaitingPsbt
  QuoteTtl = 1  ConsignmentTtl = 1  SignatureTtl = 1
  RetryAttempts = 2
  FaultKinds = {}
  MaxQuotes = 2
  MaxCalls = 6
  MaxFaults = 0
SPECIFICATION Spec
SYMMETRY Symmetry
INVARIANTS
  FillOwnsInputs
  OfferFindsEntry
