\* One swap, a buy or a sell, two calls at a time: every race of its handlers, the
\* cleanup loop and the sweep, with a fault.
CONSTANTS
  o1 = o1  o2 = o2  o3 = o3  q1 = q1  q2 = q2
  Outpoints = {o1, o2, o3}
  RgbOutpoints = {o1, o2}
  Quotes = {q1, q2}
  BuyQuotes = {q1}
  Covering <- EitherSide
  Txids = {t1, t2}
  Calls = {c1, c2}
  NoQuote = NoQuote  NoTx = NoTx
  NoPending = NoPending  AwaitingPsbt = AwaitingPsbt
  QuoteTtl = 1  ConsignmentTtl = 1  SignatureTtl = 1
  RetryAttempts = 2
  FaultKinds = {"crash", "drop", "lostReply", "evict"}
  MaxQuotes = 1
  MaxCalls = 6
  MaxFaults = 1
SPECIFICATION Spec
SYMMETRY Symmetry
INVARIANTS
  WrittenOffBySpender
  OfferedSpendsReservation
  SellConsignmentAnchored
PROPERTIES
  RecordedOnce
  ImplementsSwapLifecycle
