\* One buy quote, two calls, any fault but an eviction.
CONSTANTS
  o1 = o1  o2 = o2  o3 = o3  q1 = q1  q2 = q2
  Outpoints = {o1, o2}
  RgbOutpoints = {o1, o2}
  Quotes = {q1}
  BuyQuotes = {q1}
  Covering <- WholePool
  Txids = {t1, t2}
  Calls = {c1, c2}
  NoQuote = NoQuote  NoTx = NoTx
  NoPending = NoPending  AwaitingPsbt = AwaitingPsbt
  QuoteTtl = 1  ConsignmentTtl = 1  SignatureTtl = 1
  RetryAttempts = 2
  FaultKinds = {"crash", "drop", "lostReply"}
  MaxQuotes = 2
  MaxCalls = 4
  MaxFaults = 1
SPECIFICATION FairSpec
PROPERTIES
  ReservationResolves
  EntriesArePruned
  CommitmentsSettle
