\* Two fills, two writes of the operator, one fault.
CONSTANTS
  f1 = f1  f2 = f2
  NoFill = NoFill
  Fills = {f1, f2}
  OrderSize = 1
  MaxWrites = 2
  MaxFaults = 1
SPECIFICATION FairSpec
INVARIANTS
  MarkedMeansHandled
  AddedOncePerFault
PROPERTIES
  FillsAreHandled
  PolicyFollowsOrders
