SPECIFICATION Spec
CONSTANTS
  o1 = o1
  o2 = o2
  o3 = o3
  a1 = a1
  a2 = a2
  Outpoints = {o1, o2, o3}
  Assets = {a1, a2}
  AssetOf <- MCAssetOf
  Quotes = {q1, q2}
  Txids = {t1, t2}
  Callers = {c1, c2}
  NoCaller = NoCaller
  Ttls = {1}
  MaxOps = 5
  MaxFaults = 1
SYMMETRY Symmetry
INVARIANTS
  NoTornReservation
  AnsweredIsDurable
PROPERTIES
  NoResurrection
  NoTheft
CHECK_DEADLOCK FALSE
