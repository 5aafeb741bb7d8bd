\* Two RFQs and room for the statistics of one; the taker of the first repeats its
\* requests.
CONSTANTS
  r1 = r1  r2 = r2  m1 = m1  c1 = c1  c2 = c2
  Rfqs = {r1, r2}
  Makers = {m1}
  Calls = {c1, c2}
  Repeats <- MCRepeats
  StatsCap = 1
  MinConfs = 2
  MaxHeight = 2
  MaxFaults = 1
SPECIFICATION FairSpec
INVARIANTS
  SettledIsDeep
PROPERTIES
  StatsReachOneRow
  FirstRecordStands
  MinedSwapSettles
CHECK_DEADLOCK FALSE
