\* Two makers, three connections: one of them may reconnect while its old connection
\* is still registered, or still about to register.
CONSTANTS
  m1 = m1  m2 = m2
  NoMaker = NoMaker
  Makers = {m1, m2}
  MaxConns = 3
  MaxDials <- OneFlaps
  MaxCancels = 1
SPECIFICATION FairSpec
INVARIANTS
  RegisteredIsServed
PROPERTIES
  FeedFollowsRegistry
