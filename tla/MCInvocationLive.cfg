SPECIFICATION FairSpec
CONSTANTS
  c1 = c1
  c2 = c2
  k1 = k1
  k2 = k2
  k3 = k3
  Clients = {c1, c2}
  Calls = {k1, k2}
  Caller <- OneEach
CHECK_DEADLOCK FALSE
PROPERTY EveryCallIsAnswered
