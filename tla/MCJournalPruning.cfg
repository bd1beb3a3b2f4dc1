\* One snapshot of three rows for two peers, a pass of the hub's and one left behind.
CONSTANTS
  p = p
  q = q
  Peers = {p, q}
  Histories <- MCHistories
  MaxRows = 3
  MaxGen = 1
  BatchMax = 1
SPECIFICATION FairSpec
INVARIANTS
  TypeOK
  
  NothingLost
PROPERTIES
  Reclaims
\* The history ends, and then every command has been given.
CHECK_DEADLOCK FALSE
