CONSTANTS
  a = a
  b = b
  Hubs = {a, b}
  MaxGen = 2
  MaxHw = 2
  Keep = 2
  MaxFaults = 3
  Env = {}
SPECIFICATION FairSpec
PROPERTIES  ComesBack
INVARIANTS TypeOK EvidenceKept FamilyNeverMixed
CHECK_DEADLOCK FALSE
