CONSTANTS
  i1 = i1
  m1 = m1
  Providers = {"claude", "codex"}
  Steering = {TRUE, FALSE}
  Inputs = {i1}
  Mail = {m1}
  Env = {}
  MaxFaults = 2
SPECIFICATION Spec
INVARIANTS TypeOK OperatorAuthorityEarned InputOnce
PROPERTIES QueueAccounted NothingWaitsForever
CHECK_DEADLOCK FALSE
