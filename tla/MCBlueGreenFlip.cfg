CONSTANTS
  h1 = h1
  h2 = h2
  h3 = h3
  Hubs = {h1, h2, h3}
  None = None
  MaxFaults = 2
  MaxFlips = 2
  MayOrphan = TRUE
SPECIFICATION Spec
INVARIANTS TypeOK OneOwner
PROPERTIES RoleHandedOver Recovers OrphansSettle
CHECK_DEADLOCK FALSE
