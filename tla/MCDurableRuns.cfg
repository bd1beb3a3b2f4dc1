CONSTANTS
  h1 = h1
  h2 = h2
  r1 = r1
  r2 = r2
  x = x
  None = None
  Hubs = {h1, h2}
  Runs = {r1, r2}
  Res = {x}
  Order <- MCOrder
  Away = {r1}
  Doubtful = {r1}
  Needs <- MCNeeds
  MaxFaults = 2
  Env = {}
SPECIFICATION FairSpec
PROPERTIES OwnerTold
INVARIANTS TypeOK ResourceAlone OutcomeHonest OncePerRun
CHECK_DEADLOCK FALSE
