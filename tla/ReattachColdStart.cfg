\* Hub and worker are both restarted while the session is idle.
CONSTANTS
  MaxPerSession = 2
  Providers = {"claude"}
  Runs = {"attached"}
  Env = {"hubCrash", "respawn", "coldStart"}
  MaxWseq = 3
  MaxTurns = 2
  MaxFaults = 3
SPECIFICATION Spec
INVARIANTS
  NoSilentLoss
CHECK_DEADLOCK FALSE
