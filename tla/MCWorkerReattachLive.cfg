\* Liveness, with promote()'s concurrent attachWorker() and no operator stop.
CONSTANTS
  MaxPerSession = 2
  Providers = {"claude", "codex"}
  Runs = {"attached", "promote"}
  Env = {"flap", "hubCrash", "respawn", "timeout", "coalesce"}
  MaxWseq = 2
  MaxTurns = 1
  MaxFaults = 1
SPECIFICATION FairSpec
PROPERTIES
  SessionSettles
CHECK_DEADLOCK FALSE
