CONSTANTS
  MaxPerSession = 2
  Providers = {"claude", "codex"}
  Runs = {"attached"}
  Env = {"flap", "gapEmit"}
  MaxWseq = 3
  MaxTurns = 1
  MaxFaults = 1
SPECIFICATION Spec
INVARIANT NoSilentLoss
CHECK_DEADLOCK FALSE
