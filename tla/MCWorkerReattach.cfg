\* One session, both vendors, one attachWorker() at a time: everything but the
\* behaviours the violation runs show to break the promise.
CONSTANTS
  MaxPerSession = 2
  Providers = {"claude", "codex"}
  Runs = {"attached"}
  Env = {"flap", "hubCrash", "respawn", "stop", "handoff", "timeout", "coalesce"}
  MaxWseq = 3
  MaxTurns = 2
  MaxFaults = 2
SPECIFICATION Spec
INVARIANTS
  TypeOK
  CursorIsHighWater
  IngestSafe
PROPERTIES
  StopHolds
  ImplementsLog
CHECK_DEADLOCK FALSE
