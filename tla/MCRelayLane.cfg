\* Writes and approvals under every fault, apart from the interleavings of EnvKinds that
\* the code does not cover.
CONSTANTS
  Kinds = {"write", "approval"}
  Env = {"flap", "hubCrash", "respawn", "flip", "auto", "review"}
  QueueMax = 1
  MaxHubs = 2
  MaxRelays = 2
  MaxFaults = 1
SPECIFICATION Spec
INVARIANTS
  TypeOK
  NoOrphanedRelay
  WriteOncePerHub
  AnswersFit
CHECK_DEADLOCK FALSE
