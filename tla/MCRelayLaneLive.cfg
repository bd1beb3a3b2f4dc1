\* Calls that take time and approvals, with fairness.
CONSTANTS
  Kinds = {"action", "approval"}
  Env = {"flap", "respawn", "flip"}
  QueueMax = 1
  MaxHubs = 2
  MaxRelays = 1
  MaxFaults = 1
SPECIFICATION FairSpec
PROPERTIES
  RelaySettled
  LiveHubAttaches
CHECK_DEADLOCK FALSE
