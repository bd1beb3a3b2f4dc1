---------------------------- MODULE MCRelayLane -----------------------------
EXTENDS RelayLane
=============================================================================
