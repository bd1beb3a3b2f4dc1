--------------------------- MODULE MCReplayClient ---------------------------
(* Instances of ReplayClient for TLC.                                      *)
EXTENDS ReplayClient

NoKinds == {}
OneRow == {1}

=============================================================================
