------------------------ MODULE MCJournalRecovery ------------------------
(* Small instances of JournalRecovery for TLC.                              *)
EXTENDS JournalRecovery

CONSTANTS a, b

==========================================================================
